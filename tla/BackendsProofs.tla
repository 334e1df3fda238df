--------------------------- MODULE BackendsProofs ---------------------------
(***************************************************************************)
(* Theorems about the file backends, for every value of the constants of   *)
(* Backends: any number of calls, of paths and of races between them.      *)
(***************************************************************************)
EXTENDS Backends, TLAPS

Places == {"idle", "start", "reading", "compose", "opened", "written", "done", "lost"}

LocalsOK ==
    /\ backend \in {"disk", "memory"}
    /\ pc \in [Ops -> Places]
    /\ DOMAIN call = Ops /\ DOMAIN result = Ops
    /\ text \in [Ops -> Contents] /\ data \in [Ops -> Contents]
    /\ fd \in [Ops -> Ops \cup {Nothing}]
    /\ file \in [Paths -> Ops \cup {Nothing}] /\ tmp \in [Paths -> Ops \cup {Nothing}]
    /\ raced \subseteq Paths

\* What a call has, by the place it is at.
CallsOK ==
    \A o \in Ops :
        /\ IF pc[o] = "idle" THEN call[o] = Nothing ELSE call[o] \in Calls
        /\ pc[o] # "done" => result[o] = Nothing
        /\ pc[o] \in {"idle", "start"} => fd[o] = Nothing
        /\ pc[o] = "reading" => call[o].kind \in {"read", "edit"} /\ fd[o] # Nothing
        /\ pc[o] \in {"compose", "opened", "written"} => Changes(call[o])
        /\ pc[o] \in {"opened", "written"} => fd[o] # Nothing

\* The calls of the in-memory backend are done in one step.
MemoryOK ==
    backend = "memory" =>
        /\ raced = {} /\ \A p \in Paths : tmp[p] = Nothing
        /\ \A o \in Ops : pc[o] \in {"idle", "start", "done"} /\ fd[o] = Nothing

\* An inode is of the path of the call that created it.
Made(i, p) == pc[i] \in {"opened", "written", "done", "lost"} /\ Path(i) = p
InodesOK ==
    /\ \A p \in Paths : /\ file[p] # Nothing => Made(file[p], p)
                        /\ tmp[p] # Nothing => Made(tmp[p], p)
    /\ \A o \in Ops : fd[o] # Nothing => Made(fd[o], Path(o))

\* A path that is not raced for is changed by one call at a time.
Changing(o) == Busy(o) /\ Changes(call[o]) /\ Path(o) \notin raced
OneChanger ==
    backend = "disk" =>
        \A o, u \in Ops : Changing(o) /\ Changing(u) /\ Path(o) = Path(u) => o = u

\* Nothing is written to an inode that has or had the name of such a path.
Sealed(i, p) == tmp[p] # i /\ \A u \in Ops : pc[u] = "opened" => fd[u] # i
SealedInv ==
    /\ \A p \in Paths \ raced : file[p] # Nothing => Sealed(file[p], p)
    /\ \A o \in Ops : fd[o] # Nothing /\ call[o].kind = "read" /\ Path(o) \notin raced
                          => Sealed(fd[o], Path(o))

\* What a call that changes such a path is about to make of it.
Goal(o) == IF call[o].kind = "write" THEN <<o>> ELSE Append(Content(Path(o)), o)
DraftsOK ==
    \A o \in Ops : Changing(o) =>
        /\ pc[o] = "reading" => fd[o] = file[Path(o)]
        /\ pc[o] \in {"compose", "opened", "written"} => text[o] = Goal(o)
        /\ pc[o] = "opened" => tmp[Path(o)] = fd[o] /\ data[fd[o]] = <<>>
        /\ pc[o] = "written" => tmp[Path(o)] = fd[o] /\ data[fd[o]] = text[o]

BackendsInv ==
    LocalsOK /\ CallsOK /\ MemoryOK /\ InodesOK /\ OneChanger /\ SealedInv /\ DraftsOK

Step(o) == Memory(o) \/ Disk(o)

-----------------------------------------------------------------------------
\* A step of a call leaves the others alone.
LEMMA StepFrame ==
    ASSUME LocalsOK, NEW o \in Ops, Step(o)
    PROVE  /\ UNCHANGED <<backend, call, raced>>
           /\ \A u \in Ops : Path(u)' = Path(u)
           /\ \A u \in Ops : u # o => /\ pc'[u] = pc[u] /\ text'[u] = text[u]
                                      /\ fd'[u] = fd[u] /\ result'[u] = result[u]
<1>1. CASE Memory(o)
  BY <1>1 DEF Memory, MemoryWrite, MemoryEdit, MemoryRead, MemoryList, Put, Return, Go, LocalsOK, Path
<1>2. CASE RefusePath(o) \/ DiskList(o) \/ OpenFile(o) \/ NoSuchFile(o) \/ ReadFile(o) \/ ReadForEdit(o)
  BY <1>2 DEF RefusePath, DiskList, OpenFile, NoSuchFile, ReadFile, ReadForEdit, Return, Go, LocalsOK, Path
<1>3. CASE ComposeWrite(o) \/ OpenTmp(o) \/ WriteTmp(o) \/ WriteFails(o) \/ Rename(o)
  BY <1>3 DEF ComposeWrite, OpenTmp, WriteTmp, WriteFails, Rename, Return, Go, LocalsOK, Path
<1> QED  BY <1>1, <1>2, <1>3 DEF Step, Disk

\* The steps of a call, by what they do: nine of them only answer.
Replies(o) ==
    /\ pc[o] \in {"start", "reading", "compose", "opened", "written"} /\ pc'[o] = "done"
    /\ pc[o] \in {"compose", "opened", "written"} => result'[o] = Error
    /\ UNCHANGED <<text, fd, data, file, tmp>>

Puts(o) ==
    /\ backend = "memory" /\ pc[o] = "start" /\ pc'[o] = "done"
    /\ Changes(call[o]) /\ result'[o] = Ok(<<>>)
    /\ \A i \in Ops : data'[i] = IF i = o THEN Goal(o) ELSE data[i]
    /\ \A p \in Paths : file'[p] = IF p = Path(o) THEN o ELSE file[p]
    /\ UNCHANGED <<text, fd, tmp>>

Opens(o) ==
    /\ backend = "disk" /\ pc[o] = "start" /\ pc'[o] = "reading"
    /\ call[o].kind \in {"read", "edit"}
    /\ file[Path(o)] # Nothing /\ fd'[o] = file[Path(o)]
    /\ UNCHANGED <<text, result, data, file, tmp>>

Composes(o) ==
    /\ pc[o] \in {"start", "reading"} /\ pc'[o] = "compose" /\ Changes(call[o])
    /\ backend = "disk"
    /\ call[o].kind = "write" => text'[o] = <<o>>
    /\ call[o].kind = "edit" =>
          IF pc[o] = "start" THEN file[Path(o)] = Nothing /\ text'[o] = <<o>>
          ELSE text'[o] = Append(data[fd[o]], o)
    /\ UNCHANGED <<fd, result, data, file, tmp>>

Inode(o) == IF tmp[Path(o)] = Nothing THEN o ELSE tmp[Path(o)]
Empties(o) ==
    /\ pc[o] = "compose" /\ pc'[o] = "opened" /\ fd'[o] = Inode(o)
    /\ \A p \in Paths : tmp'[p] = IF p = Path(o) THEN Inode(o) ELSE tmp[p]
    /\ \A i \in Ops : data'[i] = IF i = Inode(o) THEN <<>> ELSE data[i]
    /\ UNCHANGED <<text, result, file>>

Fills(o) ==
    /\ pc[o] = "opened" /\ pc'[o] = "written"
    /\ \A i \in Ops : i # fd[o] => data'[i] = data[i]
    /\ data[fd[o]] = <<>> => data'[fd[o]] = text[o]
    /\ UNCHANGED <<text, fd, result, file, tmp>>

Renames(o) ==
    /\ pc[o] = "written" /\ pc'[o] = "done" /\ result'[o] = Ok(<<>>)
    /\ tmp[Path(o)] # Nothing
    /\ \A p \in Paths : file'[p] = IF p = Path(o) THEN tmp[p] ELSE file[p]
    /\ \A p \in Paths : tmp'[p] = IF p = Path(o) THEN Nothing ELSE tmp[p]
    /\ UNCHANGED <<text, fd, data>>

\* A call that is under way has a request of its own path.
LEMMA StepPlace ==
    ASSUME LocalsOK, CallsOK, NEW o \in Ops, Step(o)
    PROVE  /\ pc[o] \in {"start", "reading", "compose", "opened", "written"}
           /\ call[o] \in Calls /\ call[o] # Nothing /\ Path(o) \in Paths
           /\ result[o] = Nothing
<1>1. pc[o] \in {"start", "reading", "compose", "opened", "written"}
  BY DEF Step, Memory, MemoryWrite, MemoryEdit, MemoryRead, MemoryList, InMemory, Disk, RefusePath,
         DiskList, OpenFile, NoSuchFile, ReadFile, ReadForEdit, ComposeWrite, OpenTmp, WriteTmp,
         WriteFails, Rename, OnDisk, At
<1> QED
  BY <1>1, NothingAssumption, CallsAssumption DEF CallsOK, Path

LEMMA StepShape ==
    ASSUME LocalsOK, CallsOK, MemoryOK, InodesOK, NEW o \in Ops, Step(o)
    PROVE  \/ Replies(o) \/ Puts(o) \/ Opens(o) \/ Composes(o)
           \/ Empties(o) \/ Fills(o) \/ Renames(o)
<1>1. /\ pc[o] \in {"start", "reading", "compose", "opened", "written"}
      /\ Path(o) \in Paths
  BY StepPlace
<1>2. pc[o] \in {"opened", "written"} => fd[o] \in Ops
  BY DEF CallsOK, LocalsOK
<1>3. CASE MemoryWrite(o) \/ MemoryEdit(o)
  <2>1. Changes(call[o]) /\ Put(o, Goal(o)) /\ backend = "memory" /\ pc[o] = "start"
    BY <1>3 DEF MemoryWrite, MemoryEdit, InMemory, Goal, Changes
  <2> QED  BY <1>1, <2>1 DEF Put, Return, Go, Puts, LocalsOK
<1>4. CASE MemoryRead(o) \/ MemoryList(o) \/ RefusePath(o) \/ DiskList(o) \/ ReadFile(o)
  <2>1. pc[o] \in {"start", "reading"} /\ UNCHANGED <<text, fd, data, file, tmp>>
    BY <1>4 DEF MemoryRead, MemoryList, InMemory, RefusePath, DiskList, ReadFile, OnDisk, At
  <2>2. \E r : Return(o, r)
    BY <1>4 DEF MemoryRead, MemoryList, RefusePath, DiskList, ReadFile
  <2> QED  BY <2>1, <2>2 DEF Return, Go, Replies, LocalsOK
<1>5. CASE OpenFile(o)
  BY <1>5 DEF OpenFile, OnDisk, Go, Opens, LocalsOK
<1>6. CASE NoSuchFile(o)
  BY <1>1, <1>6 DEF NoSuchFile, OnDisk, Return, Go, Replies, Composes, Changes, LocalsOK
<1>7. CASE ReadForEdit(o)
  BY <1>1, <1>7 DEF ReadForEdit, At, Go, Composes, Changes, MemoryOK, LocalsOK
<1>8. CASE ComposeWrite(o)
  BY <1>1, <1>8 DEF ComposeWrite, OnDisk, Go, Composes, Changes, LocalsOK
<1>9. CASE OpenTmp(o)
  <2>1. Inode(o) \in Ops
    BY <1>1 DEF Inode, LocalsOK
  <2>2. /\ fd' = [fd EXCEPT ![o] = Inode(o)] /\ tmp' = [tmp EXCEPT ![Path(o)] = Inode(o)]
        /\ data' = [data EXCEPT ![Inode(o)] = <<>>] /\ pc' = [pc EXCEPT ![o] = "opened"]
        /\ UNCHANGED <<text, result, file>>
    BY <1>9 DEF OpenTmp, Inode, Go
  <2> QED  BY <1>1, <1>9, <2>1, <2>2 DEF OpenTmp, Empties, LocalsOK
<1>10. CASE WriteTmp(o)
  <2>1. PICK tail \in IF data[fd[o]] = <<>> THEN {<<>>} ELSE {<<>>, <<Mix>>} :
                 data' = [data EXCEPT ![fd[o]] = text[o] \o tail]
    BY <1>10 DEF WriteTmp
  <2>2. text[o] \in Seq(Ops \cup {Mix})
    BY DEF LocalsOK, Contents
  <2>3. text[o] \o <<>> = text[o]
    BY <2>2
  <2> QED  BY <1>2, <1>10, <2>1, <2>3 DEF WriteTmp, Go, Fills, LocalsOK
<1>11. CASE WriteFails(o)
  BY <1>11 DEF WriteFails, Return, Go, Replies, LocalsOK
<1>12. CASE Rename(o)
  <2>1. CASE tmp[Path(o)] = Nothing
    BY <1>12, <2>1 DEF Rename, Return, Go, Replies, LocalsOK
  <2>2. CASE tmp[Path(o)] # Nothing
    BY <1>1, <1>12, <2>2 DEF Rename, Return, Go, Renames, LocalsOK
  <2> QED  BY <2>1, <2>2
<1> QED
  BY <1>3, <1>4, <1>5, <1>6, <1>7, <1>8, <1>9, <1>10, <1>11, <1>12 DEF Step, Memory, Disk

-----------------------------------------------------------------------------
LEMMA ContentsClosed ==
    ASSUME NEW c \in Contents, NEW o \in Ops
    PROVE  /\ Append(c, o) \in Contents /\ <<o>> \in Contents /\ <<>> \in Contents
           /\ c \o <<Mix>> \in Contents /\ c \o <<>> \in Contents /\ c \o <<>> = c
BY DEF Contents

LEMMA ContentTyped ==
    ASSUME LocalsOK, NEW p \in Paths
    PROVE  Content(p) \in Contents
<1>1. <<>> \in Contents
  BY DEF Contents
<1>2. file[p] # Nothing => data[file[p]] \in Contents
  BY DEF LocalsOK
<1> QED  BY <1>1, <1>2 DEF Content

LEMMA LocalsInit ==
    ASSUME Init
    PROVE  BackendsInv
<1>1. LocalsOK
  <2>1. <<>> \in Contents
    BY DEF Contents
  <2> QED  BY <2>1, BackendAssumption DEF Init, LocalsOK, Places
<1>2. CallsOK /\ MemoryOK /\ InodesOK
  BY DEF Init, CallsOK, MemoryOK, InodesOK
<1>3. OneChanger /\ SealedInv /\ DraftsOK
  BY DEF Init, OneChanger, SealedInv, DraftsOK, Changing, Busy
<1> QED  BY <1>1, <1>2, <1>3 DEF BackendsInv

\* What a Begin is.
LEMMA BeginShape ==
    ASSUME LocalsOK, CallsOK, NEW o \in Ops, Begin(o)
    PROVE  /\ pc[o] = "idle" /\ pc'[o] = "start" /\ call[o] = Nothing /\ call'[o] \in Calls
           /\ \A u \in Ops : u # o => pc'[u] = pc[u] /\ call'[u] = call[u] /\ Path(u)' = Path(u)
           /\ raced \subseteq raced' /\ raced' \subseteq raced \cup {Path(o)'}
           /\ Path(o)' \in raced' \ raced => backend = "disk" /\ Changes(call'[o])
           /\ backend = "disk" /\ Changes(call'[o]) /\ BeingChanged(Path(o)') => Path(o)' \in raced'
           /\ Path(o)' \in raced' \ raced => BeingChanged(Path(o)')
           /\ Path(o)' \in Paths
           /\ UNCHANGED <<backend, text, fd, result, data, file, tmp>>
<1>1. PICK c \in Calls :
         /\ call' = [call EXCEPT ![o] = c]
         /\ raced' = raced \cup
                (IF backend = "disk" /\ Changes(c) /\ BeingChanged(c.path) THEN {c.path} ELSE {})
  BY DEF Begin
<1>2. /\ pc[o] = "idle" /\ pc' = [pc EXCEPT ![o] = "start"]
      /\ UNCHANGED <<backend, text, fd, result, data, file, tmp>>
  BY DEF Begin
<1>3. call'[o] = c /\ Path(o)' = c.path /\ c.path \in Paths
  BY <1>1, CallsAssumption DEF Path, LocalsOK
<1>4. \A u \in Ops : u # o => pc'[u] = pc[u] /\ call'[u] = call[u] /\ Path(u)' = Path(u)
  BY <1>1, <1>2 DEF Path, LocalsOK
<1> QED  BY <1>1, <1>2, <1>3, <1>4 DEF LocalsOK, CallsOK

LEMMA LocalsKept ==
    ASSUME LocalsOK, CallsOK, MemoryOK, InodesOK, [Next]_vars
    PROVE  LocalsOK'
<1>1. ASSUME NEW o \in Ops, Begin(o)
      PROVE  LocalsOK'
  <2>1. raced' \subseteq Paths
    BY <1>1, BeginShape DEF LocalsOK
  <2> QED  BY <1>1, <2>1 DEF Begin, LocalsOK, Places
<1>2. ASSUME NEW o \in Ops, Step(o)
      PROVE  LocalsOK'
  <2>1. Path(o) \in Paths
    BY <1>2, StepPlace
  <2>2. pc[o] \in {"opened", "written"} => fd[o] \in Ops
    BY DEF CallsOK, LocalsOK
  <2>3. pc[o] = "reading" => fd[o] \in Ops
    BY DEF CallsOK, LocalsOK
  <2>4. CASE MemoryWrite(o) \/ MemoryEdit(o)
    <3> DEFINE c == Content(Path(o))
    <3>1. c \in Contents
      BY <2>1, ContentTyped
    <3>2. MemoryWrite(o) \/ (MemoryEdit(o) /\ Put(o, Append(c, o)))
      BY <2>4 DEF MemoryEdit
    <3> HIDE DEF c
    <3>3. Append(c, o) \in Contents /\ <<o>> \in Contents
      BY <3>1, ContentsClosed
    <3>4. PICK d \in Contents : Put(o, d)
      BY <3>2, <3>3 DEF MemoryWrite
    <3> QED  BY <2>1, <3>4 DEF Put, Return, Go, LocalsOK, Places
  <2>5. CASE MemoryRead(o) \/ MemoryList(o)
    <3>1. /\ UNCHANGED <<call, text, fd, data, file, tmp>>
          /\ \E r : Return(o, r)
      BY <2>5 DEF MemoryRead, MemoryList
    <3> QED  BY <3>1 DEF Return, Go, LocalsOK, Places
  <2>6. CASE RefusePath(o) \/ DiskList(o) \/ OpenFile(o) \/ ReadFile(o) \/ WriteFails(o)
    BY <2>6, <2>1 DEF RefusePath, DiskList, OpenFile, ReadFile, WriteFails, Return, Go, LocalsOK, Places
  <2>7. CASE NoSuchFile(o) \/ ComposeWrite(o)
    <3>1. <<o>> \in Contents
      BY DEF Contents
    <3> QED  BY <2>7, <2>1, <3>1 DEF NoSuchFile, ComposeWrite, Return, Go, LocalsOK, Places
  <2>8. CASE ReadForEdit(o)
    <3>1. Append(data[fd[o]], o) \in Contents
      BY <2>8, <2>3, ContentsClosed DEF ReadForEdit, At, LocalsOK
    <3> QED  BY <2>8, <3>1 DEF ReadForEdit, Go, LocalsOK, Places
  <2>9. CASE OpenTmp(o)
    <3>1. Inode(o) \in Ops /\ <<>> \in Contents
      BY <2>1 DEF Inode, LocalsOK, Contents
    <3>2. /\ fd' = [fd EXCEPT ![o] = Inode(o)] /\ tmp' = [tmp EXCEPT ![Path(o)] = Inode(o)]
          /\ data' = [data EXCEPT ![Inode(o)] = <<>>] /\ pc' = [pc EXCEPT ![o] = "opened"]
          /\ UNCHANGED <<backend, raced, call, text, result, file>>
      BY <2>9 DEF OpenTmp, Inode, Go
    <3> QED  BY <2>1, <3>1, <3>2 DEF LocalsOK, Places
  <2>10. CASE WriteTmp(o)
    <3>1. PICK tail \in IF data[fd[o]] = <<>> THEN {<<>>} ELSE {<<>>, <<Mix>>} :
                   data' = [data EXCEPT ![fd[o]] = text[o] \o tail]
      BY <2>10 DEF WriteTmp
    <3>2. text[o] \o tail \in Contents
      BY ContentsClosed DEF LocalsOK
    <3> QED  BY <2>10, <2>2, <3>1, <3>2 DEF WriteTmp, Go, LocalsOK, Places
  <2>11. CASE Rename(o)
    BY <2>11, <2>1 DEF Rename, Return, Go, LocalsOK, Places
  <2> QED  BY <1>2, <2>4, <2>5, <2>6, <2>7, <2>8, <2>9, <2>10, <2>11 DEF Step, Memory, Disk
<1>3. CASE Crash
  BY <1>3 DEF Crash, LocalsOK, Places
<1>4. CASE UNCHANGED vars
  BY <1>4 DEF vars, LocalsOK
<1> QED  BY <1>1, <1>2, <1>3, <1>4 DEF Next, Step, Finished

\* A call that begins has no file open and changes nothing yet; what it may
\* do is to give up a path that another call is changing.
LEMMA BeginKeeps ==
    ASSUME BackendsInv, NEW o \in Ops, Begin(o)
    PROVE  (CallsOK /\ MemoryOK /\ InodesOK /\ OneChanger /\ SealedInv /\ DraftsOK)'
<1> USE DEF BackendsInv
<1>1. /\ pc[o] = "idle" /\ pc'[o] = "start" /\ call[o] = Nothing /\ call'[o] \in Calls
      /\ \A u \in Ops : u # o => pc'[u] = pc[u] /\ call'[u] = call[u] /\ Path(u)' = Path(u)
      /\ raced \subseteq raced'
      /\ Path(o)' \in raced' \ raced => backend = "disk"
      /\ raced' \subseteq raced \cup {Path(o)'}
      /\ UNCHANGED <<backend, text, fd, result, data, file, tmp>>
  BY BeginShape
<1>2. backend = "disk" /\ Changes(call'[o]) /\ BeingChanged(Path(o)') => Path(o)' \in raced'
  BY BeginShape
<1>3. fd[o] = Nothing /\ result[o] = Nothing
  BY <1>1 DEF CallsOK
<1>4. CallsOK'
  BY <1>1, <1>3 DEF CallsOK
<1>5. MemoryOK'
  BY <1>1, <1>3 DEF MemoryOK
<1>6. \A i \in Ops, p \in Paths : Made(i, p) => Made(i, p)'
  BY <1>1 DEF Made
<1>7. \A u \in Ops : fd[u] # Nothing => u # o /\ fd[u] \in Ops /\ Made(fd[u], Path(u))
  BY <1>3 DEF InodesOK, LocalsOK
<1>8. InodesOK'
  <2>1. \A p \in Paths : /\ file[p] # Nothing => file[p] \in Ops /\ Made(file[p], p)
                         /\ tmp[p] # Nothing => tmp[p] \in Ops /\ Made(tmp[p], p)
    BY DEF InodesOK, LocalsOK
  <2>2. ASSUME NEW u \in Ops, fd[u] # Nothing
        PROVE  Made(fd[u], Path(u))'
    BY <1>1, <1>7, <2>2 DEF Made
  <2> QED  BY <1>1, <1>6, <2>1, <2>2 DEF InodesOK
<1>9. \A u \in Ops : Changing(u)' => u = o \/ Changing(u)
  BY <1>1 DEF Changing, Busy
<1>10. OneChanger'
  <2>1. ASSUME NEW u \in Ops, u # o, Changing(u)', Changing(o)', Path(u)' = Path(o)', backend = "disk"
        PROVE  FALSE
    <3>1. Changing(u) /\ Path(u) = Path(o)' /\ Changes(call'[o]) /\ Path(o)' \notin raced'
      BY <1>1, <1>9, <2>1 DEF Changing
    <3>2. BeingChanged(Path(o)')
      BY <3>1 DEF Changing, BeingChanged
    <3> QED  BY <1>2, <2>1, <3>1, <3>2
  <2> QED  BY <1>1, <1>9, <2>1 DEF OneChanger
<1>11. SealedInv'
  <2>1. \A i \in Ops, p \in Paths : Sealed(i, p) => Sealed(i, p)'
    BY <1>1 DEF Sealed
  <2>2. \A p \in Paths \ raced : file[p] # Nothing => file[p] \in Ops /\ Sealed(file[p], p)
    BY DEF SealedInv, LocalsOK
  <2>3. ASSUME NEW u \in Ops, fd[u] # Nothing, call'[u].kind = "read", Path(u)' \notin raced'
        PROVE  Sealed(fd[u], Path(u))'
    <3>1. Path(u)' = Path(u) /\ Path(u) \notin raced /\ call[u].kind = "read" /\ Sealed(fd[u], Path(u))
      BY <1>1, <1>7, <2>3 DEF SealedInv
    <3> QED  BY <1>1, <3>1 DEF Sealed
  <2> QED  BY <1>1, <2>1, <2>2, <2>3 DEF SealedInv
<1>12. DraftsOK'
  <2>1. ASSUME NEW u \in Ops, u # o
        PROVE  Goal(u)' = Goal(u)
    BY <1>1, <2>1 DEF Goal, Content
  <2> QED  BY <1>1, <1>9, <2>1 DEF DraftsOK
<1> QED  BY <1>4, <1>5, <1>8, <1>10, <1>11, <1>12

LEMMA CrashKeeps ==
    ASSUME BackendsInv, Crash
    PROVE  (CallsOK /\ MemoryOK /\ InodesOK /\ OneChanger /\ SealedInv /\ DraftsOK)'
<1> USE DEF BackendsInv
<1>1. /\ \A u \in Ops : pc'[u] = IF Busy(u) THEN "lost" ELSE pc[u]
      /\ backend = "disk"
      /\ UNCHANGED <<backend, call, text, fd, result, data, file, tmp, raced>>
  BY DEF Crash
<1>2. \A u \in Ops : ~Busy(u)' /\ pc'[u] \in {"idle", "done", "lost"}
  BY <1>1 DEF Busy
<1>3. CallsOK'
  BY <1>1 DEF CallsOK, Busy
<1>4. MemoryOK' /\ OneChanger' /\ DraftsOK'
  BY <1>1, <1>2 DEF MemoryOK, OneChanger, DraftsOK, Changing
<1>5. InodesOK'
  <2>1. \A i, p : i \in Ops /\ Made(i, p) => Made(i, p)'
    BY <1>1 DEF Made, Busy, Path
  <2>2. \A p \in Paths : /\ file[p] # Nothing => file[p] \in Ops
                         /\ tmp[p] # Nothing => tmp[p] \in Ops
    BY DEF LocalsOK
  <2>3. \A u \in Ops : (fd[u] # Nothing => fd[u] \in Ops) /\ Path(u)' = Path(u)
    BY <1>1 DEF LocalsOK, Path
  <2> QED  BY <1>1, <2>1, <2>2, <2>3 DEF InodesOK
<1>6. SealedInv'
  <2>1. \A i, p : Sealed(i, p) => Sealed(i, p)'
    BY <1>1, <1>2 DEF Sealed
  <2> QED  BY <1>1, <2>1 DEF SealedInv, Path
<1> QED  BY <1>3, <1>4, <1>5, <1>6

-----------------------------------------------------------------------------
\* What a step of a call finds and leaves, by its shape.
LEMMA StepGoes ==
    ASSUME BackendsInv, NEW o \in Ops, Step(o)
    PROVE  /\ Busy(o) /\ Path(o) \in Paths
           /\ pc'[o] \in {"reading", "compose", "opened", "written", "done"}
           /\ pc[o] = "opened" => pc'[o] \in {"written", "done"}
           /\ pc[o] = "written" => pc'[o] = "done"
           /\ pc'[o] = "opened" => Empties(o)
           /\ pc'[o] = "written" => Fills(o)
<1>1. \/ Replies(o) \/ Puts(o) \/ Opens(o) \/ Composes(o)
      \/ Empties(o) \/ Fills(o) \/ Renames(o)
  BY StepShape DEF BackendsInv
<1>2. Path(o) \in Paths /\ pc[o] \in {"start", "reading", "compose", "opened", "written"}
  BY StepPlace DEF BackendsInv
<1> QED
  BY <1>1, <1>2 DEF Busy, Made, Replies, Puts, Opens, Composes, Empties, Fills, Renames

\* A call keeps what it has made.
LEMMA MadeKept ==
    ASSUME BackendsInv, NEW o \in Ops, Step(o), NEW i \in Ops, NEW p \in Paths, Made(i, p)
    PROVE  Made(i, p)'
<1>1. Path(i)' = Path(i) /\ (i # o => pc'[i] = pc[i])
  BY StepFrame DEF BackendsInv
<1>2. i = o => pc[o] \in {"opened", "written"}
  BY StepPlace DEF BackendsInv, Made
<1> QED  BY <1>1, <1>2, StepGoes DEF Made

\* The inodes named by a path or open in a call.
LEMMA InodesMade ==
    ASSUME LocalsOK, InodesOK
    PROVE  /\ \A p \in Paths : /\ file[p] # Nothing => file[p] \in Ops /\ Made(file[p], p)
                               /\ tmp[p] # Nothing => tmp[p] \in Ops /\ Made(tmp[p], p)
           /\ \A u \in Ops : fd[u] # Nothing => fd[u] \in Ops /\ Made(fd[u], Path(u))
BY DEF LocalsOK, InodesOK

\* Whoever writes to an inode has opened it as the temporary file of its path.
LEMMA Unwritten ==
    ASSUME BackendsInv, NEW o \in Ops, Step(o),
           NEW i \in Ops, NEW p \in Paths, Made(i, p), Sealed(i, p)
    PROVE  data'[i] = data[i] /\ Sealed(i, p)'
<1>1. \/ Replies(o) \/ Puts(o) \/ Opens(o) \/ Composes(o)
      \/ Empties(o) \/ Fills(o) \/ Renames(o)
  BY StepShape DEF BackendsInv
<1>2. Path(o) \in Paths
  BY StepPlace DEF BackendsInv
<1>3. \A u \in Ops : u # o => pc'[u] = pc[u] /\ fd'[u] = fd[u]
  BY StepFrame DEF BackendsInv
<1>4. i # Nothing
  BY NothingAssumption
<1>5. pc[o] \in {"start", "reading", "compose"} => i # o
  BY DEF Made
<1>6. pc[o] = "compose" => i # Inode(o)
  <2>1. ASSUME tmp[Path(o)] = i
        PROVE  FALSE
    <3>1. Made(i, Path(o))
      BY <1>2, <1>4, <2>1, InodesMade DEF BackendsInv
    <3>2. Path(o) = p
      BY <3>1 DEF Made
    <3> QED  BY <2>1, <3>2 DEF Sealed
  <2> QED  BY <1>5, <2>1 DEF Inode
<1>7. data'[i] = data[i]
  <2>1. CASE Empties(o)
    BY <1>6, <2>1 DEF Empties
  <2>2. CASE Fills(o)
    BY <2>2 DEF Fills, Sealed
  <2>3. CASE Puts(o)
    BY <1>5, <2>3 DEF Puts
  <2>4. CASE Replies(o) \/ Opens(o) \/ Composes(o) \/ Renames(o)
    BY <2>4 DEF Replies, Opens, Composes, Renames
  <2> QED  BY <1>1, <2>1, <2>2, <2>3, <2>4
<1>8. tmp'[p] # i
  <2>1. CASE Empties(o)
    BY <1>6, <2>1 DEF Empties, Sealed
  <2>2. CASE Renames(o)
    BY <1>4, <2>2 DEF Renames, Sealed
  <2>3. CASE Replies(o) \/ Opens(o) \/ Composes(o) \/ Puts(o) \/ Fills(o)
    BY <2>3 DEF Replies, Opens, Composes, Puts, Fills, Sealed
  <2> QED  BY <1>1, <2>1, <2>2, <2>3
<1>9. ASSUME NEW u \in Ops, pc'[u] = "opened"
      PROVE  fd'[u] # i
  <2>1. CASE u = o
    BY <1>6, <1>9, <2>1, StepGoes DEF Empties
  <2>2. CASE u # o
    BY <1>3, <1>9, <2>2 DEF Sealed
  <2> QED  BY <2>1, <2>2
<1> QED  BY <1>7, <1>8, <1>9 DEF Sealed

LEMMA CallsKept ==
    ASSUME BackendsInv, NEW o \in Ops, Step(o)
    PROVE  CallsOK' /\ MemoryOK' /\ OneChanger'
<1>1. \/ Replies(o) \/ Puts(o) \/ Opens(o) \/ Composes(o)
      \/ Empties(o) \/ Fills(o) \/ Renames(o)
  BY StepShape DEF BackendsInv
<1>2. /\ call[o] \in Calls /\ Path(o) \in Paths /\ result[o] = Nothing
      /\ pc[o] \in {"start", "reading", "compose", "opened", "written"}
  BY StepPlace DEF BackendsInv
<1>3. /\ UNCHANGED <<backend, call, raced>>
      /\ \A u \in Ops : u # o => /\ pc'[u] = pc[u] /\ fd'[u] = fd[u] /\ result'[u] = result[u]
  BY StepFrame DEF BackendsInv
<1>4. pc'[o] \in {"reading", "compose", "opened", "written", "done"}
  BY StepGoes
<1>5. CallsOK'
  <2>1. ASSUME NEW u \in Ops, u # o
        PROVE  /\ IF pc'[u] = "idle" THEN call'[u] = Nothing ELSE call'[u] \in Calls
               /\ pc'[u] # "done" => result'[u] = Nothing
               /\ pc'[u] \in {"idle", "start"} => fd'[u] = Nothing
               /\ pc'[u] = "reading" => call'[u].kind \in {"read", "edit"} /\ fd'[u] # Nothing
               /\ pc'[u] \in {"compose", "opened", "written"} => Changes(call'[u])
               /\ pc'[u] \in {"opened", "written"} => fd'[u] # Nothing
    BY <1>3, <2>1 DEF BackendsInv, CallsOK
  <2>2. pc'[o] # "done" => result'[o] = Nothing
    BY <1>1, <1>2 DEF Replies, Puts, Opens, Composes, Empties, Fills, Renames
  <2>3. pc'[o] = "reading" => call[o].kind \in {"read", "edit"} /\ fd'[o] # Nothing
    BY <1>1 DEF Replies, Puts, Opens, Composes, Empties, Fills, Renames
  <2>4. pc'[o] \in {"compose", "opened", "written"} => Changes(call[o])
    BY <1>1 DEF Replies, Puts, Opens, Composes, Empties, Fills, Renames, BackendsInv, CallsOK
  <2>5. pc'[o] \in {"opened", "written"} => fd'[o] # Nothing
    <3>1. Inode(o) # Nothing
      BY NothingAssumption DEF Inode
    <3>2. pc'[o] = "written" => fd[o] # Nothing /\ fd' = fd
      BY StepGoes DEF Fills, BackendsInv, CallsOK
    <3> QED  BY <3>1, <3>2, StepGoes DEF Empties
  <2> QED  BY <1>2, <1>3, <1>4, <2>1, <2>2, <2>3, <2>4, <2>5 DEF CallsOK
<1>6. MemoryOK'
  <2>1. ASSUME backend = "memory"
        PROVE  Replies(o) \/ Puts(o)
    BY <1>1, <1>2, <2>1 DEF BackendsInv, MemoryOK, Opens, Composes, Empties, Fills, Renames
  <2> QED  BY <1>3, <2>1 DEF BackendsInv, MemoryOK, Replies, Puts
<1>7. OneChanger'
  <2>1. \A u \in Ops : Path(u)' = Path(u)
    BY StepFrame DEF BackendsInv
  <2>2. \A u \in Ops : Changing(u)' => Changing(u)
    BY <1>2, <1>3, <2>1 DEF Changing, Busy
  <2> QED  BY <1>3, <2>1, <2>2 DEF BackendsInv, OneChanger
<1> QED  BY <1>5, <1>6, <1>7

LEMMA InodesKept ==
    ASSUME BackendsInv, NEW o \in Ops, Step(o)
    PROVE  InodesOK'
<1>1. \/ Replies(o) \/ Puts(o) \/ Opens(o) \/ Composes(o)
      \/ Empties(o) \/ Fills(o) \/ Renames(o)
  BY StepShape DEF BackendsInv
<1>2. Path(o) \in Paths
  BY StepPlace DEF BackendsInv
<1>3. \A u \in Ops : Path(u)' = Path(u) /\ (u # o => fd'[u] = fd[u])
  BY StepFrame DEF BackendsInv
<1>4. \A i \in Ops, p \in Paths : Made(i, p) => Made(i, p)'
  BY MadeKept
<1>5. \A u \in Ops : fd[u] # Nothing => Path(u) \in Paths
  BY CallsAssumption DEF BackendsInv, CallsOK, Path
<1>6. \A p \in Paths : p = Path(o) /\ pc'[o] \in {"opened", "done"} => Made(o, p)'
  BY <1>3 DEF Made
<1>7. ASSUME NEW p \in Paths, file'[p] # Nothing
      PROVE  \E i \in Ops : file'[p] = i /\ Made(i, p)'
  <2>1. CASE file'[p] = file[p]
    BY <1>4, <1>7, <2>1, InodesMade DEF BackendsInv
  <2>2. CASE file'[p] # file[p]
    <3>1. p = Path(o) /\ (Puts(o) \/ Renames(o))
      BY <1>1, <2>2 DEF Replies, Puts, Opens, Composes, Empties, Fills, Renames
    <3>2. Puts(o) => file'[p] = o /\ pc'[o] = "done"
      BY <3>1 DEF Puts
    <3>3. Renames(o) => file'[p] = tmp[p] /\ tmp[p] # Nothing
      BY <3>1 DEF Renames
    <3> QED  BY <1>4, <1>6, <3>1, <3>2, <3>3, InodesMade DEF BackendsInv
  <2> QED  BY <2>1, <2>2
<1>8. ASSUME NEW p \in Paths, tmp'[p] # Nothing
      PROVE  \E i \in Ops : tmp'[p] = i /\ Made(i, p)'
  <2>1. CASE tmp'[p] = tmp[p]
    BY <1>4, <1>8, <2>1, InodesMade DEF BackendsInv
  <2>2. CASE tmp'[p] # tmp[p]
    <3>1. p = Path(o) /\ Empties(o)
      BY <1>1, <1>8, <2>2 DEF Replies, Puts, Opens, Composes, Empties, Fills, Renames
    <3>2. pc'[o] = "opened" /\ tmp'[p] = o
      BY <3>1, <2>2 DEF Empties, Inode
    <3> QED  BY <1>6, <3>1, <3>2
  <2> QED  BY <2>1, <2>2
<1>9. ASSUME NEW u \in Ops, fd'[u] # Nothing
      PROVE  \E i \in Ops : fd'[u] = i /\ Made(i, Path(u))'
  <2>1. CASE fd'[u] = fd[u]
    BY <1>3, <1>4, <1>5, <1>9, <2>1, InodesMade DEF BackendsInv, Made
  <2>2. CASE fd'[u] # fd[u]
    <3>1. u = o /\ (Opens(o) \/ Empties(o))
      BY <1>1, <1>3, <2>2 DEF Replies, Puts, Opens, Composes, Empties, Fills, Renames
    <3>2. PICK i \in Ops : fd'[o] = i /\ (Made(i, Path(o)) \/ (i = o /\ pc'[o] = "opened"))
      BY <1>2, <3>1, InodesMade DEF BackendsInv, Opens, Empties, Inode
    <3>3. Made(i, Path(o)) => pc'[i] \in {"opened", "written", "done", "lost"} /\ Path(i)' = Path(o)
      BY <1>2, <1>3, <1>4 DEF Made
    <3> QED  BY <1>3, <1>6, <3>1, <3>2, <3>3 DEF Made
  <2> QED  BY <2>1, <2>2
<1> QED  BY <1>7, <1>8, <1>9 DEF InodesOK

\* Of two calls that change a path, one at least finds it raced for.
LEMMA OtherChanger ==
    ASSUME BackendsInv, backend = "disk", NEW o \in Ops, NEW u \in Ops, u # o,
           Busy(o), Changes(call[o]), Changing(u)
    PROVE  Path(o) # Path(u)
BY DEF BackendsInv, OneChanger, Changing

LEMMA SealedKept ==
    ASSUME BackendsInv, NEW o \in Ops, Step(o)
    PROVE  SealedInv'
<1>1. \/ Replies(o) \/ Puts(o) \/ Opens(o) \/ Composes(o)
      \/ Empties(o) \/ Fills(o) \/ Renames(o)
  BY StepShape DEF BackendsInv
<1>2. Path(o) \in Paths /\ Busy(o)
  BY StepPlace, StepGoes DEF BackendsInv
<1>3. /\ UNCHANGED <<backend, call, raced>>
      /\ \A u \in Ops : Path(u)' = Path(u)
      /\ \A u \in Ops : u # o => pc'[u] = pc[u] /\ fd'[u] = fd[u]
  BY StepFrame DEF BackendsInv
<1>4. \A i \in Ops, p \in Paths : Made(i, p) /\ Sealed(i, p) => Sealed(i, p)'
  BY Unwritten
<1>5. \A u \in Ops : fd[u] # Nothing => Path(u) \in Paths
  BY CallsAssumption DEF BackendsInv, CallsOK, Path
<1>6. ASSUME NEW p \in Paths \ raced, file[p] # Nothing
      PROVE  file[p] \in Ops /\ Made(file[p], p) /\ Sealed(file[p], p)
  BY <1>6, InodesMade DEF BackendsInv, SealedInv
<1>7. ASSUME NEW p \in Paths \ raced, NEW i \in Ops, file'[p] = i
      PROVE  Sealed(i, p)'
  <2>1. CASE file'[p] = file[p]
    BY <1>4, <1>6, <1>7, <2>1, NothingAssumption
  <2>2. CASE file'[p] # file[p]
    <3>1. p = Path(o) /\ (Puts(o) \/ Renames(o))
      BY <1>1, <2>2 DEF Replies, Puts, Opens, Composes, Empties, Fills, Renames
    <3>2. CASE Puts(o)
      <4>1. tmp'[p] = Nothing /\ \A u \in Ops : pc'[u] # "opened"
        BY <1>3, <3>2 DEF Puts, BackendsInv, MemoryOK
      <4> QED  BY <4>1, NothingAssumption DEF Sealed
    <3>3. CASE Renames(o)
      <4>1. tmp'[p] = Nothing /\ tmp[p] = i /\ tmp[p] # Nothing
        BY <1>7, <3>1, <3>3 DEF Renames
      <4>2. Made(i, p) /\ pc[o] = "written" /\ pc'[o] = "done"
        BY <3>3, <4>1, InodesMade DEF Renames, BackendsInv
      <4>3. Changes(call[o]) /\ backend = "disk"
        BY <4>2 DEF BackendsInv, CallsOK, MemoryOK, LocalsOK
      <4>4. ASSUME NEW u \in Ops, pc'[u] = "opened", fd'[u] = i
            PROVE  FALSE
        <5>1. u # o /\ pc[u] = "opened" /\ fd[u] = i
          BY <1>3, <4>2, <4>4
        <5>2. Made(i, Path(u))
          BY <5>1, InodesMade, NothingAssumption DEF BackendsInv
        <5>3. Path(u) = Path(o)
          BY <3>1, <4>2, <5>2 DEF Made
        <5>4. Changing(u)
          BY <3>1, <5>1, <5>3 DEF Changing, Busy, BackendsInv, CallsOK
        <5> QED  BY <1>2, <4>3, <5>1, <5>3, <5>4, OtherChanger
      <4> QED  BY <4>1, <4>4, NothingAssumption DEF Sealed
    <3> QED  BY <3>1, <3>2, <3>3
  <2> QED  BY <2>1, <2>2
<1>8. ASSUME NEW u \in Ops, fd'[u] # Nothing, call[u].kind = "read", Path(u) \notin raced
      PROVE  \E i \in Ops : fd'[u] = i /\ \A p \in Paths : p = Path(u) => Sealed(i, p)'
  <2>1. CASE fd'[u] = fd[u]
    <3>1. fd[u] \in Ops /\ Made(fd[u], Path(u)) /\ Sealed(fd[u], Path(u))
      BY <1>8, <2>1, InodesMade DEF BackendsInv, SealedInv
    <3> QED  BY <1>4, <2>1, <3>1
  <2>2. CASE fd'[u] # fd[u]
    <3>1. u = o /\ (Opens(o) \/ Empties(o))
      BY <1>1, <1>3, <2>2 DEF Replies, Puts, Opens, Composes, Empties, Fills, Renames
    <3>2. Opens(o)
      BY <1>8, <3>1 DEF Empties, BackendsInv, CallsOK, Changes
    <3>3. fd'[u] = file[Path(u)] /\ file[Path(u)] # Nothing /\ Path(u) \in Paths \ raced
      BY <1>2, <1>8, <3>1, <3>2 DEF Opens
    <3> QED  BY <1>4, <1>6, <3>3
  <2> QED  BY <2>1, <2>2
<1>9. ASSUME NEW p \in Paths \ raced', file'[p] # Nothing
      PROVE  Sealed(file[p], p)'
  <2>1. file'[p] \in Ops
    BY <1>9, LocalsKept DEF BackendsInv, LocalsOK, Next, Step
  <2> QED  BY <1>3, <1>7, <1>9, <2>1 DEF Sealed
<1>10. ASSUME NEW u \in Ops, fd'[u] # Nothing, call'[u].kind = "read", Path(u)' \notin raced'
       PROVE  Sealed(fd[u], Path(u))'
  <2>1. Path(u) \in Paths
    <3>1. u # o => fd[u] # Nothing
      BY <1>3, <1>10
    <3> QED  BY <1>2, <1>5, <3>1
  <2>2. PICK i \in Ops : fd'[u] = i /\ \A p \in Paths : p = Path(u) => Sealed(i, p)'
    BY <1>3, <1>8, <1>10
  <2> QED  BY <1>3, <2>1, <2>2 DEF Sealed
<1> QED  BY <1>9, <1>10 DEF SealedInv

\* The content of a path that is not raced for stays while the path keeps its
\* inode.
LEMMA ContentKept ==
    ASSUME BackendsInv, NEW o \in Ops, Step(o), NEW p \in Paths \ raced, file'[p] = file[p]
    PROVE  Content(p)' = Content(p)
<1>1. file[p] # Nothing => file[p] \in Ops /\ Made(file[p], p) /\ Sealed(file[p], p)
  BY InodesMade DEF BackendsInv, SealedInv
<1>2. file[p] # Nothing => data'[file[p]] = data[file[p]]
  BY <1>1, Unwritten
<1> QED  BY <1>2 DEF Content

\* The other calls that are about to change a path that is not raced for.
LEMMA OtherDrafts ==
    ASSUME BackendsInv, NEW o \in Ops, Step(o),
           NEW u \in Ops, u # o, Changing(u), backend = "disk"
    PROVE  /\ file'[Path(u)] = file[Path(u)] /\ tmp'[Path(u)] = tmp[Path(u)]
           /\ Goal(u)' = Goal(u)
           /\ pc[u] \in {"opened", "written"} /\ tmp[Path(u)] = fd[u] => data'[fd[u]] = data[fd[u]]
<1>1. \/ Replies(o) \/ Puts(o) \/ Opens(o) \/ Composes(o)
      \/ Empties(o) \/ Fills(o) \/ Renames(o)
  BY StepShape DEF BackendsInv
<1>2. /\ Path(o) \in Paths /\ Busy(o)
      /\ pc[o] \in {"compose", "opened", "written"} => Changes(call[o])
  BY StepPlace, StepGoes DEF BackendsInv, CallsOK
<1>3. /\ UNCHANGED <<backend, call, raced>> /\ Path(u)' = Path(u)
      /\ pc'[u] = pc[u] /\ fd'[u] = fd[u] /\ text'[u] = text[u]
  BY StepFrame DEF BackendsInv
<1>4. Changes(call[o]) => Path(o) # Path(u)
  BY <1>2, OtherChanger
<1>5. Path(u) \in Paths \ raced
  BY CallsAssumption DEF BackendsInv, CallsOK, Changing, Busy, Path
<1>6. file'[Path(u)] = file[Path(u)] /\ tmp'[Path(u)] = tmp[Path(u)]
  BY <1>1, <1>2, <1>4, <1>5 DEF Replies, Puts, Opens, Composes, Empties, Fills, Renames
<1>7. Goal(u)' = Goal(u)
  <2>1. Content(Path(u))' = Content(Path(u))
    <3>1. \A p \in Paths \ raced : file'[p] = file[p] => Content(p)' = Content(p)
      BY ContentKept
    <3>2. \A p \in Paths : p = Path(u) => Content(p)' = Content(Path(u))'
      BY <1>3 DEF Content
    <3> QED  BY <1>5, <1>6, <3>1, <3>2
  <2> QED  BY <1>3, <2>1 DEF Goal
<1>8. ASSUME pc[u] \in {"opened", "written"}, tmp[Path(u)] = fd[u]
      PROVE  data'[fd[u]] = data[fd[u]]
  <2>1. fd[u] \in Ops /\ fd[u] # Nothing /\ Made(fd[u], Path(u))
    BY <1>8, InodesMade DEF BackendsInv, CallsOK
  <2>2. CASE Empties(o)
    <3>1. Path(o) # Path(u) /\ pc[o] = "compose"
      BY <1>2, <1>4, <2>2 DEF Empties
    <3>2. fd[u] # o
      BY <2>1, <3>1 DEF Made
    <3>3. tmp[Path(o)] # fd[u]
      BY <1>2, <2>1, <3>1, InodesMade DEF BackendsInv, Made
    <3> QED  BY <2>1, <2>2, <3>2, <3>3 DEF Empties, Inode
  <2>3. CASE Fills(o)
    <3>1. Path(o) # Path(u) /\ pc[o] = "opened"
      BY <1>2, <1>4, <2>3 DEF Fills
    <3>2. Made(fd[o], Path(o))
      BY <3>1, InodesMade DEF BackendsInv, CallsOK
    <3> QED  BY <2>1, <2>3, <3>1, <3>2 DEF Fills, Made
  <2>4. CASE Puts(o)
    BY <2>4 DEF Puts
  <2>5. CASE Replies(o) \/ Opens(o) \/ Composes(o) \/ Renames(o)
    BY <2>5 DEF Replies, Opens, Composes, Renames
  <2> QED  BY <1>1, <2>2, <2>3, <2>4, <2>5
<1> QED  BY <1>6, <1>7, <1>8

\* A call's own draft: it composes its goal and carries it to the file.
LEMMA OwnDraft ==
    ASSUME BackendsInv, NEW o \in Ops, Step(o), Changing(o), pc'[o] # "done"
    PROVE  /\ Goal(o)' = Goal(o)
           /\ pc'[o] = "reading" => fd'[o] = file'[Path(o)]
           /\ pc'[o] \in {"compose", "opened", "written"} => text'[o] = Goal(o)
           /\ pc'[o] = "opened" => tmp'[Path(o)] = fd'[o] /\ data'[fd'[o]] = <<>>
           /\ pc'[o] = "written" => tmp'[Path(o)] = fd'[o] /\ data'[fd'[o]] = text'[o]
<1>1. Opens(o) \/ Composes(o) \/ Empties(o) \/ Fills(o)
  BY StepShape DEF BackendsInv, Replies, Puts, Renames
<1>2. /\ UNCHANGED <<call, raced>> /\ Path(o)' = Path(o)
      /\ Path(o) \in Paths \ raced
  BY StepFrame, StepPlace DEF BackendsInv, Changing
<1>3. Goal(o)' = Goal(o)
  <2>1. \A p \in Paths \ raced : file'[p] = file[p] => Content(p)' = Content(p)
    BY ContentKept
  <2>2. file' = file
    BY <1>1 DEF Opens, Composes, Empties, Fills
  <2>3. \A p \in Paths : p = Path(o) => Content(p)' = Content(Path(o))'
    BY <1>2 DEF Content
  <2>4. Content(Path(o))' = Content(Path(o))
    BY <1>2, <2>1, <2>2, <2>3
  <2> QED  BY <1>2, <2>4 DEF Goal
<1>4. CASE Opens(o)
  BY <1>3, <1>4 DEF Opens
<1>5. CASE Composes(o)
  <2>1. call[o].kind \in {"write", "edit"}
    BY <1>5 DEF Composes, Changes
  <2>2. CASE call[o].kind = "write"
    BY <1>3, <1>5, <2>2 DEF Composes, Goal
  <2>3. CASE call[o].kind = "edit" /\ pc[o] = "start"
    <3>1. Content(Path(o)) = <<>> /\ Append(<<>>, o) = <<o>>
      BY <1>5, <2>3 DEF Composes, Content
    <3> QED  BY <1>3, <1>5, <2>3, <3>1 DEF Composes, Goal
  <2>4. CASE call[o].kind = "edit" /\ pc[o] = "reading"
    <3>1. fd[o] = file[Path(o)] /\ fd[o] # Nothing
      BY <2>4 DEF BackendsInv, DraftsOK, CallsOK
    <3> QED  BY <1>3, <1>5, <2>4, <3>1 DEF Composes, Goal, Content
  <2> QED  BY <1>5, <2>1, <2>2, <2>3, <2>4 DEF Composes
<1>6. CASE Empties(o)
  <2>1. text[o] = Goal(o) /\ Inode(o) \in Ops
    BY <1>2, <1>6 DEF Empties, BackendsInv, DraftsOK, LocalsOK, Inode
  <2> QED  BY <1>2, <1>3, <1>6, <2>1 DEF Empties
<1>7. CASE Fills(o)
  BY <1>2, <1>3, <1>7 DEF Fills, BackendsInv, DraftsOK
<1> QED  BY <1>1, <1>4, <1>5, <1>6, <1>7

LEMMA DraftsKept ==
    ASSUME BackendsInv, NEW o \in Ops, Step(o)
    PROVE  DraftsOK'
<1>1. /\ UNCHANGED <<backend, call, raced>>
      /\ \A u \in Ops : Path(u)' = Path(u)
      /\ \A u \in Ops : u # o => pc'[u] = pc[u] /\ fd'[u] = fd[u] /\ text'[u] = text[u]
  BY StepFrame DEF BackendsInv
<1>2. \A u \in Ops : Changing(u)' => Changing(u)
  BY <1>1, StepGoes DEF Changing, Busy
<1>3. ASSUME NEW u \in Ops, u # o, Changing(u)'
      PROVE  /\ pc'[u] = "reading" => fd'[u] = file'[Path(u)]
             /\ pc'[u] \in {"compose", "opened", "written"} => text'[u] = Goal(u)'
             /\ pc'[u] = "opened" => tmp'[Path(u)] = fd'[u] /\ data'[fd'[u]] = <<>>
             /\ pc'[u] = "written" => tmp'[Path(u)] = fd'[u] /\ data'[fd'[u]] = text'[u]
  <2>1. Changing(u)
    BY <1>2, <1>3
  <2>2. CASE backend = "disk"
    BY <1>1, <1>3, <2>1, <2>2, OtherDrafts DEF BackendsInv, DraftsOK
  <2>3. CASE backend # "disk"
    BY <1>1, <1>3, <2>3 DEF BackendsInv, LocalsOK, MemoryOK
  <2> QED  BY <2>2, <2>3
<1>4. ASSUME Changing(o)'
      PROVE  /\ pc'[o] = "reading" => fd'[o] = file'[Path(o)]
             /\ pc'[o] \in {"compose", "opened", "written"} => text'[o] = Goal(o)'
             /\ pc'[o] = "opened" => tmp'[Path(o)] = fd'[o] /\ data'[fd'[o]] = <<>>
             /\ pc'[o] = "written" => tmp'[Path(o)] = fd'[o] /\ data'[fd'[o]] = text'[o]
  <2>1. Changing(o) /\ pc'[o] # "done"
    BY <1>2, <1>4 DEF Changing, Busy
  <2> QED  BY <2>1, OwnDraft
<1> QED  BY <1>1, <1>3, <1>4 DEF DraftsOK

LEMMA InvKept ==
    ASSUME BackendsInv, [Next]_vars
    PROVE  BackendsInv'
<1>1. LocalsOK'
  BY LocalsKept DEF BackendsInv
<1>2. ASSUME NEW o \in Ops, Begin(o)
      PROVE  BackendsInv'
  BY <1>1, <1>2, BeginKeeps DEF BackendsInv
<1>3. ASSUME NEW o \in Ops, Step(o)
      PROVE  BackendsInv'
  BY <1>1, <1>3, CallsKept, InodesKept, SealedKept, DraftsKept DEF BackendsInv
<1>4. CASE Crash
  BY <1>1, <1>4, CrashKeeps DEF BackendsInv
<1>5. CASE UNCHANGED vars
  BY <1>5 DEF vars, BackendsInv, LocalsOK, CallsOK, MemoryOK, InodesOK, Made, Path, OneChanger,
              Changing, Busy, SealedInv, Sealed, DraftsOK, Goal, Content
<1> QED  BY <1>2, <1>3, <1>4, <1>5 DEF Next, Step, Finished

LEMMA InvHolds == Spec => []BackendsInv
<1>1. Init => BackendsInv
  BY LocalsInit
<1>2. BackendsInv /\ [Next]_vars => BackendsInv'
  BY InvKept
<1> QED  BY <1>1, <1>2, PTL DEF Spec

-----------------------------------------------------------------------------
\* The call that left a temporary file behind, or is about to rename it.
LeftBy(o, p) ==
    /\ pc[o] \in {"opened", "written", "lost", "done"} /\ Path(o) = p
    /\ pc[o] = "done" => result[o] = Error

LEMMA StraysKept ==
    ASSUME BackendsInv, StraysExplained, [Next]_vars
    PROVE  StraysExplained'
<1>1. ASSUME NEW p \in Paths, NEW w \in Ops, LeftBy(w, p), tmp'[p] # Nothing
      PROVE  LeftBy(w, p)' \/ \E o \in Ops : LeftBy(o, p)'
  <2>1. ASSUME NEW o \in Ops, Begin(o)
        PROVE  LeftBy(w, p)'
    BY <1>1, <2>1, BeginShape DEF LeftBy, BackendsInv
  <2>2. ASSUME NEW o \in Ops, Step(o)
        PROVE  LeftBy(w, p)'
    <3>1. CASE w # o
      <4>1. pc'[w] = pc[w] /\ Path(w)' = Path(w) /\ result'[w] = result[w]
        BY <2>2, <3>1, StepFrame DEF BackendsInv
      <4> QED  BY <1>1, <4>1 DEF LeftBy
    <3>2. CASE w = o
      <4>1. pc[o] \in {"opened", "written"} /\ Path(o) = p /\ Path(o)' = p
        BY <1>1, <2>2, <3>2, StepPlace, StepFrame DEF LeftBy, BackendsInv
      <4>2. Replies(o) \/ Fills(o) \/ Renames(o)
        BY <2>2, <4>1, StepShape DEF BackendsInv, Puts, Opens, Composes, Empties
      <4> QED  BY <1>1, <3>2, <4>1, <4>2 DEF LeftBy, Replies, Fills, Renames
    <3> QED  BY <3>1, <3>2
  <2>3. CASE Crash
    BY <1>1, <2>3 DEF Crash, LeftBy, Busy, Path
  <2>4. CASE UNCHANGED vars
    BY <1>1, <2>4 DEF vars, LeftBy, Path
  <2> QED  BY <2>1, <2>2, <2>3, <2>4 DEF Next, Step, Finished
<1>2. ASSUME NEW p \in Paths, tmp[p] = Nothing, tmp'[p] # Nothing
      PROVE  \E o \in Ops : LeftBy(o, p)'
  <2>1. ASSUME NEW o \in Ops, Begin(o)
        PROVE  FALSE
    BY <1>2, <2>1, BeginShape DEF BackendsInv
  <2>2. ASSUME NEW o \in Ops, Step(o)
        PROVE  LeftBy(o, p)'
    <3>1. Empties(o) /\ p = Path(o)
      BY <1>2, <2>2, StepShape DEF BackendsInv, Replies, Puts, Opens, Composes, Empties, Fills, Renames
    <3>2. Path(o)' = Path(o)
      BY <2>2, StepFrame DEF BackendsInv
    <3> QED  BY <3>1, <3>2 DEF Empties, LeftBy
  <2>3. CASE Crash
    BY <1>2, <2>3 DEF Crash
  <2>4. CASE UNCHANGED vars
    BY <1>2, <2>4 DEF vars
  <2> QED  BY <2>1, <2>2, <2>3, <2>4 DEF Next, Step, Finished
<1>3. \A p \in Paths : tmp[p] # Nothing => \E w \in Ops : LeftBy(w, p)
  BY DEF StraysExplained, LeftBy
<1>4. \A p \in Paths : tmp'[p] # Nothing => \E w \in Ops : LeftBy(w, p)'
  BY <1>1, <1>2, <1>3
<1> QED  BY <1>4 DEF StraysExplained, LeftBy

\* A temporary file stays behind only where a call of its path failed, was cut
\* short by a crash, or is still at work (DiskBackend.Write, disk.go:67-78): a
\* path all of whose calls were answered without an error has none.
THEOREM StraysAccounted == Spec => []StraysExplained
<1>1. Init => StraysExplained
  BY DEF Init, StraysExplained
<1>2. BackendsInv /\ StraysExplained /\ [Next]_vars => StraysExplained'
  BY StraysKept
<1> QED  BY <1>1, <1>2, InvHolds, PTL DEF Spec

-----------------------------------------------------------------------------
(* The backends implement FileMap.                                         *)

LEMMA MapStarts ==
    ASSUME Init
    PROVE  Map!Init
<1>1. \A u \in Ops : Answered(u) = Nothing
  BY DEF Init, Answered
<1>2. \A p \in Paths : file[p] = Nothing
  BY DEF Init
<1> QED  BY <1>1, <1>2 DEF Init, Map!Init, Answers, Files

\* FileMap's content of a path that is not raced for is that of its inode.
LEMMA MapText ==
    ASSUME BackendsInv, NEW p \in Paths \ raced
    PROVE  Map!Text(p) = Content(p) /\ (Files[p] = Nothing <=> file[p] = Nothing)
<1>1. file[p] # Nothing => data[file[p]] \in Contents /\ data[file[p]] # Nothing
  BY NothingAssumption DEF BackendsInv, LocalsOK
<1> QED  BY <1>1 DEF Map!Text, Files, Content

\* A step answers its own call only.
LEMMA OtherAnswers ==
    ASSUME BackendsInv, NEW o \in Ops, Step(o), NEW u \in Ops, u # o
    PROVE  Answered(u)' = Answered(u)
<1>1. /\ UNCHANGED <<call, raced>> /\ Path(u)' = Path(u)
      /\ fd'[u] = fd[u] /\ result'[u] = result[u]
  BY StepFrame DEF BackendsInv
<1>2. ASSUME fd[u] # Nothing, call[u].kind = "read", Path(u) \notin raced
      PROVE  data'[fd[u]] = data[fd[u]]
  <2>1. fd[u] \in Ops /\ Made(fd[u], Path(u)) /\ Sealed(fd[u], Path(u))
    BY <1>2, InodesMade DEF BackendsInv, SealedInv
  <2>2. Path(u) \in Paths
    BY <1>2, CallsAssumption DEF BackendsInv, CallsOK, Path
  <2> QED  BY <2>1, <2>2, Unwritten
<1>3. CASE call[u] = Nothing
  <2>1. fd[u] = Nothing
    BY <1>3, NothingAssumption DEF BackendsInv, CallsOK
  <2> QED  BY <1>1, <1>3, <2>1 DEF Answered
<1>4. CASE call[u] # Nothing /\ call[u].kind # "list" /\ Path(u) \in raced
  BY <1>1, <1>4 DEF Answered
<1>5. CASE call[u] # Nothing /\ Path(u) \notin raced
  BY <1>1, <1>2, <1>5 DEF Answered
<1>6. CASE call[u] # Nothing /\ call[u].kind = "list"
  BY <1>1, <1>6 DEF Answered
<1> QED  BY <1>1, <1>3, <1>4, <1>5, <1>6

LEMMA MapAnswers ==
    ASSUME BackendsInv, NEW o \in Ops, Step(o)
    PROVE  /\ \A r : Answered(o)' = r => Answers' = [Answers EXCEPT ![o] = r]
           /\ Answered(o)' = Answered(o) => Answers' = Answers
<1>1. \A u \in Ops : u # o => Answered(u)' = Answered(u)
  BY OtherAnswers
<1> QED  BY <1>1 DEF Answers

\* A step changes the content of its own path only, by giving it an inode.
LEMMA MapFiles ==
    ASSUME BackendsInv, NEW o \in Ops, Step(o)
    PROVE  /\ file' = file \/ Path(o) \in raced => Files' = Files
           /\ \A c : c # Nothing /\ Path(o) \notin raced /\ file'[Path(o)] # Nothing
                         /\ data'[file'[Path(o)]] = c
                  => Files' = [Files EXCEPT ![Path(o)] = c]
<1>1. Path(o) \in Paths /\ raced' = raced
  BY StepPlace, StepFrame DEF BackendsInv
<1>2. ASSUME NEW p \in Paths, file'[p] = file[p]
      PROVE  Files'[p] = Files[p]
  <2>1. file[p] # Nothing /\ p \notin raced => data'[file[p]] = data[file[p]]
    BY InodesMade, Unwritten DEF BackendsInv, SealedInv
  <2> QED  BY <1>1, <1>2, <2>1 DEF Files
<1>3. \A p \in Paths : p # Path(o) => file'[p] = file[p]
  BY StepShape DEF BackendsInv, Replies, Puts, Opens, Composes, Empties, Fills, Renames
<1>4. \A p \in Paths : p \in raced => Files'[p] = Files[p]
  BY <1>1 DEF Files
<1>5. \A p \in Paths : p # Path(o) => Files'[p] = Files[p]
  BY <1>2, <1>3
<1>6. file' = file \/ Path(o) \in raced => Files' = Files
  <2>1. file' = file \/ Path(o) \in raced => \A p \in Paths : Files'[p] = Files[p]
    BY <1>1, <1>2, <1>4, <1>5
  <2> QED  BY <2>1 DEF Files
<1>7. ASSUME NEW c, c # Nothing, Path(o) \notin raced, file'[Path(o)] # Nothing,
             data'[file'[Path(o)]] = c
      PROVE  Files' = [Files EXCEPT ![Path(o)] = c]
  <2>1. Files'[Path(o)] = c
    BY <1>1, <1>7 DEF Files
  <2> QED  BY <1>1, <1>5, <2>1 DEF Files
<1> QED  BY <1>6, <1>7

\* A call of a path that is raced for has no answer in FileMap.
LEMMA RacedStutters ==
    ASSUME BackendsInv, NEW o \in Ops, Step(o), Path(o) \in raced, call[o].kind # "list"
    PROVE  UNCHANGED Map!vars
<1>1. UNCHANGED <<call, raced>> /\ Path(o)' = Path(o) /\ call[o] # Nothing
  BY StepFrame, StepPlace DEF BackendsInv
<1>2. Answered(o)' = Answered(o)
  BY <1>1 DEF Answered
<1> QED  BY <1>1, <1>2, MapAnswers, MapFiles DEF Map!vars

\* Any other call that is not answered by a step, and leaves the files where
\* they are, is still pending.
LEMMA QuietStutters ==
    ASSUME BackendsInv, NEW o \in Ops, Step(o), file' = file, Answered(o)' = Answered(o)
    PROVE  UNCHANGED Map!vars
BY StepFrame, MapAnswers, MapFiles DEF BackendsInv, Map!vars

\* A call is pending for FileMap until it returns or, if it reads the disk,
\* opens its file.
LEMMA StillPending ==
    ASSUME BackendsInv, NEW o \in Ops, Step(o), call[o].kind = "read" => fd[o] = Nothing
    PROVE  /\ call[o] # Nothing /\ Answers[o] = Nothing
           /\ call[o].kind \in {"write", "edit", "read", "list"}
           /\ \A kind : call[o].kind = kind => Map!Pending(o, kind)
<1>1. call[o] \in Calls /\ call[o] # Nothing /\ result[o] = Nothing
  BY StepPlace DEF BackendsInv
<1>2. Answered(o) = Nothing
  BY <1>1 DEF Answered
<1> QED  BY <1>1, <1>2, CallsAssumption DEF Kinds, Answers, Map!Pending

\* The answer a call returns is FileMap's, if its path is not raced for.
LEMMA ReturnAnswers ==
    ASSUME BackendsInv, NEW o \in Ops, Step(o), Path(o) \notin raced \/ call[o].kind = "list",
           call[o].kind = "read" => fd'[o] = Nothing
    PROVE  Answered(o)' = result'[o]
<1>1. UNCHANGED <<call, raced>> /\ Path(o)' = Path(o)
  BY StepFrame DEF BackendsInv
<1> QED  BY <1>1 DEF Answered

\* A call that fails.
LEMMA FailMaps ==
    ASSUME BackendsInv, NEW o \in Ops, Step(o), Path(o) \notin raced \/ call[o].kind = "list",
           call[o].kind = "read" => fd[o] = Nothing,
           file' = file, fd' = fd, result'[o] = Error
    PROVE  Map!Fail(o)
<1>1. Answered(o)' = Error
  BY ReturnAnswers
<1>2. Map!Error = Error
  BY DEF Map!Error, Error
<1>3. /\ Answers' = [Answers EXCEPT ![o] = Error] /\ Files' = Files
      /\ UNCHANGED <<call, raced>>
  BY <1>1, MapAnswers, MapFiles, StepFrame DEF BackendsInv
<1>4. \E kind \in Map!Kinds : Map!Pending(o, kind)
  BY StillPending DEF Map!Kinds
<1> QED  BY <1>2, <1>3, <1>4 DEF Map!Fail, Map!Answer

\* A call that reads.
LEMMA ReadMaps ==
    ASSUME BackendsInv, NEW o \in Ops, Step(o), Path(o) \notin raced,
           call[o].kind = "read", fd[o] = Nothing, file' = file, file[Path(o)] # Nothing,
           Answered(o)' = Ok(data[file[Path(o)]])
    PROVE  Map!Read(o)
<1>1. Path(o) \in Paths
  BY StepPlace DEF BackendsInv
<1>2. Files[Path(o)] = data[file[Path(o)]] /\ Files[Path(o)] # Nothing
  BY <1>1, MapText DEF Files
<1>3. Map!Ok(Files[Path(o)]) = Ok(data[file[Path(o)]])
  BY <1>2 DEF Map!Ok, Ok
<1>4. /\ Answers' = [Answers EXCEPT ![o] = Ok(data[file[Path(o)]])] /\ Files' = Files
      /\ UNCHANGED <<call, raced>>
  BY MapAnswers, MapFiles, StepFrame DEF BackendsInv
<1>5. Map!Pending(o, "read")
  BY StillPending
<1> QED  BY <1>2, <1>3, <1>4, <1>5 DEF Map!Read, Map!Answer, Path

\* A call that lists: what FileMap has forgotten may or may not be there.
LEMMA ListMaps ==
    ASSUME BackendsInv, NEW o \in Ops, Step(o), call[o].kind = "list",
           file' = file, result'[o] = Ok(Listing)
    PROVE  Map!List(o)
<1> DEFINE forgotten == Listing \cap raced
<1>1. {p \in Paths : Files[p] # Nothing} \cup forgotten = Listing
  <2>1. \A p \in Paths : p \notin raced => (Files[p] = Nothing <=> file[p] = Nothing)
    BY MapText
  <2>2. \A p \in Paths : p \in raced => Files[p] = Nothing
    BY DEF Files
  <2>3. \A p \in Paths : p \in Listing <=> file[p] # Nothing
    BY DEF Listing
  <2>4. Listing \subseteq Paths
    BY DEF Listing
  <2> QED  BY <2>1, <2>2, <2>3, <2>4
<1>2. Answered(o)' = Ok(Listing)
  BY ReturnAnswers
<1>3. /\ Answers' = [Answers EXCEPT ![o] = Ok(Listing)] /\ Files' = Files
      /\ UNCHANGED <<call, raced>>
  BY <1>2, MapAnswers, MapFiles, StepFrame DEF BackendsInv
<1>4. Map!Pending(o, "list")
  BY StillPending
<1>5. Map!Answer(o, Map!Ok({p \in Paths : Files[p] # Nothing} \cup forgotten))
  BY <1>1, <1>3 DEF Map!Answer, Map!Ok, Ok
<1> QED  BY <1>3, <1>4, <1>5 DEF Map!List

\* A call that changes its path: what it leaves there is its goal.
LEMMA ChangeMaps ==
    ASSUME BackendsInv, NEW o \in Ops, Step(o), Path(o) \notin raced, Changes(call[o]),
           file'[Path(o)] # Nothing, data'[file'[Path(o)]] = Goal(o), result'[o] = Ok(<<>>)
    PROVE  Map!Write(o) \/ Map!Edit(o)
<1>1. Path(o) \in Paths /\ UNCHANGED <<call, raced>>
  BY StepPlace, StepFrame DEF BackendsInv
<1>2. Content(Path(o)) \in Contents
  BY <1>1, ContentTyped DEF BackendsInv
<1>3. Goal(o) \in Contents /\ Goal(o) # Nothing
  <2> DEFINE c == Content(Path(o))
  <2>1. c \in Contents
    BY <1>2
  <2>2. Goal(o) \in {<<o>>, Append(c, o)}
    BY DEF Goal
  <2> HIDE DEF c
  <2>3. Append(c, o) \in Contents /\ <<o>> \in Contents
    BY <2>1, ContentsClosed
  <2> QED  BY <2>2, <2>3, NothingAssumption
<1>4. Files' = [Files EXCEPT ![Path(o)] = Goal(o)]
  BY <1>3, MapFiles
<1>5. Answers' = [Answers EXCEPT ![o] = Ok(<<>>)]
  <2>1. Answered(o)' = Ok(<<>>)
    BY ReturnAnswers DEF Changes
  <2> QED  BY <2>1, MapAnswers
<1>6. Map!Answer(o, Map!Ok(<<>>))
  BY <1>1, <1>5 DEF Map!Answer, Map!Ok, Ok
<1>7. CASE call[o].kind = "write"
  <2>1. Goal(o) = <<o>> /\ Map!Pending(o, "write")
    BY <1>7, StillPending DEF Goal
  <2> QED  BY <1>4, <1>6, <2>1 DEF Map!Write, Path
<1>8. CASE call[o].kind = "edit"
  <2>1. Map!Pending(o, "edit")
    BY <1>8, StillPending
  <2>2. Goal(o) = Append(Map!Text(Path(o)), o)
    BY <1>1, <1>8, MapText DEF Goal
  <2> QED  BY <1>4, <1>6, <2>1, <2>2 DEF Map!Edit, Path
<1> QED  BY <1>7, <1>8 DEF Changes

\* Every step of a call is a step of FileMap or none.
LEMMA StepMaps ==
    ASSUME BackendsInv, NEW o \in Ops, Step(o)
    PROVE  [Map!Next]_(Map!vars)
<1> USE DEF BackendsInv
<1>0. SUFFICES ASSUME Path(o) \notin raced \/ call[o].kind = "list"
               PROVE  \/ UNCHANGED Map!vars
                      \/ Map!Write(o) \/ Map!Edit(o) \/ Map!Read(o) \/ Map!List(o) \/ Map!Fail(o)
  BY RacedStutters DEF Map!Next
<1>1. /\ Path(o) \in Paths /\ UNCHANGED <<call, raced, backend>> /\ Path(o)' = Path(o)
      /\ pc[o] = "start" => fd[o] = Nothing
      /\ pc[o] \in {"compose", "opened", "written"} => Changes(call[o]) /\ backend = "disk"
  BY StepPlace, StepFrame DEF CallsOK, MemoryOK, LocalsOK
<1>2. CASE MemoryWrite(o) \/ MemoryEdit(o)
  <2>1. Changes(call[o]) /\ Put(o, Goal(o)) /\ Path(o) \notin raced
    BY <1>0, <1>2 DEF MemoryWrite, MemoryEdit, Goal, Changes
  <2>2. file'[Path(o)] = o /\ data'[o] = Goal(o) /\ result'[o] = Ok(<<>>) /\ o # Nothing
    BY <1>1, <2>1, NothingAssumption DEF Put, Return, LocalsOK
  <2> QED  BY <2>1, <2>2, ChangeMaps
<1>3. CASE MemoryRead(o)
  <2>1. /\ call[o].kind = "read" /\ pc[o] = "start" /\ UNCHANGED <<fd, data, file>>
        /\ Path(o) \notin raced
        /\ result'[o] = IF file[Path(o)] = Nothing THEN Error ELSE Ok(Content(Path(o)))
    BY <1>0, <1>3 DEF MemoryRead, InMemory, Return, LocalsOK
  <2>2. Answered(o)' = result'[o]
    BY <1>1, <2>1, ReturnAnswers
  <2>3. CASE file[Path(o)] = Nothing
    BY <1>1, <2>1, <2>3, FailMaps
  <2>4. CASE file[Path(o)] # Nothing
    <3>1. Answered(o)' = Ok(data[file[Path(o)]])
      BY <2>1, <2>2, <2>4 DEF Content
    <3> QED  BY <1>1, <2>1, <2>4, <3>1, ReadMaps
  <2> QED  BY <2>3, <2>4
<1>4. CASE MemoryList(o) \/ DiskList(o)
  <2>1. call[o].kind = "list" /\ file' = file /\ Return(o, Ok(Listing))
    BY <1>4 DEF MemoryList, DiskList
  <2>2. result'[o] = Ok(Listing)
    BY <2>1 DEF Return, LocalsOK
  <2> QED  BY <2>1, <2>2, ListMaps
<1>5. CASE RefusePath(o) \/ (NoSuchFile(o) /\ call[o].kind = "read") \/ WriteFails(o)
  <2>1. UNCHANGED <<file, fd>> /\ Return(o, Error)
    BY <1>5 DEF RefusePath, NoSuchFile, WriteFails
  <2>2. call[o].kind = "read" => pc[o] = "start"
    BY <1>1, <1>5 DEF RefusePath, NoSuchFile, WriteFails, OnDisk, Changes
  <2>3. result'[o] = Error
    BY <2>1 DEF Return, LocalsOK
  <2> QED  BY <1>1, <1>0, <2>1, <2>2, <2>3, FailMaps
<1>6. CASE OpenFile(o)
  <2>1. /\ pc[o] = "start" /\ fd'[o] = file[Path(o)] /\ file[Path(o)] # Nothing
        /\ UNCHANGED <<result, data, file>> /\ call[o].kind \in {"read", "edit"}
        /\ Path(o) \notin raced
    BY <1>0, <1>6 DEF OpenFile, OnDisk, LocalsOK
  <2>2. CASE call[o].kind = "read"
    <3>1. Answered(o)' = Ok(data[file[Path(o)]])
      <4>1. call[o] # Nothing
        BY StepPlace
      <4> QED  BY <1>1, <2>1, <2>2, <4>1 DEF Answered
    <3> QED  BY <1>1, <2>1, <2>2, <3>1, ReadMaps
  <2>3. CASE call[o].kind = "edit"
    BY <1>1, <2>1, <2>3, QuietStutters DEF Answered
  <2> QED  BY <2>1, <2>2, <2>3
<1>7. CASE ReadFile(o)
  <2>1. /\ call[o].kind = "read" /\ pc[o] = "reading" /\ UNCHANGED <<fd, data, file>>
        /\ fd[o] # Nothing
    BY <1>7 DEF ReadFile, At, CallsOK
  <2>2. Answered(o)' = Answered(o)
    BY <1>1, <2>1 DEF Answered
  <2> QED  BY <2>1, <2>2, QuietStutters
<1>8. CASE (NoSuchFile(o) /\ call[o].kind = "edit") \/ ReadForEdit(o) \/ ComposeWrite(o)
            \/ OpenTmp(o) \/ WriteTmp(o)
  <2>1. UNCHANGED <<result, file>> /\ call[o].kind # "read"
    BY <1>1, <1>8 DEF NoSuchFile, ReadForEdit, ComposeWrite, OpenTmp, WriteTmp, At, Changes
  <2>2. Answered(o)' = Answered(o)
    BY <1>1, <2>1 DEF Answered
  <2> QED  BY <2>1, <2>2, QuietStutters
<1>9. CASE Rename(o)
  <2>1. Path(o) \notin raced /\ Changing(o) /\ pc[o] = "written"
    BY <1>0, <1>1, <1>9 DEF Rename, Changing, Busy, Changes
  <2>2. text[o] = Goal(o) /\ tmp[Path(o)] = fd[o] /\ data[fd[o]] = text[o] /\ fd[o] # Nothing
    BY <2>1 DEF DraftsOK, CallsOK
  <2>3. Return(o, Ok(<<>>)) /\ data' = data /\ file' = [file EXCEPT ![Path(o)] = tmp[Path(o)]]
    BY <1>9, <2>2 DEF Rename
  <2>4. file'[Path(o)] = fd[o] /\ result'[o] = Ok(<<>>)
    BY <1>1, <2>2, <2>3 DEF Return, LocalsOK
  <2> QED  BY <2>1, <2>2, <2>3, <2>4, ChangeMaps DEF Changing
<1> QED
  BY <1>2, <1>3, <1>4, <1>5, <1>6, <1>7, <1>8, <1>9 DEF Step, Memory, Disk, NoSuchFile

\* A call that begins is pending.  If it gives its path up, FileMap forgets the
\* path and the answers about it.
LEMMA BeginMaps ==
    ASSUME BackendsInv, NEW o \in Ops, Begin(o)
    PROVE  Map!Begin(o) \/ Map!Race(o)
<1> USE DEF BackendsInv
<1>1. PICK c \in Calls :
         /\ call' = [call EXCEPT ![o] = c]
         /\ raced' = raced \cup
                (IF backend = "disk" /\ Changes(c) /\ BeingChanged(c.path) THEN {c.path} ELSE {})
         /\ pc[o] = "idle" /\ UNCHANGED <<backend, text, fd, result, data, file, tmp>>
  BY DEF Begin
<1>2. /\ call[o] = Nothing /\ c # Nothing /\ c.path \in Paths /\ c.kind \in Kinds
      /\ fd[o] = Nothing /\ result[o] = Nothing
  BY <1>1, CallsAssumption, NothingAssumption DEF CallsOK
<1>3. /\ call'[o] = c /\ Path(o)' = c.path
      /\ \A u \in Ops : u # o => call'[u] = call[u] /\ Path(u)' = Path(u)
  BY <1>1 DEF LocalsOK, Path
<1>4. Answered(o) = Nothing /\ Answered(o)' = Nothing
  BY <1>1, <1>2, <1>3 DEF Answered
<1>5. CASE raced' = raced
  <2>1. \A u \in Ops : u # o => Answered(u)' = Answered(u)
    BY <1>1, <1>3, <1>5 DEF Answered
  <2>2. Answers' = Answers
    BY <1>4, <2>1 DEF Answers
  <2>3. Files' = Files
    BY <1>1, <1>5 DEF Files
  <2> QED  BY <1>1, <1>2, <1>5, <2>2, <2>3 DEF Map!Begin
<1>6. CASE raced' # raced
  <2>1. Changes(c) /\ BeingChanged(c.path) /\ raced' = raced \cup {c.path} /\ c.path \notin raced
    BY <1>1, <1>6
  <2>2. PICK u \in Ops : Busy(u) /\ Changes(call[u]) /\ Path(u) = c.path
    BY <2>1 DEF BeingChanged
  <2>3. call[u] # Nothing /\ result[u] = Nothing /\ call[u].kind \in {"write", "edit"}
    BY <2>2, NothingAssumption DEF Busy, CallsOK, Changes
  <2>4. Map!Changes(c) /\ Map!Changes(call[u]) /\ Map!Of(call[u], c.path) /\ Answers[u] = Nothing
    BY <1>2, <2>1, <2>2, <2>3 DEF Map!Changes, Map!Of, Changes, Path, Answers, Answered
  <2>5. Files' = [Files EXCEPT ![c.path] = Nothing]
    BY <1>1, <1>2, <2>1 DEF Files
  <2>6. \A v \in Ops : Answered(v)' = IF Map!Of(call[v], c.path) THEN Nothing ELSE Answered(v)
    <3>1. ASSUME NEW v \in Ops, v # o
          PROVE  Answered(v)' = IF Map!Of(call[v], c.path) THEN Nothing ELSE Answered(v)
      <4>1. Path(v)' = Path(v) /\ call'[v] = call[v] /\ result'[v] = result[v] /\ fd' = fd /\ data' = data
        BY <1>1, <1>3, <3>1
      <4>2. CASE Map!Of(call[v], c.path)
        BY <2>1, <4>1, <4>2 DEF Map!Of, Answered, Path
      <4>3. CASE ~Map!Of(call[v], c.path)
        BY <2>1, <4>1, <4>3 DEF Map!Of, Answered, Path
      <4> QED  BY <4>2, <4>3
    <3> QED  BY <1>2, <1>4, <3>1 DEF Map!Of
  <2>7. Answers' = [v \in Ops |-> IF Map!Of(call[v], c.path) THEN Nothing ELSE Answers[v]]
    BY <2>6 DEF Answers
  <2> QED  BY <1>1, <1>2, <2>1, <2>4, <2>5, <2>7 DEF Map!Race
<1> QED  BY <1>5, <1>6

\* Both backends implement FileMap (the Backend interface of tools/builtin/fs):
\* every call takes effect at one instant or fails and changes nothing, also
\* when calls of other paths, crashes and failed writes come between its system
\* calls (disk.go:55-100, inmemory.go); a path that two calls change at once is
\* given up from then on.
THEOREM BackendsImplementMap == Spec => ActsAsFileMap
<1>1. Init => Map!Init
  BY MapStarts
<1>2. BackendsInv /\ [Next]_vars => [Map!Next]_(Map!vars)
  <2> SUFFICES ASSUME BackendsInv, [Next]_vars
               PROVE  [Map!Next]_(Map!vars)
    OBVIOUS
  <2>1. ASSUME NEW o \in Ops, Begin(o)
        PROVE  Map!Next
    BY <2>1, BeginMaps DEF Map!Next
  <2>2. CASE Crash
    <3>1. UNCHANGED <<call, fd, result, data, file, raced>>
      BY <2>2 DEF Crash
    <3> QED  BY <3>1 DEF Map!vars, Answers, Answered, Files, Path
  <2>3. CASE UNCHANGED vars
    BY <2>3 DEF vars, Map!vars, Answers, Answered, Files, Path
  <2> QED  BY <2>1, <2>2, <2>3, StepMaps DEF Next, Step, Finished
<1> QED  BY <1>1, <1>2, InvHolds, PTL DEF Spec, ActsAsFileMap, Map!Spec

=============================================================================
