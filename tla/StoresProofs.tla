---------------------------- MODULE StoresProofs ----------------------------
(***************************************************************************)
(* Theorems about the memory stores and the checkpointer, for every value  *)
(* of the constants of Stores: any number of calls and of entries.         *)
(***************************************************************************)
EXTENDS Stores, TLAPS

Holding(o) == pc[o] \in {"writing", "opened"}

LocalsOK ==
    /\ store \in StoreKinds
    /\ pc \in [Ops -> {"idle", "called", "writing", "opened", "scanning", "done", "lost"}]
    /\ DOMAIN call = Ops /\ DOMAIN result = Ops /\ DOMAIN seen = Ops /\ DOMAIN batch = Ops
    /\ disk \in [Slots -> Ops \cup {Nothing, Broken}]
    /\ \A o \in Ops :
         /\ pc[o] # "idle" => call[o] \in Requests /\ InUse(Entry(o))
         /\ Holding(o) => call[o].kind = "put" /\ store \in InFiles
         /\ pc[o] = "scanning" => call[o].kind = "list" /\ store = "redis"

\* The lock: one Put at a time is under way.
OneWriter == \A o, u \in Ops : Holding(o) /\ Holding(u) => o = u

\* A text that cannot be read is being written, or what a failed Put left.
BrokenExplained ==
    /\ \A o \in Ops : pc[o] = "opened" => Value(Entry(o)) = Broken
    /\ store \in InFiles =>
         \A e \in Entries : InUse(e) /\ Value(e) = Broken => Writer(e) # {} \/ Spoilt(e)

\* What was there when a call was made is still there, and a SCAN has found it.
SeenKept ==
    \A o \in Ops :
        /\ pc[o] # "idle" => seen[o] \subseteq Present
        /\ pc[o] = "scanning" =>
             Here(o, seen[o]) \subseteq batch[o] /\ batch[o] \subseteq Here(o, Present)

\* Where no file is truncated every entry can be read.
OthersReadable ==
    store \notin InFiles => \A e \in Entries : InUse(e) => Value(e) # Broken

StoresInv == LocalsOK /\ OneWriter /\ BrokenExplained /\ SeenKept /\ OthersReadable

-----------------------------------------------------------------------------
\* Two namespaces without a colon and the same Redis key are the same.
LEMMA JoinInjective ==
    ASSUME NEW S, NEW a \in Seq(S), NEW b \in Seq(S), NEW c \in Seq(S), NEW d \in Seq(S),
           Colon \in S, ~Contains(a, Colon), ~Contains(c, Colon),
           a \o <<Colon>> \o b = c \o <<Colon>> \o d
    PROVE  a = c /\ b = d
<1>1. <<Colon>> \in Seq(S)
  OBVIOUS
<1> DEFINE left == a \o <<Colon>> \o b
           right == c \o <<Colon>> \o d
<1>2. /\ Len(left) = Len(a) + 1 + Len(b) /\ left[Len(a) + 1] = Colon
      /\ \A i \in 1..Len(a) : left[i] = a[i]
      /\ \A i \in 1..Len(b) : left[Len(a) + 1 + i] = b[i]
  BY <1>1
<1>3. /\ Len(right) = Len(c) + 1 + Len(d) /\ right[Len(c) + 1] = Colon
      /\ \A i \in 1..Len(c) : right[i] = c[i]
      /\ \A i \in 1..Len(d) : right[Len(c) + 1 + i] = d[i]
  BY <1>1
<1>4. left = right
  OBVIOUS
<1> HIDE DEF left, right
<1>5. Len(a) \in Nat /\ Len(b) \in Nat /\ Len(c) \in Nat /\ Len(d) \in Nat
  OBVIOUS
<1>6. ~(Len(a) < Len(c))
  <2> SUFFICES ASSUME Len(a) < Len(c) PROVE FALSE
    OBVIOUS
  <2>1. Len(a) + 1 \in 1..Len(c)
    BY <1>5
  <2>2. c[Len(a) + 1] = Colon
    BY <1>2, <1>3, <1>4, <2>1
  <2> QED  BY <2>1, <2>2 DEF Contains
<1>7. ~(Len(c) < Len(a))
  <2> SUFFICES ASSUME Len(c) < Len(a) PROVE FALSE
    OBVIOUS
  <2>1. Len(c) + 1 \in 1..Len(a)
    BY <1>5
  <2>2. a[Len(c) + 1] = Colon
    BY <1>2, <1>3, <1>4, <2>1
  <2> QED  BY <2>1, <2>2 DEF Contains
<1>8. Len(a) = Len(c) /\ Len(b) = Len(d)
  BY <1>2, <1>3, <1>4, <1>5, <1>6, <1>7
<1>9. \A i \in 1..Len(a) : a[i] = c[i]
  BY <1>2, <1>3, <1>4, <1>8
<1>10. \A i \in 1..Len(b) : b[i] = d[i]
  BY <1>2, <1>3, <1>4, <1>8
<1>11. a = c
  BY <1>8, <1>9
<1>12. b = d
  BY <1>8, <1>10
<1> QED  BY <1>11, <1>12

\* Entries in use do not share a place.
LEMMA SlotsApart ==
    ASSUME NEW e \in Entries, NEW f \in Entries, InUse(e), InUse(f), Slot(e) = Slot(f)
    PROVE  e = f
<1>1. CASE store # "redis"
  BY <1>1 DEF Slot
<1>2. CASE store = "redis"
  <2>1. /\ e = <<e[1], e[2]>> /\ f = <<f[1], f[2]>>
        /\ e[1] \in Seq(Range(e[1])) /\ e[2] \in Seq(Range(e[2]))
        /\ f[1] \in Seq(Range(f[1])) /\ f[2] \in Seq(Range(f[2]))
    BY EntriesAssumption
  <2> DEFINE S == Range(e[1]) \cup Range(e[2]) \cup Range(f[1]) \cup Range(f[2]) \cup {Colon}
  <2>2. e[1] \in Seq(S) /\ e[2] \in Seq(S) /\ f[1] \in Seq(S) /\ f[2] \in Seq(S) /\ Colon \in S
    BY <2>1
  <2>3. ~Contains(e[1], Colon) /\ ~Contains(f[1], Colon)
    BY <1>2 DEF InUse
  <2>4. e[1] \o <<Colon>> \o e[2] = f[1] \o <<Colon>> \o f[2]
    BY <1>2 DEF Slot
  <2> HIDE DEF S
  <2>5. \A a, b, c, d \in Seq(S) :
          /\ ~Contains(a, Colon) /\ ~Contains(c, Colon)
          /\ a \o <<Colon>> \o b = c \o <<Colon>> \o d
          => a = c /\ b = d
    <3> TAKE a, b, c, d \in Seq(S)
    <3> HAVE /\ ~Contains(a, Colon) /\ ~Contains(c, Colon)
             /\ a \o <<Colon>> \o b = c \o <<Colon>> \o d
    <3> QED  BY <2>2, JoinInjective
  <2>6. e[1] = f[1] /\ e[2] = f[2]
    <3> DEFINE a == e[1]  b == e[2]  c == f[1]  d == f[2]
    <3>1. a \in Seq(S) /\ b \in Seq(S) /\ c \in Seq(S) /\ d \in Seq(S)
      BY <2>2
    <3>2. a \o <<Colon>> \o b = c \o <<Colon>> \o d
      BY <2>4
    <3>3. ~Contains(a, Colon) /\ ~Contains(c, Colon)
      BY <2>3
    <3> HIDE DEF a, b, c, d
    <3>4. a = c /\ b = d
      BY <2>5, <3>1, <3>2, <3>3
    <3> QED BY <3>4 DEF a, b, c, d
  <2> QED  BY <2>1, <2>6
<1> QED  BY <1>1, <1>2

LEMMA SlotIsSlot == \A e \in Entries : Slot(e) \in Slots
BY DEF Slot, Slots

-----------------------------------------------------------------------------
\* What a step does to a call and to the places of the store.
LEMMA StoreKept == [Next]_vars => store' = store
BY DEF Next, Begin, Step, RefuseName, FileGet, LockPut, Truncate, WriteFile, WriteFails, FileList,
       MemoryCall, ServerPut, ServerGet, SQLiteList, ScanBegins, ScanEnds, ServerFails, Crash,
       Finished, Return, Go, vars

\* The steps of a call, by where it goes and what it writes.
LEMMA StepEffect ==
    ASSUME LocalsOK, NEW o \in Ops, Step(o)
    PROVE  /\ pc[o] \in {"called", "writing", "opened", "scanning"}
           /\ UNCHANGED <<store, call, seen>>
           /\ disk' = disk \/ \E v \in {o, Broken} : Set(Entry(o), v)
           /\ \/ \E r : Return(o, r) /\ UNCHANGED batch
              \/ LockPut(o) /\ Go(o, "writing") /\ UNCHANGED <<disk, result, batch>>
              \/ Truncate(o) /\ Go(o, "opened") /\ UNCHANGED <<result, batch>>
              \/ ScanBegins(o) /\ Go(o, "scanning") /\ UNCHANGED <<disk, result>>
<1>1. CASE LockPut(o) \/ Truncate(o) \/ ScanBegins(o)
  BY <1>1 DEF LockPut, Truncate, ScanBegins, At, Go, Return
<1>2. CASE RefuseName(o) \/ FileGet(o) \/ WriteFile(o) \/ WriteFails(o) \/ FileList(o)
  BY <1>2 DEF RefuseName, FileGet, WriteFile, WriteFails, FileList, At, Return, Go
<1>3. CASE MemoryCall(o)
  BY <1>3 DEF MemoryCall, At, Return, Go
<1>4. CASE ServerPut(o) \/ ServerGet(o) \/ SQLiteList(o) \/ ScanEnds(o) \/ ServerFails(o)
  BY <1>4 DEF ServerPut, ServerGet, SQLiteList, ScanEnds, ServerFails, At, Return, Go
<1> QED  BY <1>1, <1>2, <1>3, <1>4 DEF Step

\* Nothing but its own steps moves a call that was made.
LEMMA StepPlaces ==
    ASSUME LocalsOK, NEW o \in Ops, Step(o)
    PROVE  /\ \A u \in Ops : u # o => pc'[u] = pc[u]
           /\ \/ pc'[o] = "done"
              \/ LockPut(o) /\ pc'[o] = "writing" /\ disk' = disk
              \/ Truncate(o) /\ pc'[o] = "opened"
              \/ ScanBegins(o) /\ pc'[o] = "scanning" /\ disk' = disk
           /\ \A u \in Ops : u # o => result'[u] = result[u] /\ batch'[u] = batch[u]
<1>1. CASE \E r : Return(o, r) /\ UNCHANGED batch
  BY <1>1 DEF Return, Go, LocalsOK
<1>2. CASE LockPut(o) /\ Go(o, "writing") /\ UNCHANGED <<disk, result, batch>>
  BY <1>2 DEF Go, LocalsOK
<1>3. CASE Truncate(o) /\ Go(o, "opened") /\ UNCHANGED <<result, batch>>
  BY <1>3 DEF Go, LocalsOK
<1>4. CASE ScanBegins(o) /\ Go(o, "scanning") /\ UNCHANGED <<disk, result>>
  BY <1>4 DEF ScanBegins, Go, LocalsOK
<1> QED  BY <1>1, <1>2, <1>3, <1>4, StepEffect

LEMMA BeginEffect ==
    ASSUME LocalsOK, NEW o \in Ops, Begin(o)
    PROVE  /\ pc[o] = "idle" /\ pc' = [pc EXCEPT ![o] = "called"]
           /\ UNCHANGED <<store, batch, result, disk>>
           /\ seen' = [seen EXCEPT ![o] = Present]
           /\ \E c \in Requests :
                /\ InUse(c.entry) /\ (store = "checkpoint" => c.kind # "list")
                /\ call' = [call EXCEPT ![o] = c]
BY DEF Begin, Go

\* An entry in use holds what was put there last.
LEMMA SetEffect ==
    ASSUME LocalsOK, store' = store, NEW o \in Ops, pc[o] # "idle", NEW v, Set(Entry(o), v)
    PROVE  /\ Entry(o) \in Entries /\ InUse(Entry(o))
           /\ disk'[Slot(Entry(o))] = v
           /\ \A e \in Entries : InUse(e) /\ e # Entry(o) => disk'[Slot(e)] = disk[Slot(e)]
<1>1. Entry(o) \in Entries /\ InUse(Entry(o))
  BY RequestsAssumption DEF LocalsOK, Entry
<1>2. Slot(Entry(o)) \in Slots /\ disk' = [disk EXCEPT ![Slot(Entry(o))] = v]
  BY <1>1, SlotIsSlot DEF Set
<1>3. ASSUME NEW e \in Entries, InUse(e), e # Entry(o)
      PROVE  disk'[Slot(e)] = disk[Slot(e)]
  <2>1. Slot(e) # Slot(Entry(o)) /\ Slot(e) \in Slots
    BY <1>1, <1>3, SlotsApart, SlotIsSlot
  <2> QED  BY <1>2, <2>1 DEF LocalsOK
<1> QED  BY <1>1, <1>2, <1>3 DEF LocalsOK

LEMMA LocalsStep ==
    ASSUME LocalsOK, [Next]_vars
    PROVE  LocalsOK'
<1>1. CASE UNCHANGED vars
  BY <1>1 DEF vars, LocalsOK, Holding, Entry, InUse
<1>2. ASSUME NEW o \in Ops, Begin(o) PROVE LocalsOK'
  <2>1. PICK c \in Requests : InUse(c.entry) /\ call' = [call EXCEPT ![o] = c]
    BY <1>2, BeginEffect
  <2>2. /\ pc[o] = "idle" /\ pc' = [pc EXCEPT ![o] = "called"]
        /\ UNCHANGED <<store, batch, result, disk>> /\ DOMAIN seen' = Ops
    BY <1>2, BeginEffect DEF LocalsOK
  <2>3. \A e : InUse(e)' <=> InUse(e)
    BY <2>2 DEF InUse
  <2>4. call'[o] = c /\ \A u \in Ops : u # o => call'[u] = call[u]
    BY <2>1 DEF LocalsOK
  <2>5. \A u \in Ops : pc'[u] # "idle" => call'[u] \in Requests /\ InUse(Entry(u))'
    BY <2>1, <2>2, <2>3, <2>4 DEF LocalsOK, Entry
  <2>6. \A u \in Ops : u # o => pc'[u] = pc[u]
    BY <2>2 DEF LocalsOK
  <2>7. \A u \in Ops :
          /\ Holding(u)' => call'[u].kind = "put" /\ store' \in InFiles
          /\ pc'[u] = "scanning" => call'[u].kind = "list" /\ store' = "redis"
    BY <2>2, <2>4, <2>6 DEF LocalsOK, Holding
  <2> QED  BY <2>1, <2>2, <2>5, <2>7 DEF LocalsOK
<1>3. ASSUME NEW o \in Ops, Step(o) PROVE LocalsOK'
  <2>1. /\ pc[o] \in {"called", "writing", "opened", "scanning"}
        /\ UNCHANGED <<store, call, seen>>
        /\ \A u \in Ops : u # o => pc'[u] = pc[u]
    BY <1>3, StepEffect, StepPlaces
  <2>2. \A e, u : (InUse(e)' <=> InUse(e)) /\ Entry(u)' = Entry(u)
    BY <2>1 DEF InUse, Entry
  <2>3. disk' \in [Slots -> Ops \cup {Nothing, Broken}]
    <3>1. disk' = disk \/ \E v \in {o, Broken} : disk' = [disk EXCEPT ![Slot(Entry(o))] = v]
      BY <1>3, StepEffect DEF Set
    <3> QED  BY <3>1 DEF LocalsOK
  <2>4. /\ pc' \in [Ops -> {"idle", "called", "writing", "opened", "scanning", "done", "lost"}]
        /\ DOMAIN result' = Ops /\ DOMAIN batch' = Ops
    <3>1. CASE \E r : Return(o, r) /\ UNCHANGED batch
      BY <3>1 DEF Return, Go, LocalsOK
    <3>2. CASE \E l \in {"writing", "opened"} : Go(o, l) /\ UNCHANGED <<result, batch>>
      BY <3>2 DEF Go, LocalsOK
    <3>3. CASE ScanBegins(o) /\ Go(o, "scanning") /\ UNCHANGED <<disk, result>>
      BY <3>3 DEF ScanBegins, Go, LocalsOK
    <3> QED  BY <1>3, <3>1, <3>2, <3>3, StepEffect
  <2>5. LockPut(o) => call[o].kind = "put" /\ store \in InFiles
    BY DEF LockPut, At
  <2>6. Truncate(o) => call[o].kind = "put" /\ store \in InFiles
    BY DEF Truncate, LocalsOK, Holding
  <2>7. ScanBegins(o) => call[o].kind = "list" /\ store = "redis"
    BY DEF ScanBegins, At
  <2>8. /\ Holding(o)' => call[o].kind = "put" /\ store \in InFiles
        /\ pc'[o] = "scanning" => call[o].kind = "list" /\ store = "redis"
    BY <1>3, <2>5, <2>6, <2>7, StepPlaces DEF Holding
  <2> QED  BY <2>1, <2>2, <2>3, <2>4, <2>8 DEF LocalsOK, Holding
<1>4. CASE Crash
  <2>1. /\ pc' = [u \in Ops |-> IF Busy(u) THEN "lost" ELSE pc[u]]
        /\ UNCHANGED <<store, call, seen, batch, result, disk>>
    BY <1>4 DEF Crash
  <2>2. \A u \in Ops : (pc'[u] = "lost" /\ pc[u] # "idle") \/ pc'[u] = pc[u]
    BY <2>1 DEF Busy
  <2>3. \A e, u : (InUse(e)' <=> InUse(e)) /\ Entry(u)' = Entry(u)
    BY <2>1 DEF InUse, Entry
  <2>4. pc' \in [Ops -> {"idle", "called", "writing", "opened", "scanning", "done", "lost"}]
    BY <2>1 DEF LocalsOK
  <2> QED  BY <2>1, <2>2, <2>3, <2>4 DEF LocalsOK, Holding
<1>5. CASE Finished
  BY <1>1, <1>5 DEF Finished
<1> QED  BY <1>1, <1>2, <1>3, <1>4, <1>5 DEF Next

\* Only a Put that finds the lock free takes it.
LEMMA OneWriterStep ==
    ASSUME LocalsOK, OneWriter, [Next]_vars
    PROVE  OneWriter'
<1>1. CASE UNCHANGED vars \/ Finished
  BY <1>1 DEF Finished, vars, OneWriter, Holding
<1>2. ASSUME NEW o \in Ops, Begin(o) PROVE OneWriter'
  BY <1>2, BeginEffect DEF OneWriter, Holding, LocalsOK
<1>3. ASSUME NEW o \in Ops, Step(o) PROVE OneWriter'
  <2>1. \A u \in Ops : u # o => pc'[u] = pc[u]
    BY <1>3, StepPlaces
  <2>2. CASE ~Holding(o)'
    BY <2>1, <2>2 DEF OneWriter, Holding
  <2>3. CASE Holding(o)'
    <3>1. LockPut(o) \/ Truncate(o)
      BY <1>3, <2>3, StepPlaces DEF Holding
    <3>2. LockPut(o) => \A u \in Ops : ~Holding(u)
      BY DEF LockPut, Unlocked, Holding
    <3>3. Truncate(o) => Holding(o)
      BY DEF Truncate, Holding
    <3> QED  BY <2>1, <3>1, <3>2, <3>3 DEF OneWriter, Holding
  <2> QED  BY <2>2, <2>3
<1>4. CASE Crash
  BY <1>4 DEF Crash, Busy, LocalsOK, OneWriter, Holding
<1> QED  BY <1>1, <1>2, <1>3, <1>4 DEF Next

\* What was there stays there.
LEMMA PresentGrows ==
    ASSUME LocalsOK, [Next]_vars
    PROVE  Present \subseteq Present'
<1>1. store' = store /\ \A e : InUse(e)' <=> InUse(e)
  BY StoreKept DEF InUse
<1>2. \A e : Slot(e)' = Slot(e)
  BY <1>1 DEF Slot
<1>3. CASE disk' = disk
  BY <1>1, <1>2, <1>3 DEF Present, Value
<1>4. ASSUME NEW o \in Ops, Step(o), NEW v \in {o, Broken}, Set(Entry(o), v)
      PROVE  Present \subseteq Present'
  <2>1. pc[o] # "idle" /\ v # Nothing
    BY <1>4, StepEffect, ValuesAssumption
  <2>2. /\ disk'[Slot(Entry(o))] = v
        /\ \A e \in Entries : InUse(e) /\ e # Entry(o) => disk'[Slot(e)] = disk[Slot(e)]
    BY <1>1, <1>4, <2>1, SetEffect
  <2> QED  BY <1>1, <1>2, <2>1, <2>2 DEF Present, Value
<1>5. disk' = disk \/ \E o \in Ops : \E v \in {o, Broken} : Step(o) /\ Set(Entry(o), v)
  BY StepEffect, BeginEffect DEF Next, Crash, Finished, vars
<1> QED  BY <1>3, <1>4, <1>5

LEMMA SeenStep ==
    ASSUME LocalsOK, SeenKept, [Next]_vars
    PROVE  SeenKept'
<1>1. Present \subseteq Present'
  BY PresentGrows
<1>2. CASE UNCHANGED <<pc, seen, call, batch>>
  BY <1>1, <1>2 DEF SeenKept, Here, Entry
<1>3. ASSUME NEW o \in Ops, Begin(o) PROVE SeenKept'
  <2>1. /\ pc' = [pc EXCEPT ![o] = "called"] /\ seen' = [seen EXCEPT ![o] = Present]
        /\ batch' = batch /\ \E c : call' = [call EXCEPT ![o] = c]
    BY <1>3, BeginEffect
  <2> QED  BY <1>1, <2>1 DEF SeenKept, Here, Entry, LocalsOK
<1>4. ASSUME NEW o \in Ops, Step(o) PROVE SeenKept'
  <2>1. /\ pc[o] # "idle" /\ UNCHANGED <<call, seen>>
        /\ \A u \in Ops : u # o => pc'[u] = pc[u] /\ batch'[u] = batch[u]
    BY <1>4, StepEffect, StepPlaces
  <2>2. pc'[o] = "scanning" =>
          batch'[o] = Here(o, Present) /\ Here(o, seen[o]) \subseteq Here(o, Present)
    <3>1. ScanBegins(o) => batch'[o] = Here(o, Present)
      BY DEF ScanBegins, LocalsOK
    <3> QED  BY <1>4, <2>1, <3>1, StepPlaces DEF SeenKept, Here
  <2> QED  BY <1>1, <2>1, <2>2 DEF SeenKept, Here, Entry
<1>5. CASE Crash
  BY <1>1, <1>5 DEF Crash, Busy, SeenKept, Here, Entry, LocalsOK
<1> QED  BY <1>2, <1>3, <1>4, <1>5 DEF Next, Finished, vars

-----------------------------------------------------------------------------
\* What spoilt an entry stays so.
LEMMA SpoiltStays ==
    ASSUME LocalsOK, [Next]_vars, NEW e, Spoilt(e)
    PROVE  Spoilt(e)'
<1>1. PICK u \in Ops : /\ pc[u] \in {"done", "lost"} /\ call[u].kind = "put" /\ Entry(u) = e
                       /\ pc[u] = "done" => result[u] = Error
  BY DEF Spoilt
<1>2. pc'[u] = pc[u] /\ call'[u] = call[u] /\ result'[u] = result[u]
  <2>1. CASE UNCHANGED vars \/ Finished
    BY <2>1 DEF Finished, vars
  <2>2. ASSUME NEW o \in Ops, Begin(o)
        PROVE  pc'[u] = pc[u] /\ call'[u] = call[u] /\ result'[u] = result[u]
    BY <1>1, <2>2, BeginEffect DEF LocalsOK
  <2>3. ASSUME NEW o \in Ops, Step(o)
        PROVE  pc'[u] = pc[u] /\ call'[u] = call[u] /\ result'[u] = result[u]
    BY <1>1, <2>3, StepEffect, StepPlaces
  <2>4. CASE Crash
    BY <1>1, <2>4 DEF Crash, Busy
  <2> QED  BY <2>1, <2>2, <2>3, <2>4 DEF Next
<1> QED  BY <1>1, <1>2 DEF Spoilt, Entry

\* Only the Put that holds the lock writes into a file.
LEMMA FileWrites ==
    ASSUME LocalsOK, NEW o \in Ops, Step(o), store \in InFiles, disk' # disk
    PROVE  Holding(o) /\ (Truncate(o) \/ WriteFile(o))
<1>1. ~MemoryCall(o) /\ ~ServerPut(o) /\ ~ServerGet(o) /\ ~SQLiteList(o) /\ ~ServerFails(o)
  BY DEF MemoryCall, ServerPut, ServerGet, SQLiteList, ServerFails, InFiles, OnServer
<1>2. Truncate(o) \/ WriteFile(o)
  BY <1>1 DEF Step, RefuseName, FileGet, LockPut, WriteFails, FileList, ScanBegins, ScanEnds
<1> QED  BY <1>2 DEF Truncate, WriteFile, Holding

LEMMA BrokenStep ==
    ASSUME StoresInv, [Next]_vars
    PROVE  BrokenExplained'
<1> USE DEF StoresInv
<1>1. /\ store' = store /\ \A e : (InUse(e)' <=> InUse(e)) /\ Slot(e)' = Slot(e)
  BY StoreKept DEF InUse, Slot
<1>2. CASE UNCHANGED vars \/ Finished
  BY <1>2 DEF Finished, vars, BrokenExplained, Value, Writer, Spoilt, Entry, Slot, InUse
<1>3. ASSUME NEW o \in Ops, Begin(o) PROVE BrokenExplained'
  <2>1. /\ pc[o] = "idle" /\ pc'[o] = "called" /\ disk' = disk
        /\ \A u \in Ops : u # o => pc'[u] = pc[u] /\ call'[u] = call[u]
    BY <1>3, BeginEffect DEF LocalsOK
  <2>2. \A e \in Entries : Value(e)' = Value(e) /\ Writer(e)' = Writer(e)
    BY <1>1, <2>1 DEF Value, Writer, Entry
  <2>3. \A u \in Ops : pc'[u] = "opened" => pc[u] = "opened" /\ Value(Entry(u))' = Value(Entry(u))
    BY <1>1, <2>1 DEF Value, Entry
  <2> QED  BY <1>1, <2>2, <2>3, SpoiltStays DEF BrokenExplained
<1>4. ASSUME NEW o \in Ops, Step(o) PROVE BrokenExplained'
  <2>1. /\ pc[o] # "idle" /\ UNCHANGED <<store, call, seen>>
        /\ \A u \in Ops : u # o => pc'[u] = pc[u] /\ result'[u] = result[u]
        /\ \A u \in Ops : Entry(u)' = Entry(u)
    BY <1>4, StepEffect, StepPlaces DEF Entry
  <2>2. Entry(o) \in Entries /\ InUse(Entry(o))
    BY <2>1, RequestsAssumption DEF LocalsOK, Entry
  <2>3. ASSUME NEW u \in Ops, pc'[u] = "opened"
        PROVE  Value(Entry(u))' = Broken
    <3>1. CASE u = o
      <4>1. Truncate(o)
        BY <1>4, <2>3, <3>1, StepPlaces
      <4>2. Set(Entry(o), Broken)
        BY <4>1 DEF Truncate
      <4>3. disk'[Slot(Entry(o))] = Broken
        BY <1>1, <2>1, <4>2, SetEffect
      <4> QED  BY <1>1, <2>1, <3>1, <4>3 DEF Value
    <3>2. CASE u # o
      <4>1. pc[u] = "opened" /\ Value(Entry(u)) = Broken
        BY <2>1, <2>3, <3>2 DEF BrokenExplained
      <4>2. disk' = disk
        BY <1>4, <3>2, <4>1, FileWrites DEF OneWriter, Holding, LocalsOK
      <4> QED  BY <1>1, <2>1, <4>1, <4>2 DEF Value
    <3> QED  BY <3>1, <3>2
  <2>4. ASSUME store \in InFiles, NEW e \in Entries, InUse(e), Value(e)' = Broken
        PROVE  Writer(e)' # {} \/ Spoilt(e)'
    <3>1. CASE Truncate(o) /\ e = Entry(o)
      <4>1. pc'[o] = "opened"
        BY <3>1 DEF Truncate, Go, LocalsOK
      <4> QED  BY <2>1, <3>1, <4>1 DEF Writer
    <3>2. CASE WriteFile(o) /\ e = Entry(o)
      <4>1. disk'[Slot(Entry(o))] = o
        BY <1>1, <2>1, <3>2, SetEffect DEF WriteFile
      <4> QED  BY <1>1, <2>4, <3>2, <4>1, ValuesAssumption DEF Value
    <3>3. CASE ~((Truncate(o) \/ WriteFile(o)) /\ e = Entry(o))
      <4>1. Value(e) = Broken
        <5>1. CASE disk' = disk
          BY <1>1, <2>4, <5>1 DEF Value
        <5>2. CASE disk' # disk
          <6>1. e # Entry(o)
            BY <1>4, <2>4, <3>3, <5>2, FileWrites
          <6>2. \E v : Set(Entry(o), v)
            BY <1>4, <5>2, StepEffect
          <6>3. disk'[Slot(e)] = disk[Slot(e)]
            BY <1>1, <2>1, <2>4, <6>1, <6>2, SetEffect
          <6> QED  BY <1>1, <2>4, <6>3 DEF Value
        <5> QED  BY <5>1, <5>2
      <4>2. CASE Spoilt(e)
        BY <4>2, SpoiltStays
      <4>3. CASE Writer(e) # {}
        <5>1. PICK u \in Ops : pc[u] = "opened" /\ Entry(u) = e
          BY <4>3 DEF Writer
        <5>2. CASE u # o
          BY <2>1, <5>1, <5>2 DEF Writer
        <5>3. CASE u = o
          <6>1. pc[o] = "opened" /\ call[o].kind = "put"
            BY <5>1, <5>3 DEF LocalsOK, Holding
          <6>2. WriteFails(o) \/ WriteFile(o)
            BY <1>4, <6>1 DEF Step, RefuseName, FileGet, LockPut, Truncate, FileList, MemoryCall,
                 ServerPut, ServerGet, SQLiteList, ScanBegins, ScanEnds, ServerFails, At
          <6>3. WriteFails(o)
            BY <3>3, <5>1, <5>3, <6>2
          <6>4. pc'[o] = "done" /\ result'[o] = Error
            BY <6>3 DEF WriteFails, Return, Go, LocalsOK
          <6> QED  BY <2>1, <5>1, <5>3, <6>1, <6>4 DEF Spoilt
        <5> QED  BY <5>2, <5>3
      <4> QED  BY <2>4, <4>1, <4>2, <4>3 DEF BrokenExplained
    <3> QED  BY <3>1, <3>2, <3>3
  <2> QED  BY <1>1, <2>3, <2>4 DEF BrokenExplained
<1>5. CASE Crash
  <2>1. /\ pc' = [u \in Ops |-> IF Busy(u) THEN "lost" ELSE pc[u]]
        /\ UNCHANGED <<store, call, disk>> /\ \A u \in Ops : Entry(u)' = Entry(u)
    BY <1>5 DEF Crash, Entry
  <2>2. \A u \in Ops : pc'[u] # "opened"
    BY <2>1 DEF Busy
  <2>3. ASSUME store \in InFiles, NEW e \in Entries, InUse(e), Value(e)' = Broken
        PROVE  Spoilt(e)'
    <3>1. Value(e) = Broken
      BY <1>1, <2>1, <2>3 DEF Value
    <3>2. CASE Spoilt(e)
      BY <3>2, SpoiltStays
    <3>3. CASE Writer(e) # {}
      <4>1. PICK u \in Ops : pc[u] = "opened" /\ Entry(u) = e
        BY <3>3 DEF Writer
      <4>2. pc'[u] = "lost" /\ call[u].kind = "put"
        BY <2>1, <4>1 DEF Busy, LocalsOK, Holding
      <4> QED  BY <2>1, <4>1, <4>2 DEF Spoilt
    <3> QED  BY <2>3, <3>1, <3>2, <3>3 DEF BrokenExplained
  <2> QED  BY <1>1, <2>2, <2>3 DEF BrokenExplained
<1> QED  BY <1>2, <1>3, <1>4, <1>5 DEF Next

LEMMA ReadableStep ==
    ASSUME LocalsOK, OthersReadable, [Next]_vars
    PROVE  OthersReadable'
<1> SUFFICES ASSUME store \notin InFiles, NEW e \in Entries, InUse(e)
             PROVE  Value(e)' # Broken
  BY StoreKept DEF OthersReadable, InUse
<1>1. store' = store /\ Slot(e)' = Slot(e)
  BY StoreKept DEF Slot
<1>2. CASE disk' = disk
  BY <1>1, <1>2 DEF OthersReadable, Value
<1>3. ASSUME NEW o \in Ops, Step(o), disk' # disk
      PROVE  Value(e)' # Broken
  <2>1. pc[o] # "idle" /\ ~Holding(o)
    BY <1>3, StepEffect DEF LocalsOK
  <2>2. Set(Entry(o), o)
    BY <1>3, <2>1 DEF Step, RefuseName, FileGet, LockPut, Truncate, WriteFile, WriteFails, FileList,
         MemoryCall, ServerPut, ServerGet, SQLiteList, ScanBegins, ScanEnds, ServerFails, Holding
  <2>3. CASE e = Entry(o)
    <3>1. disk'[Slot(e)] = o
      BY <1>1, <2>1, <2>2, <2>3, SetEffect
    <3> QED  BY <1>1, <3>1, ValuesAssumption DEF Value
  <2>4. CASE e # Entry(o)
    <3>1. disk'[Slot(e)] = disk[Slot(e)]
      BY <1>1, <2>1, <2>2, <2>4, SetEffect
    <3> QED  BY <1>1, <3>1 DEF OthersReadable, Value
  <2> QED  BY <2>3, <2>4
<1>4. disk' = disk \/ \E o \in Ops : Step(o)
  BY BeginEffect DEF Next, Crash, Finished, vars
<1> QED  BY <1>2, <1>3, <1>4

LEMMA StoresInit == Init => StoresInv
<1> SUFFICES ASSUME Init PROVE StoresInv
  OBVIOUS
<1>1. LocalsOK
  BY StoresAssumption DEF Init, LocalsOK, Holding
<1>2. \A e \in Entries : Value(e) = Nothing
  BY SlotIsSlot DEF Init, Value
<1> QED
  BY <1>1, <1>2, ValuesAssumption DEF Init, StoresInv, OneWriter, Holding, BrokenExplained, SeenKept,
     OthersReadable

LEMMA StoresKept == Spec => []StoresInv
<1>1. StoresInv /\ [Next]_vars => StoresInv'
  BY LocalsStep, OneWriterStep, BrokenStep, SeenStep, ReadableStep DEF StoresInv
<1> QED  BY <1>1, StoresInit, PTL DEF Spec

-----------------------------------------------------------------------------
\* A Get of a file finds a text it cannot read only where a Put of that entry
\* failed or died, never where one is under way or was acknowledged
\* (store.go:39-79, checkpointer.go:31-63).
THEOREM FailuresExplained == Spec => []GetFailuresExplained
<1>1. Init => GetFailuresExplained
  BY DEF Init, GetFailuresExplained, At
<1>2. StoresInv /\ GetFailuresExplained /\ [Next]_vars => GetFailuresExplained'
  <2> SUFFICES ASSUME StoresInv, GetFailuresExplained, [Next]_vars, NEW o \in Ops,
                      pc'[o] = "done", call'[o].kind = "get", result'[o] = Error,
                      store' \in InFiles, SafeNames(o)'
               PROVE  Spoilt(Entry(o))'
    BY DEF GetFailuresExplained, At
  <2>1. store \in InFiles
    BY StoreKept
  <2>2. CASE Step(o)
    <3>1. /\ UNCHANGED <<store, call>> /\ Entry(o)' = Entry(o) /\ SafeNames(o)
          /\ Entry(o) \in Entries /\ InUse(Entry(o))
      <4>1. call' = call /\ store' = store /\ pc[o] # "idle"
        BY <2>2, StepEffect DEF StoresInv
      <4>2. Entry(o) \in Entries /\ InUse(Entry(o))
        BY <4>1, RequestsAssumption DEF StoresInv, LocalsOK, Entry
      <4> QED  BY <4>1, <4>2 DEF Entry, SafeNames
    <3>2. FileGet(o)
      <4>1. ~Holding(o)
        BY <3>1 DEF StoresInv, LocalsOK
      <4>2. ~RefuseName(o) /\ ~LockPut(o) /\ ~Truncate(o) /\ ~WriteFile(o) /\ ~WriteFails(o)
        BY <3>1, <4>1 DEF RefuseName, LockPut, Truncate, WriteFile, WriteFails, At, Holding
      <4> QED
        BY <2>1, <2>2, <3>1, <4>2 DEF Step, FileList, MemoryCall, ServerPut, ServerGet, SQLiteList,
             ScanBegins, ScanEnds, ServerFails, At, InFiles, OnServer
    <3>3. Unlocked /\ result'[o] = IF Value(Entry(o)) = Broken THEN Error ELSE Ok(Value(Entry(o)))
      BY <3>2 DEF FileGet, Return, StoresInv, LocalsOK
    <3>4. \A v : Ok(v) # Error
      <4> SUFFICES ASSUME NEW v, Ok(v) = Error PROVE FALSE
        OBVIOUS
      <4>1. Ok(v).status = "ok" /\ Error.status = "error"
        BY DEF Ok, Error
      <4> QED  BY <4>1
    <3>5. Value(Entry(o)) = Broken
      BY <3>3, <3>4
    <3>6. Writer(Entry(o)) = {}
      BY <3>3 DEF Unlocked, Writer
    <3> QED  BY <2>1, <3>1, <3>5, <3>6, SpoiltStays DEF StoresInv, BrokenExplained
  <2>3. CASE ~Step(o)
    <3>1. pc[o] = "done" /\ call[o] = call'[o] /\ result[o] = result'[o]
      <4>1. CASE UNCHANGED vars \/ Finished
        BY <4>1 DEF Finished, vars
      <4>2. ASSUME NEW u \in Ops, Begin(u)
            PROVE  pc[o] = "done" /\ call[o] = call'[o] /\ result[o] = result'[o]
        BY <4>2, BeginEffect DEF StoresInv, LocalsOK
      <4>3. ASSUME NEW u \in Ops, Step(u), u # o
            PROVE  pc[o] = "done" /\ call[o] = call'[o] /\ result[o] = result'[o]
        BY <4>3, StepEffect, StepPlaces DEF StoresInv
      <4>4. CASE Crash
        BY <4>4 DEF Crash
      <4> QED  BY <2>3, <4>1, <4>2, <4>3, <4>4 DEF Next
    <3>2. Entry(o)' = Entry(o) /\ SafeNames(o)
      BY <3>1 DEF Entry, SafeNames
    <3>3. Spoilt(Entry(o))
      BY <2>1, <3>1, <3>2 DEF GetFailuresExplained, At
    <3> QED  BY <3>2, <3>3, SpoiltStays DEF StoresInv
  <2> QED  BY <2>2, <2>3
<1> QED  BY <1>1, <1>2, StoresKept, PTL DEF Spec

-----------------------------------------------------------------------------
(***************************************************************************)
(* The stores implement KeyValueStore.                                     *)
(***************************************************************************)
LEMMA PhaseIs ==
    ASSUME LocalsOK
    PROVE  /\ DOMAIN Phase = Ops
           /\ \A o \in Ops : /\ pc[o] = "opened" => Phase[o] = "applied"
                             /\ pc[o] \in {"called", "writing", "scanning"} => Phase[o] = "called"
                             /\ pc[o] \in {"idle", "done", "lost"} => Phase[o] = pc[o]
BY DEF Phase, LocalsOK

\* An entry that is being written shows what is about to be written.
LEMMA TableIs ==
    ASSUME StoresInv
    PROVE  /\ DOMAIN Table = Entries
           /\ \A e \in Entries : ~InUse(e) => Table[e] = Nothing
           /\ \A e \in Entries : InUse(e) /\ Writer(e) = {} => Table[e] = Value(e)
           /\ \A o \in Ops : pc[o] = "opened" => Table[Entry(o)] = o
<1>1. ASSUME NEW o \in Ops, pc[o] = "opened"
      PROVE  Table[Entry(o)] = o
  <2>1. Entry(o) \in Entries /\ InUse(Entry(o))
    BY <1>1, RequestsAssumption DEF StoresInv, LocalsOK, Entry
  <2>2. Writer(Entry(o)) = {o}
    BY <1>1 DEF Writer, StoresInv, OneWriter, Holding
  <2>3. OneOf({o}) = o
    BY DEF OneOf
  <2> QED  BY <2>1, <2>2, <2>3 DEF Table
<1> QED  BY <1>1 DEF Table

LEMMA PresentIs == StoresInv => Present = KV!Present
<1> SUFFICES ASSUME StoresInv, NEW e \in Entries
             PROVE  (InUse(e) /\ Value(e) # Nothing) <=> Table[e] # Nothing
  BY DEF Present, KV!Present
<1>1. CASE ~InUse(e) \/ Writer(e) = {}
  BY <1>1, TableIs
<1>2. CASE InUse(e) /\ Writer(e) # {}
  <2>1. PICK o \in Ops : pc[o] = "opened" /\ Entry(o) = e
    BY <1>2 DEF Writer
  <2>2. Table[e] = o /\ Value(e) = Broken
    BY <2>1, TableIs DEF StoresInv, BrokenExplained
  <2> QED  BY <1>2, <2>2, ValuesAssumption
<1> QED  BY <1>1, <1>2

\* The same places, written by the same calls, are the same table.
LEMMA TableKept ==
    ASSUME UNCHANGED <<store, disk>>, \A e \in Entries : Writer(e)' = Writer(e)
    PROVE  Table' = Table
<1>1. \A e \in Entries : (InUse(e)' <=> InUse(e)) /\ Value(e)' = Value(e)
  BY DEF InUse, Value, Slot
<1> QED  BY <1>1 DEF Table

\* One entry is changed.
LEMMA TableSet ==
    ASSUME LocalsOK, store' = store, NEW o \in Ops, pc[o] # "idle", NEW v, Set(Entry(o), v),
           \A e \in Entries : e # Entry(o) => Writer(e)' = Writer(e)
    PROVE  Table' = [Table EXCEPT ![Entry(o)] = Table'[Entry(o)]]
<1>1. Entry(o) \in Entries /\ \A e \in Entries : InUse(e)' <=> InUse(e)
  BY SetEffect DEF InUse
<1>2. \A e \in Entries : InUse(e) /\ e # Entry(o) => Value(e)' = Value(e)
  BY SetEffect DEF Value, Slot
<1>3. \A e \in Entries : e # Entry(o) => Table'[e] = Table[e]
  BY <1>1, <1>2 DEF Table
<1> QED  BY <1>1, <1>3 DEF Table

\* What a call that goes on leaves as it was.
LEMMA WritersKept ==
    ASSUME NEW o \in Ops, UNCHANGED call, \A u \in Ops : u # o => pc'[u] = pc[u]
    PROVE  /\ pc[o] # "opened" /\ pc'[o] # "opened" => \A e \in Entries : Writer(e)' = Writer(e)
           /\ \A e \in Entries : e # Entry(o) => Writer(e)' = Writer(e)
<1>1. \A u \in Ops : Entry(u)' = Entry(u)
  BY DEF Entry
<1> QED  BY <1>1 DEF Writer

\* A call returns.
LEMMA ReturnIs ==
    ASSUME LocalsOK, LocalsOK', NEW o \in Ops, NEW r, Return(o, r), UNCHANGED <<call, seen>>
    PROVE  KV!Answer(o, r)
<1>1. pc' = [pc EXCEPT ![o] = "done"] /\ result' = [result EXCEPT ![o] = r]
  BY DEF Return, Go
<1>2. Phase' = [Phase EXCEPT ![o] = "done"]
  <2>1. pc'[o] = "done" /\ \A u \in Ops : u # o => pc'[u] = pc[u]
    BY <1>1 DEF LocalsOK
  <2> QED  BY <2>1 DEF Phase
<1> QED  BY <1>1, <1>2 DEF KV!Answer

\* A call that returns without having touched an entry.
LEMMA QuietReturn ==
    ASSUME StoresInv, LocalsOK', NEW o \in Ops, NEW r, Return(o, r), UNCHANGED <<call, seen, disk>>,
           pc[o] # "opened"
    PROVE  KV!Answer(o, r) /\ Table' = Table
<1>1. pc' = [pc EXCEPT ![o] = "done"] /\ store' = store
  BY DEF Return, Go
<1>2. pc'[o] = "done" /\ \A u \in Ops : u # o => pc'[u] = pc[u]
  BY <1>1 DEF StoresInv, LocalsOK
<1>3. \A e \in Entries : Writer(e)' = Writer(e)
  BY <1>2, WritersKept
<1>4. Table' = Table
  BY <1>1, <1>3, TableKept
<1> QED  BY <1>4, ReturnIs DEF StoresInv

\* A Put whose value is there at once, on a store where nothing holds a lock.
LEMMA PutAtOnce ==
    ASSUME StoresInv, StoresInv', NEW o \in Ops, pc[o] = "called", call[o].kind = "put",
           Set(Entry(o), o), NEW r, Return(o, r), UNCHANGED <<call, seen>>, store \notin InFiles
    PROVE  KV!Answer(o, r) /\ Table' = [Table EXCEPT ![Entry(o)] = o]
<1>1. pc' = [pc EXCEPT ![o] = "done"] /\ store' = store
  BY DEF Return, Go
<1>2. pc'[o] = "done" /\ \A u \in Ops : u # o => pc'[u] = pc[u]
  BY <1>1 DEF StoresInv, LocalsOK
<1>3. \A e \in Entries : Writer(e)' = {} /\ Writer(e) = {}
  BY <1>1 DEF StoresInv, LocalsOK, Holding, Writer
<1>4. Entry(o) \in Entries /\ InUse(Entry(o)) /\ disk'[Slot(Entry(o))] = o
  BY <1>1, SetEffect DEF StoresInv
<1>5. Entry(o)' = Entry(o) /\ InUse(Entry(o))' /\ Value(Entry(o))' = o
  BY <1>1, <1>4 DEF Entry, InUse, Value, Slot
<1>6. Table'[Entry(o)] = o
  BY <1>3, <1>4, <1>5 DEF Table
<1>7. Table' = [Table EXCEPT ![Entry(o)] = Table'[Entry(o)]]
  BY <1>1, <1>3, TableSet DEF StoresInv
<1> QED  BY <1>6, <1>7, ReturnIs DEF StoresInv

LEMMA BeginIs ==
    ASSUME StoresInv, StoresInv', NEW o \in Ops, Begin(o)
    PROVE  KV!Begin(o) /\ UNCHANGED Table
<1>1. PICK c \in Requests : call' = [call EXCEPT ![o] = c]
  BY BeginEffect DEF StoresInv
<1>2. /\ pc[o] = "idle" /\ pc' = [pc EXCEPT ![o] = "called"]
      /\ UNCHANGED <<store, batch, result, disk>>
      /\ seen' = [seen EXCEPT ![o] = Present]
  BY BeginEffect DEF StoresInv
<1>3. pc'[o] = "called" /\ \A u \in Ops : u # o => pc'[u] = pc[u] /\ call'[u] = call[u]
  BY <1>1, <1>2 DEF StoresInv, LocalsOK
<1>4. Phase' = [Phase EXCEPT ![o] = "called"]
  BY <1>3 DEF Phase
<1>5. \A e \in Entries : Writer(e)' = Writer(e)
  BY <1>2, <1>3 DEF Writer, Entry
<1>6. Table' = Table
  BY <1>2, <1>5, TableKept
<1>7. Phase[o] = "idle"
  BY <1>2, PhaseIs DEF StoresInv
<1>8. seen' = [seen EXCEPT ![o] = KV!Present]
  BY <1>2, PresentIs
<1> QED  BY <1>1, <1>2, <1>4, <1>6, <1>7, <1>8 DEF KV!Begin

\* The answers that leave the entries alone.
LEMMA FailIs ==
    ASSUME StoresInv, StoresInv', NEW o \in Ops, Return(o, Error), UNCHANGED <<call, seen, disk>>,
           pc[o] \in {"called", "writing", "scanning"}
    PROVE  KV!Fail(o)
<1>1. KV!Answer(o, Error) /\ Table' = Table
  BY QuietReturn DEF StoresInv
<1>2. KV!Error = Error
  BY DEF KV!Error, Error
<1>3. Phase[o] = "called"
  BY PhaseIs DEF StoresInv
<1> QED  BY <1>1, <1>2, <1>3 DEF KV!Fail

LEMMA GetIs ==
    ASSUME StoresInv, StoresInv', NEW o \in Ops, At(o, "called", "get"),
           Return(o, Ok(Value(Entry(o)))), UNCHANGED <<call, seen, disk>>,
           Value(Entry(o)) # Broken, \A u \in Ops : pc[u] # "opened"
    PROVE  KV!Get(o)
<1>1. KV!Answer(o, Ok(Value(Entry(o)))) /\ Table' = Table
  BY QuietReturn DEF StoresInv
<1>2. Entry(o) \in Entries /\ InUse(Entry(o))
  BY RequestsAssumption DEF At, StoresInv, LocalsOK, Entry
<1>3. Table[Entry(o)] = Value(Entry(o))
  <2>1. Writer(Entry(o)) = {}
    BY DEF Writer
  <2> QED  BY <1>2, <2>1, TableIs
<1>4. KV!Pending(o, "get") /\ KV!Entry(o) = Entry(o)
  BY PhaseIs DEF At, StoresInv, KV!Pending, KV!Entry, Entry
<1>5. KV!Ok(Table[Entry(o)]) = Ok(Value(Entry(o)))
  BY <1>3 DEF KV!Ok, Ok
<1> QED  BY <1>1, <1>3, <1>4, <1>5 DEF KV!Get

\* A List says at least what was there when it was called, and nothing that
\* is not there when it ends.
LEMMA ListIs ==
    ASSUME StoresInv, StoresInv', NEW o \in Ops, pc[o] \in {"called", "scanning"},
           call[o].kind = "list", NEW L, L \subseteq Here(o, Present), Here(o, seen[o]) \subseteq L,
           Return(o, Ok(L)), UNCHANGED <<call, seen, disk>>
    PROVE  KV!List(o)
<1>1. KV!Answer(o, Ok(L)) /\ Table' = Table
  BY QuietReturn DEF StoresInv
<1>2. KV!Pending(o, "list")
  BY PhaseIs DEF StoresInv, KV!Pending
<1>3. \A S : {e \in S : KV!Namespace(e) = KV!Namespace(KV!Entry(o))} = Here(o, S)
  BY DEF KV!Namespace, KV!Entry, Here, Entry
<1>4. KV!Ok(L) = Ok(L)
  BY DEF KV!Ok, Ok
<1>5. Present = KV!Present
  BY PresentIs
<1>6. L \in SUBSET Here(o, KV!Present) /\ Here(o, seen[o]) \subseteq L
  BY <1>5
<1> QED  BY <1>1, <1>2, <1>3, <1>4, <1>6 DEF KV!List

LEMMA PutIs ==
    ASSUME StoresInv, StoresInv', NEW o \in Ops, At(o, "called", "put"), store \notin InFiles,
           Set(Entry(o), o), Return(o, Ok(Nothing)), UNCHANGED <<call, seen>>
    PROVE  KV!Put(o)
<1>1. KV!Answer(o, Ok(Nothing)) /\ Table' = [Table EXCEPT ![Entry(o)] = o]
  BY PutAtOnce DEF At
<1>2. Phase[o] = "called" /\ KV!Pending(o, "put") /\ KV!Entry(o) = Entry(o)
  BY PhaseIs DEF At, StoresInv, KV!Pending, KV!Entry, Entry
<1>3. KV!Ok(Nothing) = Ok(Nothing)
  BY DEF KV!Ok, Ok
<1> QED  BY <1>1, <1>2, <1>3 DEF KV!Put

\* A Put of a file takes effect when it truncates the file: from then on the
\* lock hides it until it is written.
LEMMA TruncateIs ==
    ASSUME StoresInv, StoresInv', NEW o \in Ops, Truncate(o)
    PROVE  KV!TakesEffect(o)
<1>1. /\ pc[o] = "writing" /\ pc' = [pc EXCEPT ![o] = "opened"] /\ store' = store
      /\ UNCHANGED <<call, seen, result>> /\ Set(Entry(o), Broken)
  BY DEF Truncate, Go
<1>2. pc'[o] = "opened" /\ \A u \in Ops : u # o => pc'[u] = pc[u]
  BY <1>1 DEF StoresInv, LocalsOK
<1>3. call[o].kind = "put" /\ Entry(o)' = Entry(o)
  BY <1>1 DEF StoresInv, LocalsOK, Holding, Entry
<1>4. \A e \in Entries : e # Entry(o) => Writer(e)' = Writer(e)
  BY <1>1, <1>2, WritersKept
<1>5. Table' = [Table EXCEPT ![Entry(o)] = Table'[Entry(o)]]
  BY <1>1, <1>4, TableSet DEF StoresInv
<1>6. Table'[Entry(o)] = o
  <2>1. \A u \in Ops : u # o => pc'[u] # "opened"
    BY <1>2 DEF StoresInv, OneWriter, Holding
  <2>2. \A e \in Entries : e = Entry(o) => Writer(e)' = {o}
    BY <1>2, <1>3, <2>1 DEF Writer
  <2>3. Entry(o) \in Entries /\ \A e \in Entries : e = Entry(o) => InUse(e)'
    BY <1>1, RequestsAssumption DEF StoresInv, LocalsOK, Entry, InUse
  <2>4. OneOf({o}) = o
    BY DEF OneOf
  <2> QED  BY <2>2, <2>3, <2>4 DEF Table
<1>7. Table' = [Table EXCEPT ![Entry(o)] = o]
  BY <1>5, <1>6
<1>8. Phase' = [Phase EXCEPT ![o] = "applied"]
  BY <1>2 DEF Phase
<1>9. Phase[o] = "called" /\ KV!Pending(o, "put") /\ KV!Entry(o) = Entry(o)
  BY <1>1, <1>3, PhaseIs DEF StoresInv, KV!Pending, KV!Entry, Entry
<1> QED  BY <1>1, <1>7, <1>8, <1>9 DEF KV!TakesEffect

\* What a Put that has the file open leaves when it ends.
LEMMA OpenedEnds ==
    ASSUME StoresInv, StoresInv', NEW o \in Ops, pc[o] = "opened", NEW r, Return(o, r),
           UNCHANGED <<call, seen>>, disk' = disk \/ \E v : Set(Entry(o), v)
    PROVE  /\ KV!Answer(o, r) /\ KV!Pending(o, "put") /\ Phase[o] = "applied"
           /\ KV!Entry(o) = Entry(o) /\ Table[Entry(o)] = o
           /\ Table' = [Table EXCEPT ![Entry(o)] = Value(Entry(o))']
<1>1. pc' = [pc EXCEPT ![o] = "done"] /\ store' = store
  BY DEF Return, Go
<1>2. pc'[o] = "done" /\ \A u \in Ops : u # o => pc'[u] = pc[u]
  BY <1>1 DEF StoresInv, LocalsOK
<1>3. call[o].kind = "put" /\ Entry(o)' = Entry(o) /\ Entry(o) \in Entries /\ InUse(Entry(o))
  BY RequestsAssumption DEF StoresInv, LocalsOK, Holding, Entry
<1>4. \A e \in Entries : e # Entry(o) => Writer(e)' = Writer(e)
  BY <1>2, WritersKept
<1>5. \A e \in Entries : e # Entry(o) => Table'[e] = Table[e]
  <2>1. CASE \E v : Set(Entry(o), v)
    <3>1. DOMAIN Table = Entries
      BY TableIs
    <3> QED  BY <1>1, <1>3, <1>4, <2>1, <3>1, TableSet DEF StoresInv
  <2>2. CASE disk' = disk
    <3>1. \A e \in Entries : (InUse(e)' <=> InUse(e)) /\ Value(e)' = Value(e)
      BY <1>1, <2>2 DEF InUse, Value, Slot
    <3> QED  BY <1>4, <3>1 DEF Table
  <2> QED  BY <2>1, <2>2
<1>6. Writer(Entry(o))' = {}
  <2>1. \A u \in Ops : ~(pc'[u] = "opened")
    BY <1>2 DEF StoresInv, OneWriter, Holding
  <2> QED  BY <2>1 DEF Writer
<1>7. Table'[Entry(o)] = Value(Entry(o))'
  <2>1. InUse(Entry(o))'
    BY <1>1, <1>3 DEF InUse
  <2> QED  BY <1>3, <1>6, <2>1 DEF Table
<1>8. Table' = [Table EXCEPT ![Entry(o)] = Value(Entry(o))']
  BY <1>3, <1>5, <1>7, TableIs DEF Table
<1>9. Phase[o] = "applied" /\ KV!Pending(o, "put") /\ KV!Entry(o) = Entry(o)
  BY <1>3, PhaseIs DEF StoresInv, KV!Pending, KV!Entry, Entry
<1> QED  BY <1>8, <1>9, ReturnIs, TableIs DEF StoresInv

LEMMA WriteFileIs ==
    ASSUME StoresInv, StoresInv', NEW o \in Ops, WriteFile(o)
    PROVE  KV!Put(o)
<1>1. /\ pc[o] = "opened" /\ Set(Entry(o), o) /\ Return(o, Ok(Nothing)) /\ UNCHANGED <<call, seen>>
      /\ store' = store
  BY DEF WriteFile, Return, Go
<1>2. /\ KV!Answer(o, Ok(Nothing)) /\ KV!Pending(o, "put") /\ Phase[o] = "applied"
      /\ Table[Entry(o)] = o /\ Table' = [Table EXCEPT ![Entry(o)] = Value(Entry(o))']
  BY <1>1, OpenedEnds
<1>3. Value(Entry(o))' = o
  BY <1>1, SetEffect DEF StoresInv, Value, Slot, Entry
<1>4. Table' = Table
  BY <1>2, <1>3 DEF Table
<1>5. KV!Ok(Nothing) = Ok(Nothing)
  BY DEF KV!Ok, Ok
<1> QED  BY <1>2, <1>4, <1>5 DEF KV!Put

LEMMA WriteFailsIs ==
    ASSUME StoresInv, StoresInv', NEW o \in Ops, WriteFails(o)
    PROVE  KV!Fail(o)
<1>1. pc[o] \in {"writing", "opened"} /\ Return(o, Error) /\ UNCHANGED <<call, seen, disk>>
  BY DEF WriteFails
<1>2. CASE pc[o] = "writing"
  BY <1>1, <1>2, FailIs
<1>3. CASE pc[o] = "opened"
  <2>1. /\ KV!Answer(o, Error) /\ KV!Pending(o, "put") /\ Phase[o] = "applied"
        /\ KV!Entry(o) = Entry(o) /\ Table' = [Table EXCEPT ![Entry(o)] = Value(Entry(o))']
    BY <1>1, <1>3, OpenedEnds
  <2>2. Value(Entry(o))' = Broken
    <3>1. Value(Entry(o)) = Broken
      BY <1>3 DEF StoresInv, BrokenExplained
    <3> QED  BY <1>1, <3>1 DEF Value, Entry, Slot, Return, Go
  <2>3. Broken \in KV!Aftermath(o) /\ KV!Error = Error
    BY DEF KV!Aftermath, KV!Error, Error
  <2> QED  BY <2>1, <2>2, <2>3 DEF KV!Fail
<1> QED  BY <1>1, <1>2, <1>3

LEMMA ServerFailsIs ==
    ASSUME StoresInv, StoresInv', NEW o \in Ops, ServerFails(o)
    PROVE  KV!Fail(o)
<1>1. /\ pc[o] \in {"called", "scanning"} /\ store \in OnServer
      /\ Return(o, Error) /\ UNCHANGED <<call, seen>>
      /\ disk' = disk \/ (call[o].kind = "put" /\ Set(Entry(o), o))
  BY DEF ServerFails
<1>2. CASE disk' = disk
  BY <1>1, <1>2, FailIs
<1>3. CASE call[o].kind = "put" /\ Set(Entry(o), o)
  <2>1. pc[o] = "called" /\ store \notin InFiles
    BY <1>1, <1>3 DEF StoresInv, LocalsOK, OnServer, InFiles
  <2>2. KV!Answer(o, Error) /\ Table' = [Table EXCEPT ![Entry(o)] = o]
    BY <1>1, <1>3, <2>1, PutAtOnce
  <2>3. Phase[o] = "called" /\ KV!Pending(o, "put") /\ KV!Entry(o) = Entry(o)
    BY <1>3, <2>1, PhaseIs DEF StoresInv, KV!Pending, KV!Entry, Entry
  <2>4. o \in KV!Aftermath(o) /\ KV!Error = Error
    BY DEF KV!Aftermath, KV!Error, Error
  <2> QED  BY <2>2, <2>3, <2>4 DEF KV!Fail
<1> QED  BY <1>1, <1>2, <1>3

\* A crash leaves in doubt the entry that was being written.
LEMMA CrashIs ==
    ASSUME StoresInv, StoresInv', Crash
    PROVE  KV!Crash
<1>1. /\ pc' = [o \in Ops |-> IF Busy(o) THEN "lost" ELSE pc[o]]
      /\ UNCHANGED <<store, call, seen, batch, result, disk>>
  BY DEF Crash
<1>2. Phase' = [o \in Ops |-> IF Phase[o] \in {"called", "applied"} THEN "lost" ELSE Phase[o]]
  <2>1. ASSUME NEW o \in Ops
        PROVE  Phase'[o] = IF Phase[o] \in {"called", "applied"} THEN "lost" ELSE Phase[o]
    <3>1. CASE Busy(o)
      <4>1. pc[o] \in {"called", "writing", "scanning", "opened"} /\ pc'[o] = "lost"
        BY <1>1, <3>1 DEF Busy, StoresInv, LocalsOK
      <4>2. Phase'[o] = "lost" /\ Phase[o] \in {"called", "applied"}
        BY <4>1, PhaseIs DEF StoresInv, Phase
      <4> QED  BY <4>2
    <3>2. CASE ~Busy(o)
      <4>1. pc[o] \in {"idle", "done", "lost"} /\ pc'[o] = pc[o]
        BY <1>1, <3>2 DEF Busy
      <4>2. Phase'[o] = pc[o] /\ Phase[o] = pc[o]
        BY <4>1, PhaseIs DEF StoresInv, Phase
      <4> QED  BY <4>1, <4>2
    <3> QED  BY <3>1, <3>2
  <2> QED  BY <2>1 DEF Phase
<1>3. \A o \in Ops : pc'[o] # "opened"
  BY <1>1 DEF Busy
<1>4. \A e \in Entries : Writer(e)' = {}
  BY <1>3 DEF Writer
<1>5. ASSUME NEW e \in Entries
      PROVE  \/ Table'[e] = Table[e]
             \/ \E o \in Ops : KV!Pending(o, "put") /\ KV!Entry(o) = e /\ Table'[e] \in KV!Aftermath(o)
  <2>1. (InUse(e)' <=> InUse(e)) /\ Value(e)' = Value(e)
    BY <1>1 DEF InUse, Value, Slot
  <2>2. CASE ~InUse(e) \/ Writer(e) = {}
    BY <1>4, <2>1, <2>2 DEF Table
  <2>3. CASE InUse(e) /\ Writer(e) # {}
    <3>1. PICK o \in Ops : pc[o] = "opened" /\ Entry(o) = e
      BY <2>3 DEF Writer
    <3>2. Table'[e] = Broken
      BY <1>4, <2>1, <2>3, <3>1 DEF Table, StoresInv, BrokenExplained
    <3>3. KV!Pending(o, "put") /\ KV!Entry(o) = e /\ Broken \in KV!Aftermath(o)
      BY <3>1, PhaseIs
         DEF StoresInv, LocalsOK, Holding, KV!Pending, KV!Entry, Entry, KV!Aftermath
    <3> QED  BY <3>2, <3>3
  <2> QED  BY <2>2, <2>3
<1> QED  BY <1>1, <1>2, <1>5 DEF KV!Crash, Table

\* Where there is no lock to hold, an entry in use can always be read.
LEMMA NoneBroken ==
    ASSUME StoresInv, store \notin InFiles, NEW o \in Ops, pc[o] # "idle"
    PROVE  Value(Entry(o)) # Broken /\ \A u \in Ops : pc[u] # "opened"
<1>1. Entry(o) \in Entries /\ InUse(Entry(o))
  BY RequestsAssumption DEF StoresInv, LocalsOK, Entry
<1> QED  BY <1>1 DEF StoresInv, LocalsOK, OthersReadable, Holding

\* The steps a caller cannot tell from nothing.
LEMMA StutterIs ==
    ASSUME StoresInv, StoresInv', NEW o \in Ops, pc[o] = "called",
           Go(o, "writing") \/ Go(o, "scanning"), UNCHANGED <<call, seen, result, disk>>
    PROVE  UNCHANGED KV!vars
<1>1. store' = store /\ pc'[o] \in {"writing", "scanning"} /\ \A u \in Ops : u # o => pc'[u] = pc[u]
  BY DEF Go, StoresInv, LocalsOK
<1>2. Phase' = Phase
  BY <1>1 DEF Phase
<1>3. \A e \in Entries : Writer(e)' = Writer(e)
  BY <1>1, WritersKept
<1>4. Table' = Table
  BY <1>1, <1>3, TableKept
<1> QED  BY <1>2, <1>4 DEF KV!vars

LEMMA StepIs ==
    ASSUME StoresInv, StoresInv', NEW o \in Ops, Step(o)
    PROVE  [KV!Next]_(KV!vars)
<1>1. CASE RefuseName(o)
  BY <1>1, FailIs DEF RefuseName, KV!Next
<1>2. CASE FileGet(o)
  <2>1. Unlocked /\ At(o, "called", "get") /\ UNCHANGED <<call, seen, disk>>
        /\ Return(o, IF Value(Entry(o)) = Broken THEN Error ELSE Ok(Value(Entry(o))))
    BY <1>2 DEF FileGet
  <2>2. CASE Value(Entry(o)) = Broken
    BY <2>1, <2>2, FailIs DEF At, KV!Next
  <2>3. CASE Value(Entry(o)) # Broken
    BY <2>1, <2>3, GetIs DEF Unlocked, KV!Next
  <2> QED  BY <2>2, <2>3
<1>3. CASE LockPut(o)
  <2>1. CASE Go(o, "writing") /\ UNCHANGED result
    BY <1>3, <2>1, StutterIs DEF LockPut, At
  <2>2. CASE Return(o, Error)
    BY <1>3, <2>2, FailIs DEF LockPut, At, KV!Next
  <2> QED  BY <1>3, <2>1, <2>2 DEF LockPut
<1>4. CASE Truncate(o)
  BY <1>4, TruncateIs DEF KV!Next
<1>5. CASE WriteFile(o)
  BY <1>5, WriteFileIs DEF KV!Next
<1>6. CASE WriteFails(o)
  BY <1>6, WriteFailsIs DEF KV!Next
<1>7. Here(o, Present) \subseteq Here(o, Present)
  OBVIOUS
<1>8. At(o, "called", "list") => Here(o, seen[o]) \subseteq Here(o, Present)
  BY DEF At, StoresInv, SeenKept, Here
<1>9. CASE FileList(o) \/ SQLiteList(o)
  <2>1. /\ At(o, "called", "list") /\ Return(o, Ok(Here(o, Present)))
        /\ UNCHANGED <<call, seen, disk>>
    BY <1>9 DEF FileList, SQLiteList
  <2> QED  BY <1>7, <1>8, <2>1, ListIs DEF At, KV!Next
<1>10. CASE MemoryCall(o)
  <2>1. pc[o] = "called" /\ store \notin InFiles /\ store # "redis" /\ UNCHANGED <<call, seen>>
    BY <1>10 DEF MemoryCall, InFiles
  <2>2. CASE call[o].kind = "put" /\ Set(Entry(o), o) /\ Return(o, Ok(Nothing))
    BY <2>1, <2>2, PutIs DEF At, KV!Next
  <2>3. CASE call[o].kind = "get" /\ Return(o, Ok(Value(Entry(o)))) /\ UNCHANGED disk
    <3>1. Value(Entry(o)) # Broken /\ \A u \in Ops : pc[u] # "opened"
      BY <2>1, NoneBroken
    <3> QED  BY <2>1, <2>3, <3>1, GetIs DEF At, KV!Next
  <2>4. CASE call[o].kind = "list" /\ Return(o, Ok(Here(o, Present))) /\ UNCHANGED disk
    BY <1>7, <1>8, <2>1, <2>4, ListIs DEF At, KV!Next
  <2> QED  BY <1>10, <2>2, <2>3, <2>4 DEF MemoryCall
<1>11. CASE ServerPut(o)
  <2>1. At(o, "called", "put") /\ store \notin InFiles /\ UNCHANGED <<call, seen>>
    BY <1>11 DEF ServerPut, OnServer, InFiles
  <2>2. CASE Set(Entry(o), o) /\ Return(o, Ok(Nothing))
    BY <2>1, <2>2, PutIs DEF KV!Next
  <2>3. CASE Return(o, Error) /\ UNCHANGED disk
    BY <2>1, <2>3, FailIs DEF At, KV!Next
  <2> QED  BY <1>11, <2>2, <2>3 DEF ServerPut
<1>12. CASE ServerGet(o)
  <2>1. /\ At(o, "called", "get") /\ store \notin InFiles /\ UNCHANGED <<call, seen, disk>>
        /\ Return(o, Ok(Value(Entry(o))))
    BY <1>12 DEF ServerGet, OnServer, InFiles
  <2>2. Value(Entry(o)) # Broken /\ \A u \in Ops : pc[u] # "opened"
    BY <2>1, NoneBroken DEF At
  <2> QED  BY <2>1, <2>2, GetIs DEF KV!Next
<1>13. CASE ScanBegins(o)
  BY <1>13, StutterIs DEF ScanBegins, At
<1>14. CASE ScanEnds(o)
  <2>1. PICK late \in SUBSET (Here(o, Present) \ batch[o]) : Return(o, Ok(batch[o] \cup late))
    BY <1>14 DEF ScanEnds
  <2>2. pc[o] = "scanning" /\ call[o].kind = "list" /\ UNCHANGED <<call, seen, disk>>
    BY <1>14 DEF ScanEnds, At
  <2>3. /\ batch[o] \cup late \subseteq Here(o, Present)
        /\ Here(o, seen[o]) \subseteq batch[o] \cup late
    BY <2>2 DEF StoresInv, SeenKept
  <2> QED  BY <2>1, <2>2, <2>3, ListIs DEF KV!Next
<1>15. CASE ServerFails(o)
  BY <1>15, ServerFailsIs DEF KV!Next
<1> QED
  BY <1>1, <1>2, <1>3, <1>4, <1>5, <1>6, <1>9, <1>10, <1>11, <1>12, <1>13, <1>14, <1>15 DEF Step

\* Every store, with one instance on its files and with namespaces that keep
\* clear of its separator, is a KeyValueStore under any overlap of its calls,
\* failures and crashes (store.go:39-101, redis_store.go:43-90).
THEOREM StoresImplementStore == Spec => ActsAsStore
<1>1. Init => KV!Init
  <2> SUFFICES ASSUME Init PROVE KV!Init
    OBVIOUS
  <2>1. StoresInv /\ \A o \in Ops : pc[o] = "idle"
    BY StoresInit DEF Init
  <2>2. Phase = [o \in Ops |-> "idle"]
    BY <2>1 DEF Phase
  <2>3. \A e \in Entries : Writer(e) = {} /\ Value(e) = Nothing
    BY <2>1, SlotIsSlot DEF Writer, Value, Init
  <2>4. Table = [e \in Entries |-> Nothing]
    BY <2>3 DEF Table
  <2> QED  BY <2>2, <2>4 DEF Init, KV!Init
<1>2. StoresInv /\ StoresInv' /\ [Next]_vars => [KV!Next]_(KV!vars)
  <2> SUFFICES ASSUME StoresInv, StoresInv', [Next]_vars PROVE [KV!Next]_(KV!vars)
    OBVIOUS
  <2>1. CASE UNCHANGED vars \/ Finished
    <3>1. UNCHANGED vars
      BY <2>1 DEF Finished
    <3>2. Phase' = Phase /\ \A e \in Entries : Writer(e)' = Writer(e)
      BY <3>1 DEF vars, Phase, Writer, Entry
    <3>3. Table' = Table
      BY <3>1, <3>2, TableKept DEF vars
    <3> QED  BY <3>1, <3>2, <3>3 DEF vars, KV!vars
  <2>2. ASSUME NEW o \in Ops, Begin(o) PROVE KV!Next
    BY <2>2, BeginIs DEF KV!Next
  <2>3. CASE Crash
    BY <2>3, CrashIs DEF KV!Next
  <2> QED  BY <2>1, <2>2, <2>3, StepIs DEF Next
<1> QED  BY <1>1, <1>2, StoresKept, PTL DEF Spec, ActsAsStore, KV!Spec

=============================================================================
