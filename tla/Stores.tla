------------------------------- MODULE Stores -------------------------------
(***************************************************************************)
(* The stores of the agent that outlive a run: the four memory stores      *)
(* (memory/store.go, redis_inmemory.go, redis_store.go, sqlite_store.go)   *)
(* and FileCheckpointer (agent/checkpointer.go), which is made like        *)
(* FileMemoryStore.  All the agents of the process share one instance.     *)
(*                                                                         *)
(* A file is truncated and rewritten in place, under the lock of the       *)
(* instance.  Redis and SQLite run each command at one instant, a SCAN     *)
(* excepted; their servers may fail before a command or after it.          *)
(***************************************************************************)
EXTENDS Naturals, SequencesExt

CONSTANTS
    Ops,         \* the calls made; a value is named after the Put that brought it
    Configured,  \* the stores an agent may be given, a subset of StoreKinds
    Entries,     \* pairs of a namespace and a key, sequences of characters
    Requests,    \* [kind, entry, json]; json: can json.Marshal take the value?
    Unsafe,      \* the names validatePathComponent refuses
    Colon,       \* the character ":"
    Faults,      \* subset of {"write", "server", "crash"}
    Nothing,     \* no request, no answer, no value
    Broken       \* a text json.Unmarshal refuses, or no text at all

StoreKinds == {"file", "checkpoint", "inmemory", "redis", "sqlite"}
InFiles == {"file", "checkpoint"}
OnServer == {"redis", "sqlite"}

ASSUME StoresAssumption == Configured \subseteq StoreKinds
ASSUME RequestsAssumption ==
    Requests \subseteq [kind : {"put", "get", "list"}, entry : Entries, json : BOOLEAN]
ASSUME FaultsAssumption == Faults \subseteq {"write", "server", "crash"}
ASSUME EntriesAssumption ==
    \A e \in Entries : e = <<e[1], e[2]>> /\ \A i \in {1, 2} : e[i] \in Seq(Range(e[i]))
ASSUME ValuesAssumption == Nothing # Broken /\ Nothing \notin Ops /\ Broken \notin Ops

VARIABLES
    store,   \* the store of the agent
    pc,      \* where each call is; from "writing" to its end it holds the lock
    call,    \* its request
    seen,    \* the entries there were when it was made (history)
    batch,   \* the entries a SCAN has collected
    result,  \* its answer
    disk     \* the value in each slot of the store

vars == <<store, pc, call, seen, batch, result, disk>>

Ok(v) == [status |-> "ok", value |-> v]
Error == [status |-> "error", value |-> Nothing]

(***************************************************************************)
(* Where a store keeps an entry: files, rows and nested maps have both     *)
(* names; a Redis key is the two joined by a colon.                        *)
(***************************************************************************)
Slot(e) == IF store = "redis" THEN e[1] \o <<Colon>> \o e[2] ELSE e
Slots == Entries \cup {e[1] \o <<Colon>> \o e[2] : e \in Entries}

(***************************************************************************)
(* What a store is used for.  A checkpoint has no namespace.  Namespaces   *)
(* with a colon are kept from Redis, where their entries would be those of *)
(* another namespace.                                                      *)
(***************************************************************************)
InUse(e) ==
    /\ store = "checkpoint" => e[1] = <<>>
    /\ store = "redis" => ~Contains(e[1], Colon)

Init ==
    /\ store \in Configured
    /\ pc = [o \in Ops |-> "idle"]
    /\ call = [o \in Ops |-> Nothing]
    /\ seen = [o \in Ops |-> {}]
    /\ batch = [o \in Ops |-> {}]
    /\ result = [o \in Ops |-> Nothing]
    /\ disk = [s \in Slots |-> Nothing]

Go(o, l) == pc' = [pc EXCEPT ![o] = l] /\ UNCHANGED store
Return(o, r) == result' = [result EXCEPT ![o] = r] /\ Go(o, "done")
Entry(o) == call[o].entry
Busy(o) == pc[o] \notin {"idle", "done", "lost"}
At(o, l, kind) == pc[o] = l /\ call[o].kind = kind
Value(e) == disk[Slot(e)]
Set(e, v) == disk' = [disk EXCEPT ![Slot(e)] = v]
Present == {e \in Entries : InUse(e) /\ Value(e) # Nothing}
Here(o, es) == {e \in es : e[1] = Entry(o)[1]}

Begin(o) ==
    /\ pc[o] = "idle"
    /\ \E c \in Requests :
         /\ InUse(c.entry) /\ (store = "checkpoint" => c.kind # "list")
         /\ call' = [call EXCEPT ![o] = c]
    /\ seen' = [seen EXCEPT ![o] = Present]
    /\ Go(o, "called")
    /\ UNCHANGED <<batch, result, disk>>

-----------------------------------------------------------------------------
(* FileMemoryStore and FileCheckpointer.                                   *)

\* A Get returns while it holds the lock, so only Puts are seen to hold it.
\* Mutant: the calls do not exclude one another.
Unlocked_Always == TRUE
Unlocked == \A o \in Ops : pc[o] \notin {"writing", "opened"}

SafeNames(o) ==
    /\ Entry(o)[1] \notin Unsafe
    /\ Entry(o)[2] \in Unsafe => call[o].kind = "list"

RefuseName(o) ==
    /\ pc[o] = "called" /\ store \in InFiles
    /\ ~SafeNames(o)
    /\ Unlocked \/ call[o].kind = "list"
    /\ Return(o, Error)
    /\ UNCHANGED <<call, seen, batch, disk>>

FileGet(o) ==
    /\ At(o, "called", "get") /\ store \in InFiles
    /\ Unlocked /\ SafeNames(o)
    /\ Return(o, IF Value(Entry(o)) = Broken THEN Error ELSE Ok(Value(Entry(o))))
    /\ UNCHANGED <<call, seen, batch, disk>>

\* Lock and marshal.
LockPut(o) ==
    /\ At(o, "called", "put") /\ store \in InFiles
    /\ Unlocked /\ SafeNames(o)
    /\ IF call[o].json THEN Go(o, "writing") /\ UNCHANGED result ELSE Return(o, Error)
    /\ UNCHANGED <<call, seen, batch, disk>>

\* os.WriteFile: open with O_TRUNC, then write.
Truncate(o) ==
    /\ pc[o] = "writing"
    /\ Set(Entry(o), Broken)
    /\ Go(o, "opened")
    /\ UNCHANGED <<call, seen, batch, result>>

WriteFile(o) ==
    /\ pc[o] = "opened"
    /\ Set(Entry(o), o)
    /\ Return(o, Ok(Nothing))
    /\ UNCHANGED <<call, seen, batch>>

\* The file cannot be opened, or not be written to its end.
WriteFails(o) ==
    /\ "write" \in Faults
    /\ pc[o] \in {"writing", "opened"}
    /\ Return(o, Error)
    /\ UNCHANGED <<call, seen, batch, disk>>

\* ReadDir, without the lock.  The names end in ".json", which is not part of
\* the key a Get takes; the answer here is the keys.
FileList(o) ==
    /\ At(o, "called", "list") /\ store = "file"
    /\ SafeNames(o)
    /\ Return(o, Ok(Here(o, Present)))
    /\ UNCHANGED <<call, seen, batch, disk>>

-----------------------------------------------------------------------------
(* InMemoryRedisStore: one critical section per call, any value.           *)

MemoryCall(o) ==
    /\ pc[o] = "called" /\ store = "inmemory"
    /\ \/ /\ call[o].kind = "put"
          /\ Set(Entry(o), o) /\ Return(o, Ok(Nothing))
       \/ /\ call[o].kind = "get"
          /\ Return(o, Ok(Value(Entry(o)))) /\ UNCHANGED disk
       \/ /\ call[o].kind = "list"
          /\ Return(o, Ok(Here(o, Present))) /\ UNCHANGED disk
    /\ UNCHANGED <<call, seen, batch>>

-----------------------------------------------------------------------------
(* redisStore and sqliteStore.                                             *)

\* SET, and INSERT ... ON CONFLICT DO UPDATE.
\* Mutant: INSERT alone, which leaves the row there is.
ServerPut_InsertOnly(o) ==
    /\ At(o, "called", "put") /\ store \in OnServer
    /\ IF ~call[o].json THEN Return(o, Error) /\ UNCHANGED disk
       ELSE /\ IF Value(Entry(o)) = Nothing THEN Set(Entry(o), o) ELSE UNCHANGED disk
            /\ Return(o, Ok(Nothing))
    /\ UNCHANGED <<call, seen, batch>>
ServerPut(o) ==
    /\ At(o, "called", "put") /\ store \in OnServer
    /\ IF call[o].json
       THEN Set(Entry(o), o) /\ Return(o, Ok(Nothing))
       ELSE Return(o, Error) /\ UNCHANGED disk
    /\ UNCHANGED <<call, seen, batch>>

ServerGet(o) ==
    /\ At(o, "called", "get") /\ store \in OnServer
    /\ Return(o, Ok(Value(Entry(o))))
    /\ UNCHANGED <<call, seen, batch, disk>>

SQLiteList(o) ==
    /\ At(o, "called", "list") /\ store = "sqlite"
    /\ Return(o, Ok(Here(o, Present)))
    /\ UNCHANGED <<call, seen, batch, disk>>

\* A SCAN finds every key there was when it began, and may find later ones.
ScanBegins(o) ==
    /\ At(o, "called", "list") /\ store = "redis"
    /\ batch' = [batch EXCEPT ![o] = Here(o, Present)]
    /\ Go(o, "scanning")
    /\ UNCHANGED <<call, seen, result, disk>>
ScanEnds(o) ==
    /\ At(o, "scanning", "list")
    /\ \E late \in SUBSET (Here(o, Present) \ batch[o]) : Return(o, Ok(batch[o] \cup late))
    /\ UNCHANGED <<call, seen, batch, disk>>

\* The connection breaks before the command or after it.
ServerFails(o) ==
    /\ "server" \in Faults
    /\ pc[o] \in {"called", "scanning"} /\ store \in OnServer
    /\ \/ UNCHANGED disk
       \/ call[o].kind = "put" /\ call[o].json /\ Set(Entry(o), o)
    /\ Return(o, Error)
    /\ UNCHANGED <<call, seen, batch>>

\* The process dies, and another one continues; what was in memory is gone
\* with it, so InMemoryRedisStore has no part in this.
Crash ==
    /\ "crash" \in Faults /\ store # "inmemory"
    /\ \E o \in Ops : Busy(o)
    /\ pc' = [o \in Ops |-> IF Busy(o) THEN "lost" ELSE pc[o]]
    /\ UNCHANGED <<store, call, seen, batch, result, disk>>

-----------------------------------------------------------------------------
Step(o) ==
    \/ RefuseName(o) \/ FileGet(o) \/ LockPut(o) \/ Truncate(o) \/ WriteFile(o)
    \/ WriteFails(o) \/ FileList(o)
    \/ MemoryCall(o)
    \/ ServerPut(o) \/ ServerGet(o) \/ SQLiteList(o) \/ ScanBegins(o) \/ ScanEnds(o)
    \/ ServerFails(o)

Finished == (\A o \in Ops : pc[o] \in {"done", "lost"}) /\ UNCHANGED vars

Next == (\E o \in Ops : Begin(o) \/ Step(o)) \/ Crash \/ Finished

Spec == Init /\ [][Next]_vars

-----------------------------------------------------------------------------
\* Every variable holds values of its kind; an answer comes with the end of
\* its call.
TypeOK ==
    /\ store \in Configured
    /\ pc \in [Ops -> {"idle", "called", "writing", "opened", "scanning", "done", "lost"}]
    /\ call \in [Ops -> Requests \cup {Nothing}]
    /\ \A o \in Ops : call[o] = Nothing <=> pc[o] = "idle"
    /\ seen \in [Ops -> SUBSET Entries] /\ batch \in [Ops -> SUBSET Entries]
    /\ \A o \in Ops : result[o] = Nothing <=> pc[o] # "done"
    /\ disk \in [Slots -> Ops \cup {Nothing, Broken}]

\* A Get of a file finds a text it cannot read only where a Put of that entry
\* failed or died, never where one is under way or was acknowledged
\* (store.go:39-79, checkpointer.go:31-63).
Spoilt(e) ==
    \E u \in Ops : /\ pc[u] \in {"done", "lost"} /\ call[u].kind = "put" /\ Entry(u) = e
                   /\ pc[u] = "done" => result[u] = Error
GetFailuresExplained ==
    \A o \in Ops :
        At(o, "done", "get") /\ result[o] = Error /\ store \in InFiles /\ SafeNames(o)
            => Spoilt(Entry(o))

\* The stores as KeyValueStore: a file that is being written holds, for every
\* call that has a right to look, what is about to be written.
Writer(e) == {o \in Ops : pc[o] = "opened" /\ Entry(o) = e}
OneOf(S) == CHOOSE s \in S : TRUE
Phase == [o \in Ops |-> CASE pc[o] = "opened" -> "applied"
                          [] pc[o] \in {"writing", "scanning"} -> "called"
                          [] OTHER -> pc[o]]
Table == [e \in Entries |-> IF ~InUse(e) THEN Nothing
                            ELSE IF Writer(e) = {} THEN Value(e)
                            ELSE OneOf(Writer(e))]
KV == INSTANCE KeyValueStore WITH phase <- Phase, table <- Table

\* Every store, with one instance on its files and with namespaces that keep
\* clear of its separator, is a KeyValueStore under any overlap of its calls,
\* failures and crashes (store.go:39-101, redis_store.go:43-90).
ActsAsStore == KV!Spec
=============================================================================
