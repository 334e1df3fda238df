------------------------------ MODULE HITLAudit ------------------------------
(***************************************************************************)
(* The hash-chained approval log (agent/hitl_audit.go): the loggers that   *)
(* append to one JSONL file, and the verifier run before an agent starts   *)
(* and by cmd/deepagent-audit.                                             *)
(*                                                                         *)
(* Every agent that finds DEEPAGENT_HITL_AUDIT_FILE set makes a logger of  *)
(* its own, with its own mutex and its own copy of the last hash.  A       *)
(* logger reads the file once, before its first entry.  It and the other   *)
(* loggers can be interleaved between that and the append, and the process *)
(* can die in the middle of an append.                                     *)
(***************************************************************************)
EXTENDS Naturals, FiniteSets, SequencesExt

CONSTANTS
    Loggers,        \* the FileHITLAuditLogger instances on the file
    Threads,        \* the values of thread_id, with None for the empty string
    Sizes,          \* {"short"}, or with "long": a line over Scanner's 64 KB
    VerifyOnStart,  \* those whose process has DEEPAGENT_HITL_AUDIT_VERIFY_ON_START
    MaxEntries,     \* bound on the entries offered to the loggers
    MaxClock,       \* bound on the wall clock
    Faults,         \* subset of {"crash", "torn", "write", "clock"}
    None,           \* an empty string
    Garbled         \* a line that is not JSON

ASSUME FaultsAssumption == Faults \subseteq {"crash", "torn", "write", "clock"}
ASSUME BoundsAssumption == MaxEntries \in Nat /\ MaxClock \in Nat
ASSUME SizesAssumption == Sizes \subseteq {"short", "long"} /\ VerifyOnStart \subseteq Loggers

\* What is hashed of an entry, prev_hash aside.  id tells entries apart and
\* stands for the fields no check reads.
Payloads == [id : Nat, thread : Threads, ts : Nat, size : {"short", "long"}]

(***************************************************************************)
(* SHA-256 is taken to be injective: the hash of an entry is the sequence  *)
(* of payloads it covers, its own last; "" is the empty sequence.          *)
(***************************************************************************)
Hashes == Seq(Payloads)
ComputeHash(prev, p) == Append(prev, p)

Lines == [payload : Payloads, prev : Hashes, hash : Hashes]
ASSUME GarbledAssumption == Garbled \notin Lines

VARIABLES
    file,      \* the lines of the file
    newline,   \* does its last line end in a newline?
    logger,    \* "absent", "open", or "writing": between lock and append
    loaded,    \* FileHITLAuditLogger.loaded
    lastHash,  \* FileHITLAuditLogger.lastHash
    pending,   \* the entry being written
    clock,     \* the wall clock
    offered,   \* how many entries callers have offered
    logged,    \* history: the payloads LogHITLEvent returned nil for, in order
    calm       \* history: no two loggers at once, no write cut short, no long
               \* line, no empty thread id, and no clock set back so far

logs == <<file, newline>>
vars == <<file, newline, logger, loaded, lastHash, pending, clock, offered, logged, calm>>

Init ==
    /\ file = <<>> /\ newline = TRUE
    /\ logger = [l \in Loggers |-> "absent"]
    /\ loaded = [l \in Loggers |-> FALSE]
    /\ lastHash = [l \in Loggers |-> <<>>]
    /\ pending = [l \in Loggers |-> None]
    /\ clock = 1 /\ offered = 0 /\ logged = <<>> /\ calm = TRUE

-----------------------------------------------------------------------------
(* Verification.  A Scanner gives up at a line that is too long.           *)

Readable(ls) == \A i \in DOMAIN ls : ls[i] # Garbled => ls[i].payload.size = "short"

HashBefore(ls, i) == IF i = 1 THEN <<>> ELSE ls[i - 1].hash
\* Mutant: a chain may start anywhere.
Chained_FromAnywhere(ls) ==
    \A i \in DOMAIN ls : /\ ls[i] # Garbled
                         /\ i = 1 \/ ls[i].prev = HashBefore(ls, i)
                         /\ ls[i].hash = ComputeHash(ls[i].prev, ls[i].payload)
Chained(ls) ==
    \A i \in DOMAIN ls : /\ ls[i] # Garbled
                         /\ ls[i].prev = HashBefore(ls, i)
                         /\ ls[i].hash = ComputeHash(ls[i].prev, ls[i].payload)

Strict(ls) ==
    \A i \in DOMAIN ls : /\ ls[i].payload.thread # None
                         /\ i > 1 => ls[i - 1].payload.ts <= ls[i].payload.ts

Verify(ls, strict) == Readable(ls) /\ Chained(ls) /\ (strict => Strict(ls))

-----------------------------------------------------------------------------
(* An agent with a logger starts; a damaged file keeps it from starting.   *)
Create(l) ==
    /\ logger[l] = "absent"
    /\ l \in VerifyOnStart => Verify(file, FALSE)
    /\ logger' = [logger EXCEPT ![l] = "open"]
    /\ loaded' = [loaded EXCEPT ![l] = FALSE]
    /\ lastHash' = [lastHash EXCEPT ![l] = <<>>]
    /\ calm' = (calm /\ \A other \in Loggers : logger[other] = "absent")
    /\ UNCHANGED <<logs, pending, clock, offered, logged>>

(***************************************************************************)
(* LogHITLEvent up to the append.  loaded is set before the file is read:  *)
(* when reading fails this entry is dropped, and the next one starts a     *)
(* chain of its own.                                                       *)
(***************************************************************************)
LoadFails == file # <<>> /\ (~Readable(file) \/ Last(file) = Garbled)
\* Mutant: the file is never read, as if each logger had it to itself.
LoadedHash_Unread(l) == lastHash[l]
LoadedHash(l) ==
    IF loaded[l] \/ file = <<>> THEN lastHash[l] ELSE Last(file).hash

Prepare(l) ==
    \E t \in Threads, s \in Sizes :
        /\ logger[l] = "open"
        /\ offered < MaxEntries
        /\ offered' = offered + 1
        /\ loaded' = [loaded EXCEPT ![l] = TRUE]
        /\ IF ~loaded[l] /\ LoadFails
           THEN UNCHANGED <<logger, lastHash, pending>>
           ELSE /\ lastHash' = [lastHash EXCEPT ![l] = LoadedHash(l)]
                /\ pending' = [pending EXCEPT ![l] =
                                 [id |-> offered, thread |-> t, ts |-> clock, size |-> s]]
                /\ logger' = [logger EXCEPT ![l] = "writing"]
        /\ calm' = (calm /\ t # None /\ s = "short")
        /\ UNCHANGED <<logs, clock, logged>>

Line(l) == [payload |-> pending[l], prev |-> lastHash[l],
            hash |-> ComputeHash(lastHash[l], pending[l])]

\* Bytes appended to a line without a newline turn it into garbage.
Glue(line) ==
    IF newline THEN Append(file, line) ELSE [file EXCEPT ![Len(file)] = Garbled]

Written(l) ==
    /\ file' = Glue(Line(l)) /\ newline' = TRUE
    /\ lastHash' = [lastHash EXCEPT ![l] = Line(l).hash]
    /\ logged' = Append(logged, pending[l])

\* LogHITLEvent returns and unlocks.
Release(l) ==
    /\ logger' = [logger EXCEPT ![l] = "open"]
    /\ pending' = [pending EXCEPT ![l] = None]

Write(l) ==
    /\ logger[l] = "writing"
    /\ Written(l)
    /\ Release(l)
    /\ UNCHANGED <<loaded, clock, offered, calm>>

\* A write that stops early leaves nothing, a fragment, or all but the newline.
WrittenInPart(l) ==
    \/ UNCHANGED <<logs, calm>>
    \/ file' = Glue(Garbled) /\ newline' = FALSE /\ calm' = FALSE
    \/ file' = Glue(Line(l)) /\ newline' = FALSE /\ calm' = FALSE

\* Mutant: the error of the write is dropped.
WriteFails_Acknowledged(l) ==
    /\ "write" \in Faults
    /\ logger[l] = "writing"
    /\ WrittenInPart(l)
    /\ Release(l)
    /\ logged' = Append(logged, pending[l])
    /\ UNCHANGED <<loaded, lastHash, clock, offered>>

WriteFails(l) ==
    /\ "write" \in Faults
    /\ logger[l] = "writing"
    /\ WrittenInPart(l)
    /\ Release(l)
    /\ UNCHANGED <<loaded, lastHash, clock, offered, logged>>

\* The logger's process dies.
Crash(l) ==
    /\ "crash" \in Faults
    /\ logger[l] # "absent"
    /\ IF logger[l] = "writing" /\ "torn" \in Faults THEN WrittenInPart(l)
                                                   ELSE UNCHANGED <<logs, calm>>
    /\ logger' = [logger EXCEPT ![l] = "absent"]
    /\ pending' = [pending EXCEPT ![l] = None]
    /\ UNCHANGED <<loaded, lastHash, clock, offered, logged>>

\* Time passes; with "clock" the wall clock may also be set back.
Tick ==
    /\ \E now \in 1..MaxClock : /\ now = clock + 1 \/ ("clock" \in Faults /\ now < clock)
                                /\ clock' = now
                                /\ calm' = (calm /\ now > clock)
    /\ UNCHANGED <<logs, logger, loaded, lastHash, pending, offered, logged>>

\* The bounds are used up, or the file keeps every agent from starting.
Stopped ==
    /\ clock = MaxClock
    /\ \A l \in Loggers : \/ logger[l] = "open" /\ offered = MaxEntries
                          \/ logger[l] = "absent" /\ l \in VerifyOnStart /\ ~Verify(file, FALSE)
    /\ UNCHANGED vars

Next ==
    \/ \E l \in Loggers : Create(l) \/ Prepare(l) \/ Write(l) \/ WriteFails(l) \/ Crash(l)
    \/ Tick
    \/ Stopped

Spec == Init /\ [][Next]_vars

-----------------------------------------------------------------------------
\* Every variable holds values of its kind.
TypeOK ==
    /\ file \in Seq(Lines \cup {Garbled})
    /\ newline \in BOOLEAN
    /\ file = <<>> => newline
    /\ logger \in [Loggers -> {"absent", "open", "writing"}]
    /\ loaded \in [Loggers -> BOOLEAN]
    /\ lastHash \in [Loggers -> Hashes]
    /\ pending \in [Loggers -> Payloads \cup {None}]
    /\ \A l \in Loggers : logger[l] = "writing" => pending[l] \in Payloads
    /\ clock \in Nat /\ offered \in Nat
    /\ logged \in Seq(Payloads)
    /\ calm \in BOOLEAN

\* README: VerifyHITLAuditFileChain detects tampering.  A file that only the
\* loggers have written to verifies: one logger at a time, whole writes and
\* lines a Scanner takes are needed for that (hitl_audit.go:51-114, 159-213).
UntamperedLogVerifies == Verify(file, FALSE)

\* As long as agents on the file run one after the other, each of their writes
\* is whole or absent, every entry has a thread id and the clock does not go
\* back, the log passes even the strict check, across crashes, failed writes
\* and restarts (hitl_audit.go:51-114, 215-248).
UntamperedLogVerifiesStrictly == calm => Verify(file, TRUE)

\* A file that verifies has lost nothing: it holds every entry for which
\* LogHITLEvent returned nil, in the order they were logged, whatever loggers,
\* partial writes and crashes came between (hitl_audit.go:76-80).
IsSubsequence(s, ls) ==
    \E at \in [DOMAIN s -> DOMAIN ls] :
        /\ \A i \in DOMAIN s : ls[at[i]].payload = s[i]
        /\ \A i, j \in DOMAIN s : i < j => at[i] < at[j]
VerifiedMeansComplete == Verify(file, FALSE) => IsSubsequence(logged, file)

\* Dropping a line that is not the last, exchanging two lines, or changing
\* what a line says is noticed (hitl_audit.go:180-200).
TamperingNoticed ==
    Chained(file) =>
        /\ \A i \in 1..(Len(file) - 1) : ~Chained(RemoveAt(file, i))
        /\ \A i, j \in DOMAIN file : i # j =>
               ~Chained([file EXCEPT ![i] = file[j], ![j] = file[i]])
        /\ \A i \in DOMAIN file :
               ~Chained([file EXCEPT ![i].payload.ts = @ + 1])
=============================================================================
