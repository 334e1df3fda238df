-------------------------- MODULE HITLAuditProofs --------------------------
(***************************************************************************)
(* Theorems about the hash-chained approval log, for every value of the    *)
(* constants of HITLAudit: any number of loggers, entries, crashes,        *)
(* partial writes and restarts.                                            *)
(***************************************************************************)
EXTENDS HITLAudit, TLAPS

Contents == Seq(Lines \cup {Garbled})

\* What the file is given by a write that is whole, or torn.
Given(l) == {Line(l), Garbled}

-----------------------------------------------------------------------------
\* A line that is written, or what is left of it.
LEMMA LinesWritten ==
    ASSUME TypeOK, NEW l \in Loggers, logger[l] = "writing"
    PROVE  /\ pending[l] \in Payloads /\ lastHash[l] \in Hashes
           /\ Line(l) \in Lines
           /\ Given(l) \subseteq Lines \cup {Garbled}
BY DEF TypeOK, Line, Lines, Hashes, ComputeHash, Given

\* Gluing gives a file that is not empty.
LEMMA GlueType ==
    ASSUME TypeOK, NEW line \in Lines \cup {Garbled}
    PROVE  /\ Glue(line) \in Contents /\ Glue(line) # <<>>
           /\ newline => Glue(line) = Append(file, line)
           /\ ~newline => /\ Len(file) \in DOMAIN Glue(line)
                          /\ Glue(line)[Len(file)] = Garbled
<1>1. file \in Contents
  BY DEF TypeOK, Contents
<1>2. CASE newline
  BY <1>1, <1>2 DEF Glue, Contents
<1>3. CASE ~newline
  <2>1. Len(file) \in 1..Len(file)
    BY <1>1, <1>3 DEF TypeOK, Contents
  <2>2. /\ [file EXCEPT ![Len(file)] = Garbled] \in Contents
        /\ DOMAIN [file EXCEPT ![Len(file)] = Garbled] = DOMAIN file
    BY <1>1, <2>1 DEF Contents
  <2> QED  BY <1>1, <1>3, <2>1, <2>2 DEF Glue, Contents
<1> QED  BY <1>2, <1>3 DEF TypeOK

\* Only a writing logger changes the file, and only a whole write logs an entry.
LEMMA LogSteps ==
    ASSUME TypeOK, [Next]_vars
    PROVE  \/ UNCHANGED <<logs, logged>>
           \/ \E l \in Loggers : \E line \in Given(l) :
                /\ logger[l] = "writing" /\ file' = Glue(line)
                /\ \/ logged' = logged
                   \/ line = Line(l) /\ logged' = Append(logged, pending[l])
<1>1. ASSUME NEW l \in Loggers, WrittenInPart(l), logger[l] = "writing", logged' = logged
      PROVE  UNCHANGED <<logs, logged>>
             \/ \E line \in Given(l) :
                  logger[l] = "writing" /\ file' = Glue(line) /\ logged' = logged
  BY <1>1 DEF WrittenInPart, Given, logs
<1>2. ASSUME NEW l \in Loggers, Write(l)
      PROVE  \E line \in Given(l) :
                /\ logger[l] = "writing" /\ file' = Glue(line)
                /\ line = Line(l) /\ logged' = Append(logged, pending[l])
  BY <1>2 DEF Write, Written, Given
<1>3. ASSUME NEW l \in Loggers, WriteFails(l) \/ Crash(l)
      PROVE  \/ UNCHANGED <<logs, logged>>
             \/ WrittenInPart(l) /\ logger[l] = "writing" /\ logged' = logged
  BY <1>3 DEF WriteFails, Crash, logs
<1>4. ASSUME NEW l \in Loggers, Create(l) \/ Prepare(l)
      PROVE  UNCHANGED <<logs, logged>>
  BY <1>4 DEF Create, Prepare
<1>5. (Tick \/ Stopped \/ UNCHANGED vars) => UNCHANGED <<logs, logged>>
  BY DEF Tick, Stopped, vars, logs
<1> QED  BY <1>1, <1>2, <1>3, <1>4, <1>5 DEF Next

-----------------------------------------------------------------------------
\* Every variable of the log, its loggers and their agents holds values of its
\* kind (hitl_audit.go:14-40).
THEOREM AuditTypeCorrect == Spec => []TypeOK
<1>1. Init => TypeOK
  BY DEF Init, TypeOK, Hashes
<1>2. TypeOK /\ [Next]_vars => TypeOK'
  <2> SUFFICES ASSUME TypeOK, [Next]_vars PROVE TypeOK'
    OBVIOUS
  <2>1. ASSUME NEW l \in Loggers, WrittenInPart(l), logger[l] = "writing"
        PROVE  /\ file' \in Contents /\ newline' \in BOOLEAN /\ (file' = <<>> => newline')
               /\ calm' \in BOOLEAN
    <3>1. CASE UNCHANGED <<logs, calm>>
      BY <3>1 DEF logs, TypeOK, Contents
    <3>2. CASE newline' = FALSE /\ calm' = FALSE /\ \E line \in Given(l) : file' = Glue(line)
      BY <2>1, <3>2, LinesWritten, GlueType
    <3> QED  BY <2>1, <3>1, <3>2 DEF WrittenInPart, Given
  <2>2. ASSUME NEW l \in Loggers, Create(l) PROVE TypeOK'
    <3>1. <<>> \in Hashes
      BY DEF Hashes
    <3> QED  BY <2>2, <3>1 DEF Create, logs, TypeOK
  <2>3. ASSUME NEW l \in Loggers, Prepare(l) PROVE TypeOK'
    <3>1. PICK t \in Threads, s \in Sizes : Prepare(l)!(t, s)
      BY <2>3 DEF Prepare
    <3> DEFINE entry == [id |-> offered, thread |-> t, ts |-> clock, size |-> s]
    <3>2. entry \in Payloads
      BY SizesAssumption DEF TypeOK, Payloads
    <3>3. ~LoadFails => LoadedHash(l) \in Hashes
      <4>1. CASE loaded[l] \/ file = <<>>
        BY <4>1 DEF LoadedHash, TypeOK
      <4>2. CASE ~LoadFails /\ ~loaded[l] /\ file # <<>>
        <5>1. Last(file) \in Lines
          BY <4>2 DEF LoadFails, Last, TypeOK
        <5> QED  BY <4>2, <5>1 DEF LoadedHash, Lines
      <4> QED  BY <4>1, <4>2
    <3>4. UNCHANGED <<file, newline, clock, logged>> /\ calm' \in BOOLEAN /\ offered' \in Nat
      BY <3>1 DEF logs, TypeOK
    <3>5. loaded' \in [Loggers -> BOOLEAN]
      BY <3>1 DEF TypeOK
    <3>6. CASE ~loaded[l] /\ LoadFails
      <4>1. UNCHANGED <<logger, lastHash, pending>>
        BY <3>1, <3>6
      <4> QED  BY <3>4, <3>5, <4>1 DEF TypeOK
    <3>7. CASE ~(~loaded[l] /\ LoadFails)
      <4>1. /\ lastHash' = [lastHash EXCEPT ![l] = LoadedHash(l)]
            /\ pending' = [pending EXCEPT ![l] = entry]
            /\ logger' = [logger EXCEPT ![l] = "writing"]
        BY <3>1, <3>7
      <4>2. LoadedHash(l) \in Hashes
        BY <3>3, <3>7 DEF LoadedHash, TypeOK
      <4> HIDE DEF entry
      <4> QED  BY <3>2, <3>4, <3>5, <4>1, <4>2 DEF TypeOK
    <3> QED  BY <3>6, <3>7
  <2>4. ASSUME NEW l \in Loggers, Write(l) PROVE TypeOK'
    <3>1. /\ logger[l] = "writing" /\ file' = Glue(Line(l)) /\ newline' = TRUE
          /\ lastHash' = [lastHash EXCEPT ![l] = Line(l).hash]
          /\ logged' = Append(logged, pending[l])
          /\ UNCHANGED <<loaded, clock, offered, calm>> /\ Release(l)
      BY <2>4 DEF Write, Written
    <3>2. file' \in Contents
      BY <3>1, LinesWritten, GlueType
    <3>3. Line(l).hash \in Hashes /\ pending[l] \in Payloads
      BY <3>1, LinesWritten DEF Lines
    <3> QED  BY <3>1, <3>2, <3>3 DEF Release, TypeOK, Contents
  <2>5. ASSUME NEW l \in Loggers, WriteFails(l) PROVE TypeOK'
    BY <2>1, <2>5 DEF WriteFails, Release, TypeOK, Contents
  <2>6. ASSUME NEW l \in Loggers, Crash(l) PROVE TypeOK'
    <3>1. /\ file' \in Contents /\ newline' \in BOOLEAN /\ (file' = <<>> => newline')
          /\ calm' \in BOOLEAN
      BY <2>1, <2>6 DEF Crash, TypeOK, logs, Contents
    <3> QED  BY <2>6, <3>1 DEF Crash, TypeOK, Contents
  <2>7. CASE Tick
    <3>1. clock' \in Nat /\ calm' \in BOOLEAN
      BY <2>7, BoundsAssumption DEF Tick, TypeOK
    <3> QED  BY <2>7, <3>1 DEF Tick, logs, TypeOK
  <2>8. CASE Stopped \/ UNCHANGED vars
    BY <2>8 DEF Stopped, vars, logs, TypeOK
  <2> QED  BY <2>2, <2>3, <2>4, <2>5, <2>6, <2>7, <2>8 DEF Next
<1> QED  BY <1>1, <1>2, PTL DEF Spec

-----------------------------------------------------------------------------
\* A file that verifies was appended to a file that verifies, by a write that
\* is whole: neither a torn line nor what is glued to one goes unnoticed.
LEMMA ChainedGlue ==
    ASSUME TypeOK, NEW line \in Lines \cup {Garbled}, Chained(Glue(line))
    PROVE  /\ Glue(line) = Append(file, line) /\ line # Garbled
           /\ Chained(file)
           /\ line.prev = HashBefore(Append(file, line), Len(file) + 1)
           /\ line.hash = ComputeHash(line.prev, line.payload)
<1>1. file \in Contents /\ Len(file) \in Nat
  BY DEF TypeOK, Contents
<1>2. Glue(line) = Append(file, line)
  <2>1. ~newline => FALSE
    BY GlueType DEF Chained
  <2> QED  BY <2>1, GlueType
<1> DEFINE new == Append(file, line)
<1>3. /\ DOMAIN new = 1..(Len(file) + 1) /\ DOMAIN file = 1..Len(file)
      /\ new[Len(file) + 1] = line
      /\ \A i \in 1..Len(file) : new[i] = file[i]
  BY <1>1 DEF Contents
<1>4. Chained(new)
  BY <1>2
<1>5. /\ line # Garbled
      /\ line.prev = HashBefore(new, Len(file) + 1)
      /\ line.hash = ComputeHash(line.prev, line.payload)
  <2>1. Len(file) + 1 \in DOMAIN new
    BY <1>1, <1>3
  <2> HIDE DEF new
  <2> QED  BY <1>3, <1>4, <2>1 DEF Chained
<1>6. Chained(file)
  <2> SUFFICES ASSUME NEW i \in 1..Len(file)
               PROVE  /\ file[i] # Garbled
                      /\ file[i].prev = HashBefore(file, i)
                      /\ file[i].hash = ComputeHash(file[i].prev, file[i].payload)
    BY <1>3 DEF Chained
  <2>1. i \in DOMAIN new /\ new[i] = file[i]
    BY <1>1, <1>3
  <2>2. HashBefore(new, i) = HashBefore(file, i)
    <3>1. i # 1 => i - 1 \in 1..Len(file)
      BY <1>1
    <3> HIDE DEF new
    <3> QED  BY <1>3, <3>1 DEF HashBefore
  <2> HIDE DEF new
  <2> QED  BY <1>4, <2>1, <2>2 DEF Chained
<1> QED  BY <1>2, <1>5, <1>6

LEMMA ReadableAppend ==
    ASSUME NEW ls \in Contents, NEW line \in Lines \cup {Garbled}, Readable(Append(ls, line))
    PROVE  Readable(ls) /\ (line # Garbled => line.payload.size = "short")
<1>1. /\ DOMAIN Append(ls, line) = 1..(Len(ls) + 1) /\ DOMAIN ls = 1..Len(ls) /\ Len(ls) \in Nat
      /\ Append(ls, line)[Len(ls) + 1] = line
      /\ \A i \in 1..Len(ls) : Append(ls, line)[i] = ls[i]
  BY DEF Contents
<1> QED  BY <1>1 DEF Readable

-----------------------------------------------------------------------------
\* What was logged stays in the file: the next entry goes behind the others.
LEMMA SubsequenceGrows ==
    ASSUME NEW s, s \in Seq(Payloads), NEW ls, ls \in Contents, NEW line, line \in Lines,
           IsSubsequence(s, ls)
    PROVE  /\ IsSubsequence(s, Append(ls, line))
           /\ IsSubsequence(Append(s, line.payload), Append(ls, line))
<1>1. PICK at \in [DOMAIN s -> DOMAIN ls] :
        /\ \A i \in DOMAIN s : ls[at[i]].payload = s[i]
        /\ \A i, j \in DOMAIN s : i < j => at[i] < at[j]
  BY DEF IsSubsequence
<1> DEFINE new == Append(ls, line)
           then == Append(s, line.payload)
           more == [i \in 1..(Len(s) + 1) |-> IF i <= Len(s) THEN at[i] ELSE Len(ls) + 1]
<1>2. line.payload \in Payloads
  BY DEF Lines
<1>3. /\ Len(s) \in Nat /\ DOMAIN s = 1..Len(s) /\ Len(ls) \in Nat /\ DOMAIN ls = 1..Len(ls)
      /\ DOMAIN new = 1..(Len(ls) + 1) /\ new[Len(ls) + 1] = line
      /\ \A i \in 1..Len(ls) : new[i] = ls[i]
  BY DEF Contents
<1>4. /\ DOMAIN then = 1..(Len(s) + 1) /\ then[Len(s) + 1] = line.payload
      /\ \A i \in 1..Len(s) : then[i] = s[i]
  BY <1>2
<1>5. \A i \in 1..Len(s) : at[i] \in 1..Len(ls)
  BY <1>1, <1>3
<1> HIDE DEF new, then
<1>6. IsSubsequence(s, new)
  <2>1. at \in [DOMAIN s -> DOMAIN new]
    BY <1>1, <1>3, <1>5
  <2>2. \A i \in DOMAIN s : new[at[i]].payload = s[i]
    BY <1>1, <1>3, <1>5
  <2> QED  BY <1>1, <2>1, <2>2 DEF IsSubsequence
<1>7. IsSubsequence(then, new)
  <2>1. /\ more[Len(s) + 1] = Len(ls) + 1
        /\ \A i \in 1..Len(s) : more[i] = at[i]
        /\ \A i \in 1..(Len(s) + 1) : i \in 1..Len(s) \/ i = Len(s) + 1
    BY <1>3
  <2>2. more \in [DOMAIN then -> DOMAIN new]
    BY <1>3, <1>4, <1>5
  <2> HIDE DEF more
  <2>3. \A i \in DOMAIN then : new[more[i]].payload = then[i]
    BY <1>1, <1>3, <1>4, <1>5, <2>1
  <2>4. ASSUME NEW i \in DOMAIN then, NEW j \in DOMAIN then, i < j
        PROVE  more[i] < more[j]
    <3>1. i \in 1..Len(s)
      BY <1>3, <1>4, <2>4
    <3>2. CASE j \in 1..Len(s)
      BY <1>1, <1>3, <2>1, <2>4, <3>1, <3>2
    <3>3. CASE j = Len(s) + 1
      BY <1>3, <1>5, <2>1, <3>1, <3>3
    <3> QED  BY <1>4, <2>1, <3>2, <3>3
  <2> QED  BY <2>2, <2>3, <2>4 DEF IsSubsequence
<1> QED  BY <1>6, <1>7 DEF new, then

\* A file that verifies has lost nothing: it holds every entry for which
\* LogHITLEvent returned nil, in the order they were logged, whatever loggers,
\* partial writes and crashes came between (hitl_audit.go:76-80).
THEOREM NothingLost == Spec => []VerifiedMeansComplete
<1>1. Init => VerifiedMeansComplete
  <2> SUFFICES ASSUME Init PROVE IsSubsequence(logged, file)
    BY DEF VerifiedMeansComplete
  <2>1. logged = <<>> /\ file = <<>>
    BY DEF Init
  <2>2. <<>> \in [DOMAIN <<>> -> DOMAIN <<>>] /\ DOMAIN <<>> = {}
    OBVIOUS
  <2> QED  BY <2>1, <2>2 DEF IsSubsequence
<1>2. TypeOK /\ VerifiedMeansComplete /\ [Next]_vars => VerifiedMeansComplete'
  <2> SUFFICES ASSUME TypeOK, VerifiedMeansComplete, [Next]_vars, Verify(file', FALSE)
               PROVE  IsSubsequence(logged', file')
    BY DEF VerifiedMeansComplete
  <2>1. CASE UNCHANGED <<logs, logged>>
    BY <2>1 DEF VerifiedMeansComplete, logs
  <2>2. ASSUME NEW l \in Loggers, NEW line \in Given(l), logger[l] = "writing",
               file' = Glue(line),
               \/ logged' = logged
               \/ line = Line(l) /\ logged' = Append(logged, pending[l])
        PROVE  IsSubsequence(logged', file')
    <3>1. line \in Lines \cup {Garbled} /\ file \in Contents /\ logged \in Seq(Payloads)
      BY <2>2, LinesWritten DEF TypeOK, Contents
    <3>2. Chained(Glue(line)) /\ Readable(Glue(line))
      BY <2>2 DEF Verify
    <3>3. Glue(line) = Append(file, line) /\ line # Garbled /\ Chained(file)
      BY <3>1, <3>2, ChainedGlue
    <3>4. Readable(file)
      BY <3>1, <3>2, <3>3, ReadableAppend
    <3>5. IsSubsequence(logged, file)
      BY <3>3, <3>4 DEF VerifiedMeansComplete, Verify
    <3>6. line \in Lines /\ (line = Line(l) => line.payload = pending[l])
      BY <3>1, <3>3 DEF Line
    <3>7. /\ IsSubsequence(logged, Append(file, line))
          /\ IsSubsequence(Append(logged, line.payload), Append(file, line))
      BY <3>1, <3>5, <3>6, SubsequenceGrows
    <3> QED  BY <2>2, <3>3, <3>6, <3>7
  <2> QED  BY <2>1, <2>2, LogSteps
<1> QED  BY <1>1, <1>2, AuditTypeCorrect, PTL DEF Spec

-----------------------------------------------------------------------------
\* In a chain the hash of a line covers as many entries as there are lines up
\* to it, so that a line fits in one place only.
LengthsTell == Chained(file) => \A i \in DOMAIN file : Len(file[i].hash) = i

LEMMA LengthsStep ==
    ASSUME TypeOK, LengthsTell, [Next]_vars
    PROVE  LengthsTell'
<1>1. CASE UNCHANGED <<logs, logged>>
  BY <1>1 DEF LengthsTell, logs
<1>2. ASSUME NEW l \in Loggers, NEW line \in Given(l), logger[l] = "writing",
             file' = Glue(line), Chained(file')
      PROVE  \A i \in DOMAIN file' : Len(file'[i].hash) = i
  <2>1. line \in Lines \cup {Garbled} /\ file \in Contents
    BY <1>2, LinesWritten DEF TypeOK, Contents
  <2> DEFINE new == Append(file, line)
  <2>2. /\ file' = new /\ Chained(file) /\ line \in Lines
        /\ line.prev = HashBefore(new, Len(file) + 1)
        /\ line.hash = Append(line.prev, line.payload)
    BY <1>2, <2>1, ChainedGlue DEF ComputeHash
  <2>3. /\ Len(file) \in Nat /\ DOMAIN file = 1..Len(file) /\ DOMAIN new = 1..(Len(file) + 1)
        /\ new[Len(file) + 1] = line /\ \A i \in 1..Len(file) : new[i] = file[i]
    BY <2>1 DEF Contents
  <2> HIDE DEF new
  <2>4. \A i \in 1..Len(file) : Len(new[i].hash) = i
    BY <2>2, <2>3 DEF LengthsTell
  <2>5. Len(line.prev) = Len(file)
    <3>1. CASE Len(file) = 0
      BY <2>2, <3>1 DEF HashBefore
    <3>2. CASE Len(file) # 0
      <4>1. Len(file) \in 1..Len(file) /\ Len(file) + 1 # 1 /\ Len(file) + 1 - 1 = Len(file)
        BY <2>3, <3>2
      <4> QED  BY <2>2, <2>4, <4>1 DEF HashBefore
    <3> QED  BY <3>1, <3>2
  <2>6. Len(line.hash) = Len(file) + 1
    BY <2>2, <2>5 DEF Lines, Hashes
  <2> QED  BY <2>2, <2>3, <2>4, <2>6
<1> QED  BY <1>1, <1>2, LogSteps DEF LengthsTell

\* Dropping a line that is not the last, exchanging two lines, or changing
\* what a line says is noticed (hitl_audit.go:180-200).
THEOREM TamperingShows == Spec => []TamperingNoticed
<1>1. Init => LengthsTell
  BY DEF Init, LengthsTell
<1>2. TypeOK /\ LengthsTell => TamperingNoticed
  <2> SUFFICES ASSUME TypeOK, LengthsTell, Chained(file)
               PROVE  /\ \A i \in 1..(Len(file) - 1) : ~Chained(RemoveAt(file, i))
                      /\ \A i, j \in DOMAIN file : i # j =>
                             ~Chained([file EXCEPT ![i] = file[j], ![j] = file[i]])
                      /\ \A i \in DOMAIN file : ~Chained([file EXCEPT ![i].payload.ts = @ + 1])
    BY DEF TamperingNoticed
  <2>1. file \in Contents /\ Len(file) \in Nat /\ DOMAIN file = 1..Len(file)
    BY DEF TypeOK, Contents
  <2>2. \A i \in 1..Len(file) :
          /\ file[i] \in Lines
          /\ file[i].hash = Append(file[i].prev, file[i].payload) /\ Len(file[i].hash) = i
          /\ Len(file[i].prev) = i - 1
    <3> SUFFICES ASSUME NEW i \in 1..Len(file)
                 PROVE  /\ file[i] \in Lines
                        /\ file[i].hash = Append(file[i].prev, file[i].payload)
                        /\ Len(file[i].hash) = i /\ Len(file[i].prev) = i - 1
      OBVIOUS
    <3>1. file[i] # Garbled /\ file[i].hash = Append(file[i].prev, file[i].payload)
      BY <2>1 DEF Chained, ComputeHash
    <3>2. file[i] \in Lines /\ Len(file[i].hash) = i
      BY <2>1, <3>1 DEF Contents, LengthsTell
    <3> QED  BY <3>1, <3>2 DEF Lines, Hashes
  \* A line finds behind itself the hash of another place.
  <2>3. ASSUME NEW ls, NEW k \in DOMAIN ls, NEW j \in 1..Len(file), ls[k] = file[j],
               k # 1 => k - 1 \in 1..Len(file) /\ ls[k - 1] = file[k - 1],
               k < j, k \in Nat
        PROVE  ~Chained(ls)
    <3> SUFFICES ASSUME Chained(ls) PROVE FALSE
      OBVIOUS
    <3>1. file[j].prev = HashBefore(ls, k)
      BY <2>3 DEF Chained
    <3>2. Len(HashBefore(ls, k)) = k - 1
      BY <2>2, <2>3 DEF HashBefore
    <3> QED  BY <2>2, <2>3, <3>1, <3>2
  <2>4. ASSUME NEW i \in 1..(Len(file) - 1)
        PROVE  ~Chained(RemoveAt(file, i))
    <3> DEFINE ls == RemoveAt(file, i)
    <3>1. /\ i \in 1..Len(file) /\ i + 1 \in 1..Len(file) /\ i \in DOMAIN ls
          /\ ls[i] = file[i + 1] /\ (i # 1 => ls[i - 1] = file[i - 1])
      BY <2>1 DEF RemoveAt, Contents
    <3> HIDE DEF ls
    <3>2. i # 1 => i - 1 \in 1..Len(file)
      BY <2>1, <3>1
    <3>3. i < i + 1 /\ i \in Nat
      OBVIOUS
    <3>4. ~Chained(ls)
      BY <2>3, <3>1, <3>2, <3>3
    <3> QED  BY <3>4 DEF ls
  <2>5. ASSUME NEW i \in DOMAIN file, NEW j \in DOMAIN file, i < j
        PROVE  \A ls : /\ DOMAIN ls = DOMAIN file /\ ls[i] = file[j]
                       /\ \A k \in DOMAIN file : k # i /\ k # j => ls[k] = file[k]
                       => ~Chained(ls)
    <3> TAKE ls
    <3> HAVE /\ DOMAIN ls = DOMAIN file /\ ls[i] = file[j]
             /\ \A k \in DOMAIN file : k # i /\ k # j => ls[k] = file[k]
    <3>1. i # 1 => i - 1 \in 1..Len(file) /\ i - 1 # i /\ i - 1 # j
      BY <2>1, <2>5
    <3>2. i # 1 => i - 1 \in 1..Len(file) /\ ls[i - 1] = file[i - 1]
      BY <2>1, <3>1
    <3>3. i \in Nat /\ i \in DOMAIN ls /\ j \in 1..Len(file)
      BY <2>1
    <3> QED  BY <2>3, <2>5, <3>2, <3>3
  <2>6. ASSUME NEW i \in DOMAIN file, NEW j \in DOMAIN file, i # j
        PROVE  ~Chained([file EXCEPT ![i] = file[j], ![j] = file[i]])
    <3> DEFINE ls == [file EXCEPT ![i] = file[j], ![j] = file[i]]
    <3>1. /\ DOMAIN ls = DOMAIN file /\ ls[i] = file[j] /\ ls[j] = file[i]
          /\ \A k \in DOMAIN file : k # i /\ k # j => ls[k] = file[k]
      BY <2>1, <2>6 DEF Contents
    <3> HIDE DEF ls
    <3>2. i < j \/ j < i
      BY <2>1, <2>6
    <3>3. ~Chained(ls)
      BY <2>5, <3>1, <3>2
    <3> QED  BY <3>3 DEF ls
  <2>7. ASSUME NEW i \in DOMAIN file
        PROVE  ~Chained([file EXCEPT ![i].payload.ts = @ + 1])
    <3> DEFINE ls == [file EXCEPT ![i].payload.ts = @ + 1]
    <3>1. file[i] \in Lines /\ file[i].hash = Append(file[i].prev, file[i].payload)
          /\ file[i].payload.ts \in Nat /\ file[i].payload \in Payloads
      BY <2>1, <2>2 DEF Lines, Payloads
    <3>2. /\ i \in DOMAIN ls /\ ls[i].prev = file[i].prev /\ ls[i].hash = file[i].hash
          /\ ls[i].payload.ts = file[i].payload.ts + 1
          /\ ls[i].payload \in Payloads
      <4>1. i \in DOMAIN ls /\ ls[i] = [file[i] EXCEPT !.payload.ts = @ + 1]
        BY <2>1
      <4>2. ls[i].payload = [file[i].payload EXCEPT !.ts = @ + 1]
            /\ ls[i].prev = file[i].prev /\ ls[i].hash = file[i].hash
        BY <3>1, <4>1 DEF Lines
      <4>3. [file[i].payload EXCEPT !.ts = @ + 1] \in Payloads
            /\ [file[i].payload EXCEPT !.ts = @ + 1].ts = file[i].payload.ts + 1
        BY <3>1 DEF Payloads
      <4> QED  BY <4>1, <4>2, <4>3
    <3> HIDE DEF ls
    <3>3. ASSUME Chained(ls) PROVE FALSE
      <4>1. file[i].hash = Append(file[i].prev, ls[i].payload)
        BY <3>2, <3>3 DEF Chained, ComputeHash
      <4>2. /\ file[i].prev \in Seq(Payloads)
            /\ Append(file[i].prev, file[i].payload) = Append(file[i].prev, ls[i].payload)
        BY <3>1, <4>1 DEF Lines, Hashes
      <4>3. /\ Append(file[i].prev, file[i].payload)[Len(file[i].prev) + 1] = file[i].payload
            /\ Append(file[i].prev, ls[i].payload)[Len(file[i].prev) + 1] = ls[i].payload
        BY <3>1, <3>2, <4>2
      <4> QED  BY <3>1, <3>2, <4>2, <4>3
    <3> QED  BY <3>3 DEF ls
  <2> QED  BY <2>4, <2>6, <2>7
<1>3. TypeOK /\ LengthsTell /\ [Next]_vars => LengthsTell'
  BY LengthsStep
<1> QED  BY <1>1, <1>2, <1>3, AuditTypeCorrect, PTL DEF Spec

-----------------------------------------------------------------------------
\* The hash the next line has to name.
LastHash == HashBefore(file, Len(file) + 1)
LaterThan(ts) == file # <<>> => Last(file).payload.ts <= ts

\* While all is calm at most one logger is there, and once it has looked it
\* knows the last hash; what it is writing comes after what is written.
CalmInv ==
    calm =>
        /\ newline /\ Verify(file, TRUE) /\ LaterThan(clock)
        /\ \A l, m \in Loggers : l # m => logger[l] = "absent" \/ logger[m] = "absent"
        /\ \A l \in Loggers : logger[l] # "absent" =>
               lastHash[l] = IF loaded[l] THEN LastHash ELSE <<>>
        /\ \A l \in Loggers : logger[l] = "writing" =>
               /\ loaded[l]
               /\ pending[l].thread # None /\ pending[l].size = "short"
               /\ LaterThan(pending[l].ts) /\ pending[l].ts <= clock

\* A line that continues a log makes a log that verifies.
LEMMA VerifyAppend ==
    ASSUME NEW ls \in Contents, NEW line \in Lines, Verify(ls, TRUE),
           line.prev = HashBefore(ls, Len(ls) + 1),
           line.hash = ComputeHash(line.prev, line.payload),
           line.payload.thread # None, line.payload.size = "short",
           ls # <<>> => Last(ls).payload.ts <= line.payload.ts
    PROVE  /\ Verify(Append(ls, line), TRUE)
           /\ HashBefore(Append(ls, line), Len(Append(ls, line)) + 1) = line.hash
           /\ Last(Append(ls, line)) = line
<1> DEFINE new == Append(ls, line)
<1>1. /\ Len(ls) \in Nat /\ DOMAIN ls = 1..Len(ls) /\ Len(new) = Len(ls) + 1
      /\ DOMAIN new = 1..(Len(ls) + 1) /\ new[Len(ls) + 1] = line
      /\ \A i \in 1..Len(ls) : new[i] = ls[i]
      /\ \A i \in 1..(Len(ls) + 1) : i \in 1..Len(ls) \/ i = Len(ls) + 1
  BY DEF Contents
<1> HIDE DEF new
<1>2. ASSUME NEW i \in 1..(Len(ls) + 1)
      PROVE  HashBefore(new, i) = HashBefore(ls, i)
  <2>1. i # 1 => i - 1 \in 1..Len(ls)
    BY <1>1
  <2> QED  BY <1>1, <2>1 DEF HashBefore
<1>3. Chained(new)
  <2>1. line # Garbled
    BY GarbledAssumption
  <2> QED  BY <1>1, <1>2, <2>1 DEF Verify, Chained
<1>4. Readable(new)
  BY <1>1 DEF Verify, Readable
<1>5. Strict(new)
  <2>1. Strict(ls)
    BY DEF Verify
  <2>2. ASSUME NEW i \in 1..(Len(ls) + 1), i > 1
        PROVE  new[i - 1].payload.ts <= new[i].payload.ts
    <3>1. i - 1 \in 1..Len(ls) /\ new[i - 1] = ls[i - 1]
      BY <1>1, <2>2
    <3>2. CASE i \in 1..Len(ls)
      BY <1>1, <2>1, <2>2, <3>1, <3>2 DEF Strict
    <3>3. CASE i = Len(ls) + 1
      <4>1. ls # <<>> /\ Last(ls) = ls[i - 1]
        BY <1>1, <3>1, <3>3 DEF Last
      <4> QED  BY <1>1, <3>1, <3>3, <4>1
    <3> QED  BY <1>1, <3>2, <3>3
  <2> QED  BY <1>1, <2>1, <2>2 DEF Strict
<1>6. Last(new) = line
  BY <1>1 DEF Last
<1>7. HashBefore(new, Len(new) + 1) = line.hash
  <2>1. Len(new) + 1 # 1 /\ Len(new) + 1 - 1 = Len(ls) + 1
    BY <1>1
  <2> QED  BY <1>1, <2>1 DEF HashBefore
<1> QED  BY <1>3, <1>4, <1>5, <1>6, <1>7 DEF Verify, new

LEMMA CalmStep ==
    ASSUME TypeOK, CalmInv, [Next]_vars, calm'
    PROVE  CalmInv'
<1>1. CASE UNCHANGED vars
  BY <1>1 DEF vars, CalmInv, LastHash, LaterThan
<1>2. ASSUME NEW l \in Loggers, Create(l) PROVE CalmInv'
  BY <1>2 DEF Create, logs, TypeOK, CalmInv, LastHash, LaterThan
<1>3. ASSUME NEW l \in Loggers, Prepare(l) PROVE CalmInv'
  <2>1. PICK t \in Threads, s \in Sizes : Prepare(l)!(t, s)
    BY <1>3 DEF Prepare
  <2> DEFINE entry == [id |-> offered, thread |-> t, ts |-> clock, size |-> s]
  <2>2. calm /\ t # None /\ s = "short" /\ logger[l] = "open"
    BY <2>1
  <2>3. file \in Contents /\ Len(file) \in Nat /\ DOMAIN file = 1..Len(file)
    BY DEF TypeOK, Contents
  <2>4. file # <<>> => Last(file) # Garbled /\ Last(file).hash = LastHash
    <3> SUFFICES ASSUME file # <<>> PROVE Last(file) # Garbled /\ Last(file).hash = LastHash
      OBVIOUS
    <3>1. Len(file) \in DOMAIN file /\ Last(file) = file[Len(file)]
      BY <2>3 DEF Last, Contents
    <3>2. Len(file) + 1 # 1 /\ Len(file) + 1 - 1 = Len(file)
      BY <2>3, <3>1
    <3> QED  BY <2>2, <3>1, <3>2 DEF CalmInv, Verify, Chained, LastHash, HashBefore
  <2>5. ~LoadFails
    BY <2>2, <2>4 DEF LoadFails, CalmInv, Verify
  <2>6. LoadedHash(l) = LastHash
    <3>1. file = <<>> => LastHash = <<>>
      BY <2>3 DEF LastHash, HashBefore
    <3> QED  BY <2>2, <2>4, <3>1 DEF LoadedHash, CalmInv
  <2>7. /\ lastHash' = [lastHash EXCEPT ![l] = LastHash]
        /\ pending' = [pending EXCEPT ![l] = entry]
        /\ logger' = [logger EXCEPT ![l] = "writing"]
        /\ loaded' = [loaded EXCEPT ![l] = TRUE]
        /\ UNCHANGED <<file, newline, clock>>
    BY <2>1, <2>5, <2>6 DEF logs
  <2>8. entry.thread # None /\ entry.size = "short" /\ entry.ts = clock /\ clock <= clock
    BY <2>2 DEF TypeOK
  <2> HIDE DEF entry
  <2>9. LastHash' = LastHash
    BY <2>7 DEF LastHash
  <2>10. /\ newline' /\ Verify(file', TRUE) /\ LaterThan(clock)'
         /\ \A k, m \in Loggers : k # m => logger'[k] = "absent" \/ logger'[m] = "absent"
    BY <2>2, <2>7 DEF CalmInv, LaterThan, TypeOK
  <2>11. \A m \in Loggers : logger'[m] # "absent" =>
               lastHash'[m] = IF loaded'[m] THEN LastHash' ELSE <<>>
    BY <2>2, <2>7, <2>9 DEF CalmInv, TypeOK
  <2>12. \A m \in Loggers : logger'[m] = "writing" =>
               /\ loaded'[m]
               /\ pending'[m].thread # None /\ pending'[m].size = "short"
               /\ LaterThan(pending[m].ts)' /\ pending'[m].ts <= clock'
    BY <2>2, <2>7, <2>8 DEF CalmInv, LaterThan, TypeOK
  <2> QED  BY <2>10, <2>11, <2>12 DEF CalmInv
<1>4. ASSUME NEW l \in Loggers, Write(l) PROVE CalmInv'
  <2>1. /\ calm /\ logger[l] = "writing" /\ file' = Append(file, Line(l)) /\ newline'
        /\ logger' = [logger EXCEPT ![l] = "open"]
        /\ lastHash' = [lastHash EXCEPT ![l] = Line(l).hash]
        /\ UNCHANGED <<loaded, clock>>
    BY <1>4 DEF Write, Written, Release, CalmInv, Glue
  <2>2. /\ file \in Contents /\ Line(l) \in Lines /\ loaded[l]
        /\ Line(l).prev = LastHash /\ Line(l).payload = pending[l]
        /\ Line(l).hash = ComputeHash(Line(l).prev, Line(l).payload)
    BY <2>1, LinesWritten DEF TypeOK, Contents, Line, CalmInv
  <2>3. /\ Verify(file, TRUE) /\ pending[l].thread # None /\ pending[l].size = "short"
        /\ file # <<>> => Last(file).payload.ts <= pending[l].ts
    BY <2>1 DEF CalmInv, LaterThan
  <2>4. /\ Verify(file', TRUE) /\ LastHash' = Line(l).hash /\ Last(file') = Line(l)
    BY <2>1, <2>2, <2>3, VerifyAppend DEF LastHash
  <2>5. LaterThan(clock)'
    BY <2>1, <2>2, <2>4 DEF LaterThan, CalmInv
  <2>6. \A m \in Loggers : m # l => logger'[m] = "absent"
    BY <2>1 DEF CalmInv, TypeOK
  <2>7. logger'[l] = "open" /\ lastHash'[l] = Line(l).hash /\ loaded'[l]
    BY <2>1, <2>2 DEF TypeOK
  <2> QED  BY <2>1, <2>4, <2>5, <2>6, <2>7 DEF CalmInv
<1>5. ASSUME NEW l \in Loggers, NEW then \in {"open", "absent"}, UNCHANGED <<logs, calm>>,
             logger' = [logger EXCEPT ![l] = then], logger[l] # "absent",
             UNCHANGED <<loaded, lastHash, clock>>,
             \A m \in Loggers : m # l => pending'[m] = pending[m]
      PROVE  CalmInv'
  <2>1. calm /\ UNCHANGED <<file, newline>> /\ LastHash' = LastHash
    BY <1>5 DEF logs, LastHash
  <2>2. logger'[l] # "writing" /\ \A m \in Loggers : m # l => logger'[m] = logger[m]
    BY <1>5 DEF TypeOK
  <2>3. /\ newline' /\ Verify(file', TRUE) /\ LaterThan(clock)'
        /\ \A k, m \in Loggers : k # m => logger'[k] = "absent" \/ logger'[m] = "absent"
    BY <1>5, <2>1, <2>2 DEF CalmInv, LaterThan
  <2>4. \A m \in Loggers : logger'[m] # "absent" =>
               lastHash'[m] = IF loaded'[m] THEN LastHash' ELSE <<>>
    BY <1>5, <2>1, <2>2 DEF CalmInv
  <2>5. \A m \in Loggers : logger'[m] = "writing" =>
               /\ loaded'[m]
               /\ pending'[m].thread # None /\ pending'[m].size = "short"
               /\ LaterThan(pending[m].ts)' /\ pending'[m].ts <= clock'
    BY <1>5, <2>1, <2>2 DEF CalmInv, LaterThan
  <2> QED  BY <2>3, <2>4, <2>5 DEF CalmInv
<1>6. ASSUME NEW l \in Loggers, WriteFails(l) \/ Crash(l) PROVE CalmInv'
  <2>1. WrittenInPart(l) => UNCHANGED <<logs, calm>>
    BY DEF WrittenInPart
  <2>2. UNCHANGED <<logs, calm>> /\ UNCHANGED <<loaded, lastHash, clock>> /\ logger[l] # "absent"
    BY <1>6, <2>1 DEF WriteFails, Crash
  <2>3. pending' = [pending EXCEPT ![l] = None]
    BY <1>6 DEF WriteFails, Crash, Release
  <2>4. \A m \in Loggers : m # l => pending'[m] = pending[m]
    BY <2>3 DEF TypeOK
  <2>5. \E then \in {"open", "absent"} : logger' = [logger EXCEPT ![l] = then]
    BY <1>6 DEF WriteFails, Crash, Release
  <2> QED  BY <1>5, <2>2, <2>4, <2>5
<1>7. CASE Tick
  <2>1. /\ calm /\ clock' > clock /\ clock' \in Nat /\ clock \in Nat
        /\ UNCHANGED <<logs, logger, loaded, lastHash, pending>>
    <3>1. PICK now \in 1..MaxClock : clock' = now /\ calm' = (calm /\ now > clock)
      BY <1>7 DEF Tick
    <3>2. calm /\ now > clock
      BY <3>1
    <3> QED  BY <1>7, <3>1, <3>2, BoundsAssumption DEF Tick, TypeOK
  <2>2. LaterThan(clock)'
    <3>1. file # <<>> => Last(file).payload.ts \in Nat
      <4> SUFFICES ASSUME file # <<>> PROVE Last(file).payload.ts \in Nat
        OBVIOUS
      <4>1. Len(file) \in DOMAIN file /\ Last(file) = file[Len(file)]
        BY DEF Last, TypeOK
      <4>2. Last(file) \in Lines
        BY <2>1, <4>1 DEF CalmInv, Verify, Chained, TypeOK
      <4> QED  BY <4>2 DEF Lines, Payloads
    <3> QED  BY <2>1, <3>1 DEF LaterThan, CalmInv, logs
  <2>3. \A l \in Loggers : logger[l] = "writing" => pending[l].ts <= clock'
    <3>1. \A l \in Loggers : logger[l] = "writing" => pending[l].ts \in Nat
      BY DEF TypeOK, Payloads
    <3> QED  BY <2>1, <3>1 DEF CalmInv
  <2> QED  BY <2>1, <2>2, <2>3 DEF CalmInv, LastHash, LaterThan, logs
<1>8. CASE Stopped
  BY <1>1, <1>8 DEF Stopped
<1> QED  BY <1>1, <1>2, <1>3, <1>4, <1>6, <1>7, <1>8 DEF Next

\* As long as agents on the file run one after the other, each of their writes
\* is whole or absent, every entry has a thread id and the clock does not go
\* back, the log passes even the strict check, across crashes, failed writes
\* and restarts (hitl_audit.go:51-114, 215-248).
THEOREM CalmLogVerifies == Spec => []UntamperedLogVerifiesStrictly
<1>1. Init => CalmInv
  BY DEF Init, CalmInv, Verify, Readable, Chained, Strict, LaterThan
<1>2. TypeOK /\ CalmInv /\ [Next]_vars => CalmInv'
  <2>1. ~calm' => CalmInv'
    BY DEF CalmInv
  <2> QED  BY <2>1, CalmStep
<1>3. CalmInv => UntamperedLogVerifiesStrictly
  BY DEF CalmInv, UntamperedLogVerifiesStrictly
<1> QED  BY <1>1, <1>2, <1>3, AuditTypeCorrect, PTL DEF Spec

=============================================================================
