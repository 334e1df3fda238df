--------------------------- MODULE SubagentProofs ---------------------------
(***************************************************************************)
(* Theorems about the subagents of an agent, for every value of the        *)
(* constants of Subagent: any number of tasks, descriptions and rounds.    *)
(***************************************************************************)
EXTENDS Subagent, FiniteSetTheorems, TLAPS

LocalsOK ==
    /\ pc \in [Tasks -> Ended \cup {"idle", "running", "answered", "listed"}]
    /\ DOMAIN slug = Tasks
    /\ DOMAIN conv = Tasks /\ \A t \in Tasks : pc[t] # "idle" => conv[t] \in Conversations
    /\ DOMAIN listed = Tasks
    /\ blank \in Conversations \cup {Nothing}
    /\ files \in [Names -> Tasks \cup {Nothing}]

\* Two tasks that are under way at the same time are known to overlap.
Overlapping == \A t, u \in Tasks : t # u /\ Busy(t) /\ Busy(u) => {t, u} \in overlap

\* A file holds the result of a task that was merged.
MergedHold == \A n \in Names : files[n] # Nothing => pc[files[n]] = "merged"

\* A file that a task did not find when it looked was written by one that was
\* under way with it; what it found is there.
ListsTrue ==
    \A t \in Tasks : pc[t] = "listed" =>
        \A n \in Names :
            /\ n \in listed[t] => files[n] # Nothing
            /\ n \notin listed[t] /\ files[n] # Nothing => {files[n], t} \in overlap

FilesInv == LocalsOK /\ Overlapping /\ MergedHold /\ ListsTrue

-----------------------------------------------------------------------------
\* The conversation a subagent enters with.
LEMMA EnterOnTask ==
    ASSUME NEW t \in Tasks, NEW saved \in Conversations \cup {Nothing}
    PROVE  /\ Enter(t, saved) \in Conversations
           /\ Last(Enter(t, saved).inputs) = t
           /\ Enter(t, saved).iteration = IF saved = Nothing THEN 0 ELSE saved.iteration
<1>1. CASE saved = Nothing
  <2>1. <<t>> \in Seq(Tasks) /\ Last(<<t>>) = t
    BY DEF Last
  <2> QED  BY <1>1, <2>1 DEF Enter, Conversations
<1>2. CASE saved # Nothing
  <2>1. saved.inputs \in Seq(Tasks)
    BY <1>2 DEF Conversations
  <2>2. Append(saved.inputs, t) \in Seq(Tasks) /\ Last(Append(saved.inputs, t)) = t
    BY <2>1 DEF Last
  <2>3. /\ Enter(t, saved) \in Conversations
        /\ Enter(t, saved).inputs = Append(saved.inputs, t)
        /\ Enter(t, saved).iteration = saved.iteration
    BY <1>2, <2>1, <2>2 DEF Enter, Conversations
  <2> QED  BY <1>2, <2>2, <2>3
<1> QED  BY <1>1, <1>2

\* A round counts one more, and is about the same inputs.
LEMMA RoundCounts ==
    ASSUME LocalsOK, NEW t \in Tasks, Round(t)
    PROVE  /\ conv[t] \in Conversations /\ conv'[t] \in Conversations
           /\ conv'[t].inputs = conv[t].inputs /\ conv'[t].iteration = conv[t].iteration + 1
           /\ \A u \in Tasks : u # t => conv'[u] = conv[u]
           /\ DOMAIN conv' = Tasks /\ blank' = conv'[t]
<1>1. conv[t] \in Conversations
  BY DEF LocalsOK, Round
<1>2. conv' = [conv EXCEPT ![t].iteration = conv[t].iteration + 1]
  BY DEF Round
<1> QED  BY <1>1, <1>2 DEF LocalsOK, Conversations, Round

\* What the steps do to where the tasks are.
LEMMA Places ==
    ASSUME FilesInv, [Next]_vars
    PROVE  \/ UNCHANGED <<pc, overlap>>
           \/ \E t \in Tasks : \E then \in Ended \cup {"running", "answered", "listed"} :
                /\ pc' = [pc EXCEPT ![t] = then]
                /\ \/ Spawn(t) /\ pc[t] = "idle" /\ then = "running"
                      /\ overlap' = overlap \cup {{t, u} : u \in {u \in Tasks : Busy(u)}}
                   \/ /\ Busy(t) /\ overlap' = overlap
                      /\ \/ Round(t) /\ pc[t] = "running" /\ then \in {"running", "answered"}
                         \/ SubagentFails(t) /\ then = "failed"
                         \/ ListFiles(t) /\ pc[t] = "answered" /\ then = "listed"
                         \/ Merge(t) /\ pc[t] = "listed" /\ then = "merged"
                         \/ NoNameLeft(t) /\ then = "failed"
BY DEF Next, Step, Finished, Spawn, Round, SubagentFails, ListFiles, Merge, NoNameLeft, Go, Busy,
       Ended, vars

LEMMA LocalsStep ==
    ASSUME FilesInv, [Next]_vars
    PROVE  LocalsOK'
<1>1. CASE UNCHANGED vars
  BY <1>1 DEF FilesInv, LocalsOK, vars
<1>2. ASSUME NEW t \in Tasks, Spawn(t) PROVE LocalsOK'
  <2>1. Enter(t, blank) \in Conversations
    BY EnterOnTask DEF FilesInv, LocalsOK
  <2> QED  BY <1>2, <2>1 DEF Spawn, FilesInv, LocalsOK, Ended
<1>3. ASSUME NEW t \in Tasks, Round(t) PROVE LocalsOK'
  <2>1. /\ conv'[t] \in Conversations /\ \A u \in Tasks : u # t => conv'[u] = conv[u]
        /\ DOMAIN conv' = Tasks /\ blank' = conv'[t]
    BY <1>3, RoundCounts DEF FilesInv
  <2> QED  BY <1>3, <2>1 DEF Round, Go, FilesInv, LocalsOK, Ended
<1>4. ASSUME NEW t \in Tasks, SubagentFails(t) \/ ListFiles(t) \/ NoNameLeft(t) PROVE LocalsOK'
  BY <1>4 DEF SubagentFails, ListFiles, NoNameLeft, Go, FilesInv, LocalsOK, Ended
<1>5. ASSUME NEW t \in Tasks, Merge(t) PROVE LocalsOK'
  <2>1. files' \in [Names -> Tasks \cup {Nothing}]
    BY <1>5 DEF Merge, FilesInv, LocalsOK
  <2> QED  BY <1>5, <2>1 DEF Merge, Go, FilesInv, LocalsOK, Ended
<1> QED  BY <1>1, <1>2, <1>3, <1>4, <1>5 DEF Next, Step, Finished

LEMMA OverlappingStep ==
    ASSUME FilesInv, [Next]_vars
    PROVE  Overlapping' /\ overlap \subseteq overlap'
<1>1. CASE UNCHANGED <<pc, overlap>>
  BY <1>1 DEF FilesInv, Overlapping, Busy
<1>2. ASSUME NEW t \in Tasks, NEW then, pc' = [pc EXCEPT ![t] = then], Busy(t), overlap' = overlap
      PROVE  Overlapping' /\ overlap \subseteq overlap'
  BY <1>2 DEF FilesInv, LocalsOK, Overlapping, Busy
<1>3. ASSUME NEW t \in Tasks, NEW then, pc' = [pc EXCEPT ![t] = then], pc[t] = "idle",
             overlap' = overlap \cup {{t, u} : u \in {u \in Tasks : Busy(u)}}
      PROVE  Overlapping' /\ overlap \subseteq overlap'
  <2> SUFFICES ASSUME NEW u \in Tasks, NEW v \in Tasks, u # v, Busy(u)', Busy(v)'
               PROVE  {u, v} \in overlap'
    BY <1>3 DEF Overlapping
  <2>1. \A w \in Tasks : w # t => (Busy(w)' => Busy(w))
    BY <1>3 DEF FilesInv, LocalsOK, Busy
  <2>2. CASE u # t /\ v # t
    BY <1>3, <2>1, <2>2 DEF FilesInv, Overlapping
  <2>3. CASE u = t
    BY <1>3, <2>1, <2>3
  <2>4. CASE v = t
    <3>1. {u, v} = {t, u} /\ Busy(u)
      BY <2>1, <2>4
    <3> QED  BY <1>3, <3>1
  <2> QED  BY <2>2, <2>3, <2>4
<1> QED  BY <1>1, <1>2, <1>3, Places

\* The files change only where a task is merged, under a name that it did not
\* find and below which it found every other.
LEMMA MergeEffect ==
    ASSUME FilesInv, NEW t \in Tasks, Merge(t)
    PROVE  /\ pc[t] = "listed" /\ pc' = [pc EXCEPT ![t] = "merged"]
           /\ UNCHANGED <<listed, overlap>>
           /\ \/ files' = files
              \/ \E i \in 1..MaxSuffix :
                   LET n == <<slug[t], i>>
                   IN  /\ n \notin listed[t] /\ files' = [files EXCEPT ![n] = t]
                       /\ \A j \in 1..(i - 1) : <<slug[t], j>> \in listed[t]
<1>1. /\ pc[t] = "listed" /\ pc' = [pc EXCEPT ![t] = "merged"]
      /\ UNCHANGED <<listed, overlap>>
  BY DEF Merge, Go
<1>2. CASE files' # files
  <2>1. PICK n \in FreeNames(t) :
          (\A m \in FreeNames(t) : n[2] <= m[2]) /\ files' = [files EXCEPT ![n] = t]
    BY <1>2 DEF Merge
  <2>2. PICK i \in 1..MaxSuffix : n = <<slug[t], i>> /\ n \notin listed[t]
    BY <2>1 DEF FreeNames
  <2>3. ASSUME NEW j \in 1..(i - 1) PROVE <<slug[t], j>> \in listed[t]
    <3>1. j \in 1..MaxSuffix /\ ~(i <= j)
      BY BoundAssumption
    <3>2. <<slug[t], j>> \notin FreeNames(t)
      BY <2>1, <2>2, <3>1
    <3> QED  BY <3>1, <3>2 DEF FreeNames
  <2> QED  BY <1>1, <2>1, <2>2, <2>3
<1> QED  BY <1>1, <1>2

LEMMA FilesStep ==
    ASSUME FilesInv, [Next]_vars
    PROVE  FilesInv'
<1>1. LocalsOK' /\ Overlapping' /\ overlap \subseteq overlap'
  BY LocalsStep, OverlappingStep
<1>2. ASSUME NEW t \in Tasks, Merge(t)
      PROVE  MergedHold' /\ ListsTrue'
  <2>1. /\ pc[t] = "listed" /\ pc' = [pc EXCEPT ![t] = "merged"]
        /\ UNCHANGED <<listed, overlap>>
        /\ files' = files \/ \E n : files' = [files EXCEPT ![n] = t]
    BY <1>2, MergeEffect
  <2>2. \A n \in Names : files'[n] = files[n] \/ files'[n] = t
    BY <2>1 DEF FilesInv, LocalsOK
  <2>3. pc'[t] = "merged" /\ \A u \in Tasks : u # t => pc'[u] = pc[u]
    BY <2>1 DEF FilesInv, LocalsOK
  <2>4. MergedHold'
    BY <2>2, <2>3 DEF FilesInv, LocalsOK, MergedHold
  <2>5. ListsTrue'
    <3> SUFFICES ASSUME NEW u \in Tasks, pc'[u] = "listed", NEW n \in Names
                 PROVE  /\ n \in listed'[u] => files'[n] # Nothing
                        /\ n \notin listed'[u] /\ files'[n] # Nothing => {files'[n], u} \in overlap'
      BY DEF ListsTrue
    <3>1. u # t /\ pc[u] = "listed"
      BY <2>3
    <3>2. {t, u} \in overlap
      BY <2>1, <3>1 DEF FilesInv, Overlapping, Busy, Ended
    <3> QED  BY <2>1, <2>2, <3>1, <3>2, NothingAssumption DEF FilesInv, ListsTrue
  <2> QED  BY <2>4, <2>5
<1>3. ASSUME UNCHANGED files, \A t \in Tasks : ~Merge(t)
      PROVE  MergedHold' /\ ListsTrue'
  <2>1. MergedHold'
    <3>1. \A t \in Tasks : pc[t] = "merged" => pc'[t] = "merged"
      BY Places DEF FilesInv, LocalsOK, Busy, Ended
    <3> QED  BY <1>3, <3>1 DEF FilesInv, LocalsOK, MergedHold
  <2>2. ListsTrue'
    <3> SUFFICES ASSUME NEW t \in Tasks, pc'[t] = "listed", NEW n \in Names
                 PROVE  /\ n \in listed'[t] => files[n] # Nothing
                        /\ n \notin listed'[t] /\ files[n] # Nothing => {files[n], t} \in overlap'
      BY <1>3 DEF ListsTrue
    <3>1. CASE ListFiles(t)
      <4>1. listed'[t] = {m \in Names : files[m] # Nothing}
        BY <3>1 DEF ListFiles, FilesInv, LocalsOK
      <4> QED  BY <4>1
    <3>2. CASE pc[t] = "listed" /\ listed'[t] = listed[t]
      BY <1>1, <3>2 DEF FilesInv, ListsTrue
    <3>3. pc[t] = "listed" \/ ListFiles(t)
      BY Places DEF FilesInv, LocalsOK, Ended
    <3>4. listed'[t] = listed[t] \/ ListFiles(t)
      BY DEF Next, Step, Finished, Spawn, Round, SubagentFails, ListFiles, Merge, NoNameLeft, vars,
             FilesInv, LocalsOK
    <3> QED  BY <3>1, <3>2, <3>3, <3>4
  <2> QED  BY <2>1, <2>2
<1>4. files' = files \/ \E t \in Tasks : Merge(t)
  BY DEF Next, Step, Finished, Spawn, Round, SubagentFails, ListFiles, NoNameLeft, vars
<1> QED  BY <1>1, <1>2, <1>3, <1>4 DEF FilesInv

LEMMA FilesInit == Init => FilesInv
BY DEF Init, FilesInv, LocalsOK, Overlapping, MergedHold, ListsTrue, Busy, Ended

LEMMA FilesKept == Spec => []FilesInv
BY FilesInit, FilesStep, PTL DEF Spec

-----------------------------------------------------------------------------
\* Merging costs a task its result only where the two were under way at the
\* same time: listing the files and writing one are two steps
\* (subagent.go:46-62, 74-93).
THEOREM ResultsKept == Spec => MergedResultsKept
<1>1. FilesInv /\ [Next]_vars =>
        [\A n \in Names : files[n] # Nothing =>
           files'[n] = files[n] \/ {files[n], files'[n]} \in overlap]_files
  <2> SUFFICES ASSUME FilesInv, [Next]_vars, files' # files,
                      NEW n \in Names, files[n] # Nothing, files'[n] # files[n]
               PROVE  {files[n], files'[n]} \in overlap
    OBVIOUS
  <2>1. PICK t \in Tasks : Merge(t)
    BY DEF Next, Step, Finished, Spawn, Round, SubagentFails, ListFiles, NoNameLeft, vars
  <2>2. PICK i \in 1..MaxSuffix :
          <<slug[t], i>> \notin listed[t] /\ files' = [files EXCEPT ![<<slug[t], i>>] = t]
    BY <2>1, MergeEffect
  <2>3. n = <<slug[t], i>> /\ files'[n] = t
    BY <2>2 DEF FilesInv, LocalsOK
  <2>4. pc[t] = "listed" /\ n \notin listed[t]
    BY <2>1, <2>2, <2>3 DEF Merge
  <2> QED  BY <2>3, <2>4 DEF FilesInv, ListsTrue
<1> QED  BY <1>1, FilesKept, PTL DEF Spec, MergedResultsKept

\* A merge only fills the first gap: the files of a description are numbered
\* without holes (subagent.go:83-93).
THEOREM NamesDense == Spec => []NamesAreDense
<1>1. Init => NamesAreDense
  BY DEF Init, NamesAreDense
<1>2. FilesInv /\ NamesAreDense /\ [Next]_vars => NamesAreDense'
  <2> SUFFICES ASSUME FilesInv, NamesAreDense, [Next]_vars
               PROVE  NamesAreDense'
    OBVIOUS
  <2>1. CASE files' = files
    BY <2>1 DEF NamesAreDense
  <2>2. CASE files' # files
    <3>1. PICK t \in Tasks : Merge(t)
      BY <2>2 DEF Next, Step, Finished, Spawn, Round, SubagentFails, ListFiles, NoNameLeft, vars
    <3>2. PICK k \in 1..MaxSuffix :
            /\ files' = [files EXCEPT ![<<slug[t], k>>] = t]
            /\ \A j \in 1..(k - 1) : <<slug[t], j>> \in listed[t]
      BY <2>2, <3>1, MergeEffect
    <3>3. \A n \in Names : n \in listed[t] => files[n] # Nothing
      BY <3>1, MergeEffect DEF FilesInv, ListsTrue
    <3>4. \A n \in Names : files'[n] = IF n = <<slug[t], k>> THEN t ELSE files[n]
      BY <3>2 DEF FilesInv, LocalsOK
    <3>5. ASSUME NEW n \in Names, files'[n] # Nothing, NEW i \in 1..n[2]
          PROVE  files'[<<n[1], i>>] # Nothing
      <4>1. n[1] \in Bases /\ n[2] \in 1..MaxSuffix /\ n = <<n[1], n[2]>>
        BY DEF Names
      <4>2. i \in 1..MaxSuffix /\ i <= n[2] /\ <<n[1], i>> \in Names
        BY <4>1, BoundAssumption DEF Names
      <4>3. CASE n = <<slug[t], k>>
        <5>1. n[1] = slug[t] /\ n[2] = k
          BY <4>3
        <5>2. CASE i = k
          BY <3>4, <4>2, <4>3, <5>1, <5>2, NothingAssumption
        <5>3. CASE i # k
          <6>1. i \in 1..(k - 1)
            BY <4>2, <5>1, <5>3
          <6>2. files[<<n[1], i>>] # Nothing
            BY <3>2, <3>3, <4>2, <5>1, <6>1
          <6> QED  BY <3>4, <4>2, <6>2, NothingAssumption
        <5> QED  BY <5>2, <5>3
      <4>4. CASE n # <<slug[t], k>>
        <5>1. files[n] # Nothing
          BY <3>4, <3>5, <4>4
        <5>2. files[<<n[1], i>>] # Nothing
          BY <5>1 DEF NamesAreDense
        <5> QED  BY <3>4, <4>2, <5>2, NothingAssumption
      <4> QED  BY <4>3, <4>4
    <3> QED  BY <3>5 DEF NamesAreDense
  <2> QED  BY <2>1, <2>2
<1> QED  BY <1>1, <1>2, FilesKept, PTL DEF Spec

\* A subagent works on its own task at least: its description is the last
\* input of the conversation it runs on (subagent.go:39-41).
THEOREM TasksHeard == Spec => []SubagentsHearTheirTask
<1>1. Init => SubagentsHearTheirTask
  BY DEF Init, SubagentsHearTheirTask, Busy
<1>2. FilesInv /\ SubagentsHearTheirTask /\ [Next]_vars => SubagentsHearTheirTask'
  <2> SUFFICES ASSUME FilesInv, SubagentsHearTheirTask, [Next]_vars, NEW u \in Tasks, Busy(u)'
               PROVE  Last(conv'[u].inputs) = u
    BY DEF SubagentsHearTheirTask
  <2>1. CASE Spawn(u)
    <3>1. conv'[u] = Enter(u, blank)
      BY <2>1 DEF Spawn, FilesInv, LocalsOK
    <3> QED  BY <3>1, EnterOnTask DEF FilesInv, LocalsOK
  <2>2. CASE ~Spawn(u)
    <3>1. Busy(u)
      BY <2>2, Places DEF Busy, FilesInv, LocalsOK, Spawn
    <3>2. conv'[u] = conv[u] \/ Round(u)
      BY <2>2 DEF Next, Step, Finished, Spawn, Round, SubagentFails, ListFiles, Merge, NoNameLeft,
                  vars, FilesInv, LocalsOK
    <3>3. conv'[u].inputs = conv[u].inputs
      BY <3>2, RoundCounts DEF FilesInv
    <3> QED  BY <3>1, <3>3 DEF SubagentsHearTheirTask
  <2> QED  BY <2>1, <2>2
<1> QED  BY <1>1, <1>2, FilesKept, PTL DEF Spec

-----------------------------------------------------------------------------
\* All the subagents an agent ever makes share one budget of rounds
\* (graph.go:122, subagent.go:39).  A task has spent at least what was saved
\* when it entered, one more round when it answered, and one task at a time is
\* under way.
Merged == {t \in Tasks : pc[t] = "merged"}
Saved == IF blank = Nothing THEN 0 ELSE blank.iteration

BudgetInv ==
    /\ IsFiniteSet(Merged)
    /\ overlap = {} =>
         /\ Cardinality(Merged) <= Saved
         /\ \A t \in Tasks :
              /\ pc[t] = "running" => Saved <= conv[t].iteration
              /\ pc[t] \in {"answered", "listed"} => Cardinality(Merged) < Saved

\* A task that is not merged now becomes one of the merged by Merge only.
LEMMA MergedStep ==
    ASSUME FilesInv, NEW t \in Tasks, NEW then, pc[t] # "merged", pc' = [pc EXCEPT ![t] = then]
    PROVE  Merged' = IF then = "merged" THEN Merged \cup {t} ELSE Merged
BY DEF FilesInv, LocalsOK, Merged

\* With no overlap, a task that is under way is the only one.
LEMMA OnlyBusy ==
    ASSUME FilesInv, overlap = {}, NEW t \in Tasks, Busy(t), NEW u \in Tasks, Busy(u)
    PROVE  u = t
BY DEF FilesInv, Overlapping

\* The subagents of tasks that do not overlap spend one budget among them: no
\* more are merged than rounds have been spent, which the bound of the loop
\* limits (graph.go:122, subagent.go:39).
THEOREM OneBudget == Spec => []OneBudgetForAll
<1>1. Init => BudgetInv
  <2> SUFFICES ASSUME Init PROVE BudgetInv
    OBVIOUS
  <2>1. Merged = {}
    BY DEF Init, Merged
  <2>2. IsFiniteSet(Merged) /\ Cardinality(Merged) = 0
    BY <2>1, FS_EmptySet
  <2>3. Saved = 0 /\ \A t \in Tasks : pc[t] = "idle"
    BY DEF Init, Saved
  <2> QED  BY <2>2, <2>3 DEF BudgetInv
<1>2. FilesInv /\ BudgetInv /\ [Next]_vars => BudgetInv'
  <2> SUFFICES ASSUME FilesInv, BudgetInv, [Next]_vars
               PROVE  BudgetInv'
    OBVIOUS
  <2> DEFINE C == Cardinality(Merged)
  <2>1. C \in Nat /\ Saved \in Nat /\ IsFiniteSet(Merged)
    BY FS_CardinalityType DEF BudgetInv, FilesInv, LocalsOK, Saved, Conversations
  <2>2. overlap' = {} => overlap = {}
    BY OverlappingStep
  <2>3. CASE UNCHANGED <<pc, conv, blank, overlap>>
    BY <2>3 DEF BudgetInv, Merged, Saved
  <2>4. ASSUME NEW t \in Tasks, Spawn(t)
        PROVE  BudgetInv'
    <3>1. pc[t] = "idle" /\ pc' = [pc EXCEPT ![t] = "running"] /\ blank' = blank
          /\ conv' = [conv EXCEPT ![t] = Enter(t, blank)]
      BY <2>4 DEF Spawn
    <3>2. Merged' = Merged
      BY <3>1 DEF FilesInv, LocalsOK, Merged
    <3>3. Enter(t, blank).iteration = Saved
      BY EnterOnTask DEF FilesInv, LocalsOK, Saved
    <3>4. Saved' = Saved
      BY <3>1 DEF Saved
    <3> QED  BY <2>1, <2>2, <3>1, <3>2, <3>3, <3>4 DEF BudgetInv, FilesInv, LocalsOK
  <2>5. ASSUME NEW t \in Tasks, Round(t)
        PROVE  BudgetInv'
    <3>1. PICK then \in {"running", "answered"} : pc' = [pc EXCEPT ![t] = then]
      BY <2>5 DEF Round, Go
    <3>2. /\ conv[t].iteration \in Nat /\ conv'[t].iteration = conv[t].iteration + 1
          /\ blank' = conv'[t] /\ conv'[t] \in Conversations /\ pc[t] = "running"
      BY <2>5, RoundCounts DEF FilesInv, Conversations, Round
    <3>3. Merged' = Merged
      BY <3>1, <3>2, MergedStep
    <3>4. Saved' = conv[t].iteration + 1
      BY <3>2, NothingAssumption DEF Saved
    <3>5. ASSUME overlap' = {}
          PROVE  /\ C <= Saved'
                 /\ \A u \in Tasks :
                      /\ pc'[u] = "running" => Saved' <= conv'[u].iteration
                      /\ pc'[u] \in {"answered", "listed"} => C < Saved'
      <4>1. C <= Saved /\ Saved <= conv[t].iteration
        BY <2>2, <3>2, <3>5 DEF BudgetInv
      <4>2. C < Saved'
        BY <2>1, <3>2, <3>4, <4>1
      <4>3. ASSUME NEW u \in Tasks, u # t, pc'[u] = "running" PROVE FALSE
        <5>1. Busy(u) /\ Busy(t)
          BY <3>1, <3>2, <4>3 DEF FilesInv, LocalsOK, Busy, Ended
        <5> QED  BY <2>2, <3>5, <4>3, <5>1, OnlyBusy
      <4>4. Saved' <= conv'[t].iteration
        BY <3>2, <3>4
      <4> QED  BY <2>1, <3>2, <3>4, <4>2, <4>3, <4>4
    <3> QED  BY <2>1, <3>3, <3>5 DEF BudgetInv
  <2>6. ASSUME NEW t \in Tasks, SubagentFails(t) \/ ListFiles(t) \/ NoNameLeft(t)
        PROVE  BudgetInv'
    <3>1. PICK then \in {"failed", "listed"} :
            /\ pc' = [pc EXCEPT ![t] = then] /\ pc[t] # "merged"
            /\ then = "listed" => pc[t] = "answered"
            /\ UNCHANGED <<conv, blank, overlap>>
      BY <2>6 DEF SubagentFails, ListFiles, NoNameLeft, Go
    <3>2. Merged' = Merged
      BY <3>1, MergedStep
    <3>3. Saved' = Saved
      BY <3>1 DEF Saved
    <3> QED  BY <3>1, <3>2, <3>3 DEF BudgetInv, FilesInv, LocalsOK
  <2>7. ASSUME NEW t \in Tasks, Merge(t)
        PROVE  BudgetInv'
    <3>1. /\ pc[t] = "listed" /\ pc' = [pc EXCEPT ![t] = "merged"]
          /\ UNCHANGED <<conv, blank, overlap>>
      BY <2>7 DEF Merge, Go
    <3>2. Merged' = Merged \cup {t} /\ t \notin Merged
      BY <3>1, MergedStep DEF Merged
    <3>3. IsFiniteSet(Merged') /\ Cardinality(Merged') = C + 1
      BY <2>1, <3>2, FS_AddElement
    <3>4. Saved' = Saved
      BY <3>1 DEF Saved
    <3>5. ASSUME overlap = {}
          PROVE  /\ C < Saved
                 /\ \A u \in Tasks : pc'[u] \notin {"running", "answered", "listed"}
      <4>1. C < Saved
        BY <3>1, <3>5 DEF BudgetInv
      <4>2. ASSUME NEW u \in Tasks, u # t, pc'[u] \in {"running", "answered", "listed"}
            PROVE  FALSE
        <5>1. Busy(u) /\ Busy(t)
          BY <3>1, <4>2 DEF FilesInv, LocalsOK, Busy, Ended
        <5> QED  BY <3>5, <4>2, <5>1, OnlyBusy
      <4> QED  BY <3>1, <4>1, <4>2 DEF FilesInv, LocalsOK
    <3> QED  BY <2>1, <3>1, <3>3, <3>4, <3>5 DEF BudgetInv
  <2> QED
    BY <2>3, <2>4, <2>5, <2>6, <2>7 DEF Next, Step, Finished, vars
<1>3. BudgetInv => OneBudgetForAll
  BY DEF BudgetInv, Merged, Saved, OneBudgetForAll
<1> QED  BY <1>1, <1>2, <1>3, FilesKept, PTL DEF Spec

=============================================================================
