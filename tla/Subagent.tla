------------------------------ MODULE Subagent ------------------------------
(***************************************************************************)
(* The task tool (agent/subagent.go): a run delegates a task to a subagent *)
(* and merges its result into the parent's file system.                    *)
(*                                                                         *)
(* The subagent gets a file system and a graph of its own, but inherits    *)
(* the parent's checkpointer, and it is invoked without a thread id: all   *)
(* the subagents of an agent run on the thread "", as does a caller that   *)
(* gives no thread id.  The task calls of concurrent runs interleave, here *)
(* at the steps that touch the checkpointer and the parent's files.        *)
(***************************************************************************)
EXTENDS Naturals, FiniteSets, SequencesExt

CONSTANTS
    Tasks,          \* the task calls; each one's description is its own
    Bases,          \* the slugs of descriptions, cut to 40 characters
    MaxSuffix,      \* the last suffix tried (9999 in the code)
    MaxIterations,  \* the bound of a ReAct loop (20 in the code)
    Faults,         \* subset of {"model", "write"}
    Nothing         \* no file, no name, no checkpoint

ASSUME BoundAssumption == MaxSuffix \in Nat \ {0} /\ MaxIterations \in Nat \ {0}
ASSUME FaultsAssumption == Faults \subseteq {"model", "write"}

(***************************************************************************)
(* A conversation of the thread "": the tasks whose description it holds,  *)
(* oldest first, the one in the system prompt, and the rounds spent.       *)
(***************************************************************************)
Conversations == [prompt : Tasks, inputs : Seq(Tasks), iteration : Nat]

ASSUME NothingAssumption == Nothing \notin Tasks /\ Nothing \notin Conversations

\* Suffix 1 is the name without a suffix.
Names == Bases \X (1..MaxSuffix)

VARIABLES
    pc,      \* where each task call is
    slug,    \* of its description
    conv,    \* the subagent's copy of its conversation
    listed,  \* the parent's files when the subagent's result was about to be merged
    name,    \* result_file of the task's ToolResult
    blank,   \* the checkpoint of the thread ""
    files,   \* the parent's file system: whose result each file holds
    overlap  \* history: the pairs of tasks that were under way at the same time

vars == <<pc, slug, conv, listed, name, blank, files, overlap>>

Init ==
    /\ pc = [t \in Tasks |-> "idle"]
    /\ slug = [t \in Tasks |-> Nothing]
    /\ overlap = {}
    /\ conv = [t \in Tasks |-> Nothing]
    /\ listed = [t \in Tasks |-> {}]
    /\ name = [t \in Tasks |-> Nothing]
    /\ blank = Nothing
    /\ files = [n \in Names |-> Nothing]

Ended == {"merged", "failed"}
Busy(t) == pc[t] \notin Ended \cup {"idle"}
Go(t, l) == pc' = [pc EXCEPT ![t] = l] /\ UNCHANGED <<slug, overlap>>

-----------------------------------------------------------------------------
\* CreateDeepAgent and Invoke of the subagent: Graph.Run loads the thread "".
\* Mutant: a subagent that finds a checkpoint only continues it.
Enter_Continues(t, saved) ==
    IF saved = Nothing THEN [prompt |-> t, inputs |-> <<t>>, iteration |-> 0] ELSE saved
Enter(t, saved) ==
    IF saved = Nothing THEN [prompt |-> t, inputs |-> <<t>>, iteration |-> 0]
    ELSE [saved EXCEPT !.inputs = Append(@, t)]

Spawn(t) ==
    /\ pc[t] = "idle"
    /\ \E b \in Bases : slug' = [slug EXCEPT ![t] = b]
    /\ conv' = [conv EXCEPT ![t] = Enter(t, blank)]
    /\ pc' = [pc EXCEPT ![t] = "running"]
    /\ overlap' = overlap \cup {{t, u} : u \in {u \in Tasks : Busy(u)}}
    /\ UNCHANGED <<listed, name, blank, files>>

\* Mutant: the answering round is not saved.
Round_AnswersUnsaved(t) ==
    /\ pc[t] = "running"
    /\ conv[t].iteration < MaxIterations
    /\ conv' = [conv EXCEPT ![t].iteration = @ + 1]
    /\ \/ Go(t, "running") /\ blank' = conv'[t]
       \/ Go(t, "answered") /\ UNCHANGED blank
    /\ UNCHANGED <<listed, name, files>>
\* A round of the subagent, saved like any other.  The last one answers.
Round(t) ==
    /\ pc[t] = "running"
    /\ conv[t].iteration < MaxIterations
    /\ conv' = [conv EXCEPT ![t].iteration = @ + 1]
    /\ blank' = conv'[t]
    /\ Go(t, "running") \/ Go(t, "answered")
    /\ UNCHANGED <<listed, name, files>>

\* The subagent's model fails, or the budget of the thread "" is spent.
SubagentFails(t) ==
    /\ pc[t] = "running"
    /\ "model" \in Faults \/ conv[t].iteration >= MaxIterations
    /\ Go(t, "failed")
    /\ UNCHANGED <<conv, listed, name, blank, files>>

-----------------------------------------------------------------------------
ListFiles(t) ==
    /\ pc[t] = "answered"
    /\ listed' = [listed EXCEPT ![t] = {n \in Names : files[n] # Nothing}]
    /\ Go(t, "listed")
    /\ UNCHANGED <<conv, name, blank, files>>

\* Mutant: the suffixes are not tried.
FreeNames_First(t) == {<<slug[t], 1>>}
\* Mutant: the unsuffixed name is kept for a description's only task.
FreeNames_FromTwo(t) ==
    IF listed[t] = {} THEN {<<slug[t], 2>>} ELSE {<<slug[t], i>> : i \in 1..MaxSuffix} \ listed[t]
FreeNames(t) == {<<slug[t], i>> : i \in 1..MaxSuffix} \ listed[t]

\* The name with the least suffix; whether Write fails is not looked at.
Merge(t) ==
    /\ pc[t] = "listed"
    /\ \E n \in FreeNames(t) :
         /\ \A m \in FreeNames(t) : n[2] <= m[2]
         /\ name' = [name EXCEPT ![t] = n]
         /\ \/ files' = [files EXCEPT ![n] = t]
            \/ "write" \in Faults /\ UNCHANGED files
    /\ Go(t, "merged")
    /\ UNCHANGED <<conv, listed, blank>>

\* Mutant: the loop over suffixes has no end.
NoNameLeft_Spins(t) ==
    pc[t] = "listed" /\ FreeNames(t) = {} /\ UNCHANGED vars
NoNameLeft(t) ==
    /\ pc[t] = "listed"
    /\ FreeNames(t) = {}
    /\ Go(t, "failed")
    /\ UNCHANGED <<conv, listed, name, blank, files>>

-----------------------------------------------------------------------------
Step(t) == Round(t) \/ SubagentFails(t) \/ ListFiles(t) \/ Merge(t) \/ NoNameLeft(t)

Finished == (\A t \in Tasks : pc[t] \in Ended) /\ UNCHANGED vars

Next == (\E t \in Tasks : Spawn(t) \/ Step(t)) \/ Finished

Spec == Init /\ [][Next]_vars

\* The parent's run waits for the tool, and the model answers or fails.
FairSpec == Spec /\ \A t \in Tasks : WF_vars(Step(t))

-----------------------------------------------------------------------------
\* Every variable holds values of its kind.
TypeOK ==
    /\ pc \in [Tasks -> Ended \cup {"idle", "running", "answered", "listed"}]
    /\ slug \in [Tasks -> Bases \cup {Nothing}]
    /\ conv \in [Tasks -> Conversations \cup {Nothing}]
    /\ \A t \in Tasks : pc[t] # "idle" => conv[t] \in Conversations
    /\ listed \in [Tasks -> SUBSET Names]
    /\ name \in [Tasks -> Names \cup {Nothing}]
    /\ blank \in Conversations \cup {Nothing}
    /\ files \in [Names -> Tasks \cup {Nothing}]
    /\ overlap \subseteq SUBSET Tasks

\* Merging costs a task its result only where the two were under way at the
\* same time: listing the files and writing one are two steps
\* (subagent.go:46-62, 74-93).
MergedResultsKept ==
    [][\A n \in Names : files[n] # Nothing =>
          files'[n] = files[n] \/ {files[n], files'[n]} \in overlap]_files

\* A merge only fills the first gap: the files of a description are numbered
\* without holes (subagent.go:83-93).
NamesAreDense ==
    \A n \in Names : files[n] # Nothing => \A i \in 1..n[2] : files[<<n[1], i>>] # Nothing

\* A subagent works on its own task at least: its description is the last
\* input of the conversation it runs on (subagent.go:39-41).
SubagentsHearTheirTask == \A t \in Tasks : Busy(t) => Last(conv[t].inputs) = t

\* All the subagents an agent ever makes share one budget of rounds, so that
\* at most MaxIterations of them can be merged (graph.go:122, subagent.go:39).
\* Tasks that overlap each spend their own copy of it.
OneBudgetForAll ==
    overlap = {} => Cardinality({t \in Tasks : pc[t] = "merged"})
        <= IF blank = Nothing THEN 0 ELSE blank.iteration

\* A task call that was made returns to the parent's run.
TaskCallsReturn == \A t \in Tasks : Busy(t) ~> pc[t] \in Ended
=============================================================================
