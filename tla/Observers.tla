----------------------------- MODULE Observers ------------------------------
(***************************************************************************)
(* What the outside sees of the runs of AgentRun while they are under way: *)
(* the channel Stream returns (agent/deepagent.go) and the logger and      *)
(* metrics collector all runs of an agent share (agent/logging.go,         *)
(* json_logger.go, metrics_prometheus.go).                                 *)
(*                                                                         *)
(* Both are called by the run itself, which goes on only when they return: *)
(* a step of AgentRun leaves the run a list of things to do, and the next  *)
(* step waits until it is done.  Every run is a Stream here.               *)
(***************************************************************************)
EXTENDS AgentRun, Selections

CONSTANTS
    ThreadOf,     \* the thread each stream is for
    Setups        \* the agents and consumers of this instance: the logger, the
                  \* capacity of the channels (32 in the code), who reads

Loggers == {"json", "context", "simple", "noop"}
\* A step that also writes the audit log emits up to two events.
ASSUME SetupsAssumption ==
    \A s \in Setups : s.logger \in Loggers /\ s.capacity \in Nat \ {0, 1} /\ s.listening \subseteq Runs
ASSUME ThreadOfAssumption == ThreadOf \in [Runs -> Threads]

VARIABLES
    todo,       \* the calls of sink and logger a run has still to make, in order
    capacity,   \* of the channels
    queue,      \* the channel of each stream
    received,   \* what its consumer took from it
    listening,  \* the consumers that go on reading
    closed,     \* the channels that are closed
    logger,     \* the kind of Graph.logger
    phase,      \* how far the log call at the head of todo is
    seen,       \* the slice a log call of the context logger read
    journal,    \* the logger's lines or, per type, its slices
    metrics,    \* the counters of the collector
    logged,     \* history: the log calls a run completed
    raced       \* history: runs whose log calls met another's

observerVars == <<todo, capacity, queue, received, listening, closed, logger, phase, seen,
                  journal, metrics, logged, raced>>

LogTypes == {"tool_call", "model_call", "run_summary"}

\* marshals: can encoding/json print the event?  A tool may return anything.
LogItem(r, type, ok, marshals) == [run |-> r, type |-> type, ok |-> ok, marshals |-> marshals]
LogItems(runs, types) == [run : runs, type : types, ok : BOOLEAN, marshals : BOOLEAN]
DoLog(item) == [do |-> "log", item |-> item]
DoEmit(event) == [do |-> "emit", item |-> event]
EmitAll(es) == [i \in DOMAIN es |-> DoEmit(es[i])]

ObserversInit ==
    /\ Init
    /\ todo = [r \in Runs |-> <<>>]
    /\ queue = [r \in Runs |-> <<>>]
    /\ received = [r \in Runs |-> <<>>]
    /\ \E s \in Setups : logger = s.logger /\ capacity = s.capacity /\ listening = s.listening
    /\ closed = {}
    /\ phase = [r \in Runs |-> "ready"]
    /\ seen = [r \in Runs |-> <<>>]
    /\ journal = [type \in LogTypes |-> <<>>]
    /\ metrics = [tool |-> [ok |-> 0, error |-> 0], model |-> [ok |-> 0, error |-> 0]]
    /\ logged = [r \in Runs |-> <<>>]
    /\ raced = {}

-----------------------------------------------------------------------------
(***************************************************************************)
(* The steps of a run and what they leave to do: the log call of a model   *)
(* or tool call comes before its event, the summary after the final event  *)
(* but before the error event.                                             *)
(***************************************************************************)
NewEvents(r) == SubSeq(events'[r], Len(events[r]) + 1, Len(events'[r]))

CallLogs(r) ==
    LET s == stats[r]
        n == stats'[r]
    IN  CASE n.modelCalls > s.modelCalls ->
               <<DoLog(LogItem(r, "model_call", n.modelErrors = s.modelErrors, TRUE))>>
          [] n.toolCalls > s.toolCalls ->
               <<DoLog(LogItem(r, "tool_call", n.toolErrors = s.toolErrors,
                               Last(conv'[r].messages).code # "serialization_error"))>>
          [] OTHER -> <<>>

Ending(r) ==
    LET summary == DoLog(LogItem(r, "run_summary", outcome'[r] = "final", TRUE))
        terminal == DoEmit(Last(events'[r]))
    IN  IF outcome'[r] = "final" THEN <<terminal, summary>> ELSE <<summary, terminal>>

LeaveToDo(r) ==
    LET es == NewEvents(r)
    IN  todo' = [todo EXCEPT ![r] = CallLogs(r) \o
            (IF pc'[r] = "done" THEN EmitAll(Front(es)) \o Ending(r) ELSE EmitAll(es))]

\* The audit log is written after the events of its step, which therefore
\* have to find room first.
RoomFirst(r) == audit' # audit => Len(queue[r]) + Len(NewEvents(r)) <= capacity

RunsOn(r) ==
    /\ todo[r] = <<>>
    /\ Load(r, ThreadOf[r]) \/ LoadFails(r, ThreadOf[r]) \/ Step(r)
    /\ RoomFirst(r)
    /\ LeaveToDo(r)
    /\ UNCHANGED <<queue, received, listening, closed, logger, capacity, phase, seen,
                   journal, metrics, logged, raced>>

Doing(r, what) == todo[r] # <<>> /\ Head(todo[r]).do = what
Done(r) == todo' = [todo EXCEPT ![r] = Tail(@)]

-----------------------------------------------------------------------------
(***************************************************************************)
(* The stream                                                              *)
(***************************************************************************)
\* Mutant: the sink is set on the graph all runs share.
SinkOf_Shared(r) == IF \E s \in Runs \ {r} : Active(s) THEN CHOOSE s \in Runs : s # r /\ Active(s) ELSE r
\* runWithEventSink gives every run a copy of the graph with a sink of its own.
SinkOf(r) == r

EmitEvent(r) ==
    /\ Doing(r, "emit")
    /\ Len(queue[SinkOf(r)]) < capacity
    /\ queue' = [queue EXCEPT ![SinkOf(r)] = Append(@, Head(todo[r]).item)]
    /\ Done(r)
    /\ UNCHANGED <<vars, received, listening, closed, logger, capacity, phase, seen, journal,
                   metrics, logged, raced>>

\* Mutant: closed only after an answer.
CloseStream_OnAnswer(r) ==
    /\ pc[r] = "done" /\ todo[r] = <<>> /\ r \notin closed /\ outcome[r] = "final"
    /\ closed' = closed \cup {r}
    /\ UNCHANGED <<vars, todo, queue, received, listening, logger, capacity, phase, seen, journal,
                   metrics, logged, raced>>

CloseStream(r) ==
    /\ pc[r] = "done" /\ todo[r] = <<>> /\ r \notin closed
    /\ closed' = closed \cup {r}
    /\ UNCHANGED <<vars, todo, queue, received, listening, logger, capacity, phase, seen, journal,
                   metrics, logged, raced>>

Receive(r) ==
    /\ r \in listening /\ queue[r] # <<>>
    /\ queue' = [queue EXCEPT ![r] = Tail(@)]
    /\ received' = [received EXCEPT ![r] = Append(@, Head(queue[r]))]
    /\ UNCHANGED <<vars, todo, listening, closed, logger, capacity, phase, seen, journal,
                   metrics, logged, raced>>

\* The consumer stops reading; nothing tells the run.
Leave(r) ==
    /\ r \in listening /\ Active(r)
    /\ listening' = listening \ {r}
    /\ UNCHANGED <<vars, todo, queue, received, closed, logger, capacity, phase, seen, journal,
                   metrics, logged, raced>>

-----------------------------------------------------------------------------
(***************************************************************************)
(* The logger                                                              *)
(***************************************************************************)
LogDone(r) ==
    /\ Done(r)
    /\ phase' = [phase EXCEPT ![r] = "ready"]
    /\ logged' = [logged EXCEPT ![r] = Append(@, Head(todo[r]).item)]

\* JSONLogger.emit: one line under the mutex, or a line that only says that
\* the event could not be marshalled.
Fallback == [type |-> "marshal_failed"]
\* Mutant: the event is printed whatever Marshal returned.
JSONLine_Unchecked(item) == item
JSONLine(item) == IF item.marshals THEN item ELSE Fallback

WriteLine(r) ==
    /\ Doing(r, "log") /\ logger = "json" /\ phase[r] = "ready"
    /\ LET item == Head(todo[r]).item
       IN  journal' = [journal EXCEPT ![item.type] = Append(@, JSONLine(item))]
    /\ phase' = [phase EXCEPT ![r] = "written"]
    /\ UNCHANGED <<vars, todo, queue, received, listening, closed, logger, capacity, seen,
                   metrics, logged, raced>>

Bump(counter, ok) ==
    IF ok THEN [counter EXCEPT !.ok = @ + 1] ELSE [counter EXCEPT !.error = @ + 1]

\* Mutant: what could not be printed is not counted.
Counted_Printed(item) ==
    CASE item.type = "tool_call" /\ item.marshals -> [metrics EXCEPT !.tool = Bump(@, item.ok)]
      [] item.type = "model_call" -> [metrics EXCEPT !.model = Bump(@, item.ok)]
      [] OTHER -> metrics

\* Of a summary the collector takes the duration only.
Counted(item) ==
    CASE item.type = "tool_call" -> [metrics EXCEPT !.tool = Bump(@, item.ok)]
      [] item.type = "model_call" -> [metrics EXCEPT !.model = Bump(@, item.ok)]
      [] OTHER -> metrics

Record(r) ==
    /\ Doing(r, "log") /\ logger = "json" /\ phase[r] = "written"
    /\ metrics' = Counted(Head(todo[r]).item)
    /\ LogDone(r)
    /\ UNCHANGED <<vars, queue, received, listening, closed, logger, capacity, seen, journal, raced>>

\* ContextLogger appends to a slice without a lock: the slice is read, and
\* what was read with the event at its end is written back.
AlsoLogging(r, type) ==
    {s \in Runs \ {r} : phase[s] = "read" /\ Head(todo[s]).item.type = type}

ReadSlice(r) ==
    /\ Doing(r, "log") /\ logger = "context" /\ phase[r] = "ready"
    /\ LET type == Head(todo[r]).item.type
       IN  /\ seen' = [seen EXCEPT ![r] = journal[type]]
           /\ raced' = IF AlsoLogging(r, type) = {} THEN raced
                       ELSE raced \cup {r} \cup AlsoLogging(r, type)
    /\ phase' = [phase EXCEPT ![r] = "read"]
    /\ UNCHANGED <<vars, todo, queue, received, listening, closed, logger, capacity, journal,
                   metrics, logged>>

WriteSlice(r) ==
    /\ Doing(r, "log") /\ logger = "context" /\ phase[r] = "read"
    /\ LET item == Head(todo[r]).item
       IN  journal' = [journal EXCEPT ![item.type] = Append(seen[r], item)]
    /\ seen' = [seen EXCEPT ![r] = <<>>]
    /\ LogDone(r)
    /\ UNCHANGED <<vars, queue, received, listening, closed, logger, capacity, metrics, raced>>

\* SimpleLogger prints its line, and for a call further lines after it;
\* NoOpLogger prints nothing.
PrintLine(r) ==
    /\ Doing(r, "log") /\ logger \in {"simple", "noop"}
    /\ LET item == Head(todo[r]).item
       IN  journal' = IF logger = "noop" THEN journal
                      ELSE [journal EXCEPT ![item.type] = Append(@, item)]
    /\ LogDone(r)
    /\ UNCHANGED <<vars, queue, received, listening, closed, logger, capacity, seen, metrics, raced>>

Log(r) == WriteLine(r) \/ Record(r) \/ ReadSlice(r) \/ WriteSlice(r) \/ PrintLine(r)

-----------------------------------------------------------------------------
Worker(r) == RunsOn(r) \/ EmitEvent(r) \/ Log(r) \/ CloseStream(r)

\* It stops when every stream is closed or has lost its consumer.
ObserversNext == \E r \in Runs : Worker(r) \/ Receive(r) \/ Leave(r)

ObserversSpec == ObserversInit /\ [][ObserversNext]_<<vars, observerVars>>

\* The goroutine of a stream is not starved once it was started, and a
\* consumer that listens reads.
FairObserversSpec ==
    /\ ObserversSpec
    /\ \A r \in Runs :
         /\ WF_<<vars, observerVars>>(pc[r] # "idle" /\ Worker(r))
         /\ WF_<<vars, observerVars>>(Receive(r))

-----------------------------------------------------------------------------
(***************************************************************************)
(* Properties                                                              *)
(***************************************************************************)
\* Every variable holds values of its kind; only a log call is half done.
ObserversTypeOK ==
    /\ TypeOK
    /\ \A r \in Runs : Len(queue[r]) <= capacity
    /\ listening \subseteq Runs /\ closed \subseteq Runs /\ raced \subseteq Runs
    /\ logger \in Loggers
    /\ phase \in [Runs -> {"ready", "read", "written"}]
    /\ \A r \in Runs : phase[r] # "ready" => Doing(r, "log")

\* A consumer gets the events of its own run, all of them and in order, though
\* streams of one agent run at once and share the graph; the channel closes
\* after the terminal event and nothing follows it (deepagent.go:184-197,
\* graph.go:369-380).
Emits == [do : {"emit"}, item : Events]
ToEmit(r) == Selected(todo[r], Emits)
StreamsWhole ==
    \A r \in Runs :
        /\ events[r] = received[r] \o queue[r] \o [i \in DOMAIN ToEmit(r) |-> ToEmit(r)[i].item]
        /\ r \in closed => /\ ToEmit(r) = <<>>
                           /\ Terminal(Last(events[r]))

\* What the log holds of a run is what the run logged, in order: JSON lines,
\* except for results that cannot be marshalled, which leave one line each
\* that names no run; the context logger's slices, unless log calls of two
\* runs met (json_logger.go:37-47, logging.go:134-150).
OfRun(lines, r) == Selected(lines, LogItems({r}, LogTypes))
LoggedAs(r, type) == Selected(logged[r], LogItems({r}, {type}))
InProgress(r, type) ==
    IF phase[r] = "written" /\ Head(todo[r]).item.type = type THEN <<Head(todo[r]).item>> ELSE <<>>
Printable(items) == Selected(items, {item \in LogItems(Runs, LogTypes) : item.marshals})
JournalComplete ==
    \A type \in LogTypes :
        LET written(r) == LoggedAs(r, type) \o InProgress(r, type)
        IN  CASE logger = "json" ->
                   /\ \A r \in Runs : OfRun(journal[type], r) = Printable(written(r))
                   /\ Len(journal[type]) = Total([r \in Runs |-> Len(written(r))])
              [] logger = "noop" -> journal[type] = <<>>
              [] OTHER -> \A r \in Runs \ raced : OfRun(journal[type], r) = LoggedAs(r, type)

\* The counters of the collector are those of the runs' summaries, added up,
\* as soon as no log call is outstanding (graph.go:79-90, json_logger.go:49-120).
MetricsAddUp ==
    logger = "json" /\ (\A r \in Runs : todo[r] = <<>>) =>
        /\ metrics.model.ok + metrics.model.error = Total([r \in Runs |-> stats[r].modelCalls])
        /\ metrics.model.error = Total([r \in Runs |-> stats[r].modelErrors])
        /\ metrics.tool.ok + metrics.tool.error = Total([r \in Runs |-> stats[r].toolCalls])

\* A consumer that goes on reading sees the end of its stream, even if the
\* consumer of another stream of the agent has gone and its run hangs.
StreamsEnd ==
    \A r \in Runs : Active(r) ~>
        \/ r \notin listening
        \/ r \in closed /\ received[r] = events[r]

=============================================================================
