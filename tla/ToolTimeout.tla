---------------------------- MODULE ToolTimeout -----------------------------
(***************************************************************************)
(* TimeoutTool.Call (tools/tool.go): a tool's function runs in a goroutine *)
(* of its own while the caller waits for its result or for the deadline,   *)
(* whichever the select sees first.  The function is not stopped: it may   *)
(* take effect after its call was reported as timed out.                   *)
(*                                                                         *)
(* An element of Attempts is one call of a tool.  Its function takes       *)
(* effect at most once, at a single step, or returns an error without.     *)
(***************************************************************************)
EXTENDS Naturals, SequencesExt

CONSTANT Attempts

VARIABLES
    caller,    \* where the caller of each attempt is
    worker,    \* the function: where it is, in the caller's goroutine or its own
    channel,   \* resultChan, with room for one result
    expired,   \* the contexts that are done: deadline or cancelled caller
    verdict,   \* what the call was reported to have done
    effects    \* the attempts whose effect took place, in that order

timeoutVars == <<caller, worker, channel, expired, verdict, effects>>

Verdicts == {"ok", "error", "timeout"}

TimeoutsInit ==
    /\ caller = [c \in Attempts |-> "idle"]
    /\ worker = [c \in Attempts |-> "none"]
    /\ channel = [c \in Attempts |-> "empty"]
    /\ expired = {}
    /\ verdict = [c \in Attempts |-> "none"]
    /\ effects = <<>>

\* timed: does the tool have a timeout, and so a goroutine of its own?
\* dead: is the caller's context done already?
StartAttempt(c, timed, dead) ==
    /\ caller[c] = "idle"
    /\ caller' = [caller EXCEPT ![c] = IF timed THEN "selecting" ELSE "calling"]
    /\ worker' = [worker EXCEPT ![c] = "working"]
    /\ expired' = IF dead THEN expired \cup {c} ELSE expired
    /\ UNCHANGED <<channel, verdict, effects>>

\* The function does its work, or returns an error before it; a function that
\* watches its context gives up when that is done.
Act(c, heeds) ==
    /\ worker[c] = "working"
    /\ heeds => c \notin expired
    /\ worker' = [worker EXCEPT ![c] = "ok"]
    /\ effects' = Append(effects, c)
    /\ UNCHANGED <<caller, channel, expired, verdict>>

GiveUp(c) ==
    /\ worker[c] = "working"
    /\ worker' = [worker EXCEPT ![c] = "error"]
    /\ UNCHANGED <<caller, channel, expired, verdict, effects>>

Return(c, v) ==
    /\ verdict' = [verdict EXCEPT ![c] = v]
    /\ caller' = [caller EXCEPT ![c] = "returned"]

\* Without a timeout the caller runs the function itself.
ReturnResult(c) ==
    /\ caller[c] = "calling" /\ worker[c] \in {"ok", "error"}
    /\ Return(c, worker[c])
    /\ worker' = [worker EXCEPT ![c] = "ended"]
    /\ UNCHANGED <<channel, expired, effects>>

\* Mutant: a channel without a buffer.
SendResult_Unbuffered(c) ==
    /\ caller[c] = "selecting" /\ worker[c] \in {"ok", "error"}
    /\ channel' = [channel EXCEPT ![c] = worker[c]]
    /\ worker' = [worker EXCEPT ![c] = "ended"]
    /\ UNCHANGED <<caller, expired, verdict, effects>>

SendResult(c) ==
    /\ caller[c] # "calling" /\ worker[c] \in {"ok", "error"}
    /\ channel' = [channel EXCEPT ![c] = worker[c]]
    /\ worker' = [worker EXCEPT ![c] = "ended"]
    /\ UNCHANGED <<caller, expired, verdict, effects>>

\* The deadline passes.
Expire(c) ==
    /\ caller[c] = "selecting" /\ c \notin expired
    /\ expired' = expired \cup {c}
    /\ UNCHANGED <<caller, worker, channel, verdict, effects>>

\* The two cases of the select.  The deferred cancel ends the context.
TakeResult(c) ==
    /\ caller[c] = "selecting" /\ channel[c] # "empty"
    /\ Return(c, channel[c])
    /\ channel' = [channel EXCEPT ![c] = "empty"]
    /\ expired' = expired \cup {c}
    /\ UNCHANGED <<worker, effects>>

\* Mutant: the zero error of the other case is returned.
ReportTimeout_NilError(c) ==
    /\ caller[c] = "selecting" /\ c \in expired
    /\ Return(c, "ok")
    /\ UNCHANGED <<worker, channel, expired, effects>>

ReportTimeout(c) ==
    /\ caller[c] = "selecting" /\ c \in expired
    /\ Return(c, "timeout")
    /\ UNCHANGED <<worker, channel, expired, effects>>

TimeoutsTypeOK ==
    /\ caller \in [Attempts -> {"idle", "selecting", "calling", "returned"}]
    /\ worker \in [Attempts -> {"none", "working", "ok", "error", "ended"}]
    /\ channel \in [Attempts -> {"empty", "ok", "error"}]
    /\ expired \subseteq Attempts
    /\ verdict \in [Attempts -> Verdicts \cup {"none"}]
    /\ effects \in Seq(Attempts)

=============================================================================
