----------------------------- MODULE Approvers ------------------------------
(***************************************************************************)
(* The two approvers an agent may be given: the console (agent/hitl.go)    *)
(* and an HTTP service (agent/hitl_http.go).  An element of Asks is one    *)
(* call of WaitForApproval.                                                *)
(*                                                                         *)
(* Every prompt on the console starts a goroutine of its own that reads a  *)
(* line from standard input, piece by piece and without a lock; when the   *)
(* caller's context is cancelled the prompt returns, but the goroutine     *)
(* stays and goes on reading.                                              *)
(***************************************************************************)
EXTENDS Naturals, SequencesExt

CONSTANTS
    Asks,         \* the calls of WaitForApproval
    ApproverKinds,\* the approvers of this instance: "console", "http"
    HumanAnswers, \* what people answer: "yes", "no", "modify", "other"
    NoAnswer

ASSUME ApproverKindsAssumption == ApproverKinds \subseteq {"console", "http"}
ASSUME HumanAnswersAssumption ==
    LET answers == {"yes", "no", "modify", "other"}
    IN  HumanAnswers \subseteq answers /\ NoAnswer \notin answers

\* A line as the pieces that two readers may share out among them: words, the
\* space before a second word with its first letter, and the end of the line.
NewLine == "nl"
SecondWord == " x"
Typed(answer) ==
    CASE answer = "yes" -> <<"y", NewLine>>
      [] answer = "no" -> <<"n", NewLine>>
      [] answer = "modify" -> <<"modif", "y", NewLine>>
      [] OTHER -> <<"n", SecondWord, "y", NewLine>>

Replies == [decision : {"approved", "rejected", "modify", "cancelled"}, err : BOOLEAN]
Approved == [decision |-> "approved", err |-> FALSE]
Rejected == [decision |-> "rejected", err |-> TRUE]
Modify == [decision |-> "modify", err |-> TRUE]

VARIABLES
    approver,   \* HumanInTheLoop.approver
    asked,      \* where each call of WaitForApproval is
    reply,      \* what it returned
    reader,     \* the goroutine in Scanln: its state and the pieces it has read
    stdin,      \* what was typed and nobody has read
    eof,        \* is standard input closed?
    answered,   \* history: what the person asked answered
    contested   \* history: prompts that had to share standard input

approverVars == <<approver, asked, reply, reader, stdin, eof, answered, contested>>

Reading == {a \in Asks : reader[a].state = "reading"}

ApproversInit ==
    /\ approver \in ApproverKinds
    /\ asked = [a \in Asks |-> "no"]
    /\ reply = [a \in Asks |-> NoAnswer]
    /\ reader = [a \in Asks |-> [state |-> "none", read |-> <<>>]]
    /\ stdin = <<>>
    /\ eof = FALSE
    /\ answered = [a \in Asks |-> NoAnswer]
    /\ contested = {}

\* WaitForApproval: the console starts its reader, the HTTP approver posts.
Ask(a) ==
    /\ asked[a] = "no"
    /\ asked' = [asked EXCEPT ![a] = "waiting"]
    /\ IF approver = "console"
       THEN /\ reader' = [reader EXCEPT ![a].state = "reading"]
            /\ contested' = IF Reading = {} /\ stdin = <<>> THEN contested
                            ELSE contested \cup Reading \cup {a}
       ELSE UNCHANGED <<reader, contested>>
    /\ UNCHANGED <<approver, reply, stdin, eof, answered>>

\* The person asked answers, once, in time or not; a late answer is typed into
\* whatever prompt is reading by then.
Answer(a) ==
    /\ asked[a] # "no" /\ answered[a] = NoAnswer /\ ~eof
    /\ \E answer \in HumanAnswers :
         /\ answered' = [answered EXCEPT ![a] = answer]
         /\ stdin' = IF approver = "console" THEN stdin \o Typed(answer) ELSE stdin
    /\ contested' = contested \cup (Reading \ {a})
    /\ UNCHANGED <<approver, asked, reply, reader, eof>>

\* Standard input may be no terminal at all, or end.
CloseInput ==
    /\ approver = "console" /\ ~eof
    /\ eof' = TRUE
    /\ UNCHANGED <<approver, asked, reply, reader, stdin, answered, contested>>

Ends(read, piece) == piece = NewLine \/ (piece = SecondWord /\ read # <<>>)

\* Scanln takes a piece.  The end of the line, or a second word, whose rest
\* stays in standard input, ends it: the first word goes into the channel.
Read(a) ==
    /\ a \in Reading
    /\ \/ /\ stdin # <<>>
          /\ stdin' = Tail(stdin)
          /\ reader' = IF Ends(reader[a].read, Head(stdin))
                       THEN [reader EXCEPT ![a].state = "sent"]
                       ELSE [reader EXCEPT ![a].read = Append(@, Head(stdin))]
       \/ /\ stdin = <<>> /\ eof
          /\ reader' = [reader EXCEPT ![a].state = "sent"]
          /\ UNCHANGED stdin
    /\ UNCHANGED <<approver, asked, reply, eof, answered, contested>>

Reply(a, rep) ==
    /\ asked[a] = "waiting"
    /\ asked' = [asked EXCEPT ![a] = "returned"]
    /\ reply' = [reply EXCEPT ![a] = rep]
    /\ UNCHANGED <<approver, reader, stdin, eof, answered, contested>>

Interpret(read) ==
    CASE read = <<"y">> -> Approved
      [] read = <<"modif", "y">> -> Modify
      [] OTHER -> Rejected

\* The two cases of the select; Go takes either when both are ready.
\* Mutant: it asks on until it understands the answer.
ConsoleDecides_Insists(a) ==
    /\ reader[a].state = "sent" /\ Interpret(reader[a].read) # Rejected
    /\ Reply(a, Interpret(reader[a].read))

ConsoleDecides(a) ==
    /\ reader[a].state = "sent"
    /\ Reply(a, Interpret(reader[a].read))

\* Mutants: a cancelled prompt returns without an error; it waits for its
\* reader.
CancelledReply_NoError == [decision |-> "cancelled", err |-> FALSE]
CancelledReply == [decision |-> "cancelled", err |-> TRUE]

ConsoleCancelled_Joins(a) ==
    /\ approver = "console" /\ reader[a].state = "sent"
    /\ Reply(a, CancelledReply)

ConsoleCancelled(a) ==
    /\ approver = "console"
    /\ Reply(a, CancelledReply)

Decision(answer) ==
    CASE answer = "yes" -> Approved
      [] answer = "modify" -> Modify
      [] OTHER -> Rejected

\* A 2xx response with a decision.
HTTPDecides(a) ==
    /\ approver = "http" /\ answered[a] # NoAnswer
    /\ Reply(a, Decision(answered[a]))

\* The request or the response is lost, the client's timeout or the context
\* ends it, the status is not 2xx, or the body is no JSON.
HTTPFails(a) == approver = "http" /\ Reply(a, Rejected)

ApproversTypeOK ==
    /\ approver \in ApproverKinds
    /\ asked \in [Asks -> {"no", "waiting", "returned"}]
    /\ reply \in [Asks -> Replies \cup {NoAnswer}]
    /\ \A a \in Asks : reader[a].state \in {"none", "reading", "sent"}
    /\ eof \in BOOLEAN
    /\ answered \in [Asks -> HumanAnswers \cup {NoAnswer}]
    /\ contested \subseteq Asks

=============================================================================
