-------------------------- MODULE ToolCallsProofs ---------------------------
(***************************************************************************)
(* Theorems about the handling of a round of tool calls, for every value   *)
(* of the constants of ToolCalls.  What the approvers and the timeout do   *)
(* is proved about their own steps first, and then put together with the   *)
(* steps of the runs.                                                      *)
(***************************************************************************)
EXTENDS ToolCalls, FiniteSetTheorems, TLAPS

\* What a step of CallsNext may do to the approvers, and to the timeouts.
ApproverStep ==
    \/ \E a \in Asks :
         \/ Ask(a) \/ Answer(a) \/ Read(a)
         \/ ConsoleDecides(a) \/ ConsoleCancelled(a) \/ HTTPDecides(a) \/ HTTPFails(a)
    \/ CloseInput
    \/ UNCHANGED approverVars

TimeoutStep ==
    \/ \E c \in Attempts :
         \/ \E timed, dead : StartAttempt(c, timed, dead)
         \/ \E heeds : Act(c, heeds)
         \/ GiveUp(c) \/ ReturnResult(c) \/ SendResult(c) \/ TakeResult(c) \/ ReportTimeout(c)
    \/ /\ \E cut \in SUBSET Attempts : expired' = expired \cup cut
       /\ UNCHANGED <<caller, worker, channel, verdict, effects>>

-----------------------------------------------------------------------------
(***************************************************************************)
(* The approvers.  A prompt that has standard input to itself hears a "y"  *)
(* first only when that is what was answered to it.                        *)
(***************************************************************************)
GivenReplies == {Approved, Rejected, Modify, CancelledReply}

Pieces == {"y", "n", "modif", SecondWord, NewLine}

Honest(a) ==
    \/ answered[a] = "yes"
    \/ /\ reader[a].read = <<>>
       /\ stdin = <<>> \/ stdin[1] # "y"
    \/ /\ reader[a].read # <<>>
       /\ reader[a].read[1] # "y"

PipesOK ==
    /\ reader \in [Asks -> [state : {"none", "reading", "sent"}, read : Seq(Pieces)]]
    /\ stdin \in Seq(Pieces)

RepliesGiven == \A a \in Asks : reply[a] \in GivenReplies \cup {NoAnswer}
UnaskedFresh == \A a \in Asks : asked[a] = "no" => reader[a] = [state |-> "none", read |-> <<>>]
ReadersHonest == \A a \in Reading \ contested : Reading = {a} /\ Honest(a)
LinesHonest ==
    \A a \in Asks \ contested :
        reader[a].state = "sent" /\ reader[a].read = <<"y">> => answered[a] = "yes"

ApproversInv ==
    ApproversTypeOK /\ PipesOK /\ RepliesGiven /\ UnaskedFresh /\ ReadersHonest /\ LinesHonest

\* The fields of a reader, and what overwriting one leaves.
LEMMA ReaderFields ==
    ASSUME NEW x \in [state : {"none", "reading", "sent"}, read : Seq(Pieces)], NEW v
    PROVE  /\ x.read \in Seq(Pieces)
           /\ [x EXCEPT !.state = v] = [state |-> v, read |-> x.read]
           /\ [x EXCEPT !.read = v] = [state |-> x.state, read |-> v]
OBVIOUS

LEMMA TypedLine ==
    ASSUME NEW answer \in {"yes", "no", "modify", "other"}
    PROVE  /\ Typed(answer) \in Seq(Pieces) /\ Typed(answer) # <<>>
           /\ Typed(answer)[1] = "y" <=> answer = "yes"
<1>1. /\ <<"y", "nl">> \in Seq(Pieces) /\ <<"n", "nl">> \in Seq(Pieces)
      /\ <<"modif", "y", "nl">> \in Seq(Pieces) /\ <<"n", " x", "y", "nl">> \in Seq(Pieces)
  BY DEF Pieces, NewLine, SecondWord
<1>2. /\ <<"y", "nl">>[1] = "y" /\ <<"n", "nl">>[1] = "n"
      /\ <<"modif", "y", "nl">>[1] = "modif" /\ <<"n", " x", "y", "nl">>[1] = "n"
  OBVIOUS
<1>3. CASE answer = "yes"
  <2>1. Typed(answer) = <<"y", "nl">>
    BY <1>3 DEF Typed, NewLine
  <2>2. Typed(answer) \in Seq(Pieces)
    BY <1>1, <2>1
  <2>3. Typed(answer) # <<>>
    BY <2>1
  <2>4. Typed(answer)[1] = "y"
    BY <1>2, <2>1
  <2> QED  BY <1>3, <2>2, <2>3, <2>4
<1>4. CASE answer = "no"
  <2>1. Typed(answer) = <<"n", "nl">>
    BY <1>4 DEF Typed, NewLine
  <2>2. Typed(answer) \in Seq(Pieces)
    BY <1>1, <2>1
  <2>3. Typed(answer) # <<>>
    BY <2>1
  <2>4. Typed(answer)[1] = "n"
    BY <1>2, <2>1
  <2> QED  BY <1>4, <2>2, <2>3, <2>4
<1>5. CASE answer = "modify"
  <2>1. Typed(answer) = <<"modif", "y", "nl">>
    BY <1>5 DEF Typed, NewLine
  <2>2. Typed(answer) \in Seq(Pieces)
    BY <1>1, <2>1
  <2>3. Typed(answer) # <<>>
    BY <2>1
  <2>4. Typed(answer)[1] = "modif"
    BY <1>2, <2>1
  <2> QED  BY <1>5, <2>2, <2>3, <2>4
<1>6. CASE answer = "other"
  <2>1. Typed(answer) = <<"n", " x", "y", "nl">>
    BY <1>6 DEF Typed, NewLine, SecondWord
  <2>2. Typed(answer) \in Seq(Pieces)
    BY <1>1, <2>1
  <2>3. Typed(answer) # <<>>
    <3>1. <<"n", " x", "y", "nl">> # <<>>
      OBVIOUS
    <3> QED  BY <2>1, <3>1
  <2>4. Typed(answer)[1] = "n"
    <3>1. <<"n", " x", "y", "nl">>[1] = "n"
      OBVIOUS
    <3> QED  BY <2>1, <3>1
  <2> QED  BY <1>6, <2>2, <2>3, <2>4
<1> QED  BY <1>3, <1>4, <1>5, <1>6

\* An asked prompt starts with nothing read.
LEMMA AskKeeps ==
    ASSUME ApproversInv, NEW a \in Asks, Ask(a)
    PROVE  ApproversInv'
<1>1. /\ reader[a] = [state |-> "none", read |-> <<>>]
      /\ UNCHANGED <<approver, reply, stdin, eof, answered>>
      /\ asked' = [asked EXCEPT ![a] = "waiting"]
  BY DEF Ask, ApproversInv, UnaskedFresh
<1>2. /\ asked' \in [Asks -> {"no", "waiting", "returned"}]
      /\ \A b \in Asks : asked'[b] = "no" => asked[b] = "no" /\ b # a
  BY <1>1 DEF ApproversInv, ApproversTypeOK
<1>3. RepliesGiven'
  BY <1>1 DEF ApproversInv, RepliesGiven
<1>4. CASE approver # "console"
  <2>1. UNCHANGED <<reader, contested>>
    BY <1>4 DEF Ask
  <2>2. ApproversTypeOK' /\ PipesOK'
    BY <1>1, <1>2, <2>1 DEF ApproversInv, ApproversTypeOK, PipesOK
  <2>3. Reading' = Reading /\ \A b \in Asks : Honest(b)' = Honest(b)
    BY <1>1, <2>1 DEF Reading, Honest
  <2>4. UnaskedFresh' /\ ReadersHonest' /\ LinesHonest'
    BY <1>1, <1>2, <2>1, <2>3 DEF ApproversInv, UnaskedFresh, ReadersHonest, LinesHonest, Reading
  <2> QED  BY <1>3, <2>2, <2>4 DEF ApproversInv
<1>5. CASE approver = "console"
  <2>1. reader' = [reader EXCEPT ![a].state = "reading"]
    BY <1>5 DEF Ask
  <2>2. /\ reader'[a] = [state |-> "reading", read |-> <<>>]
        /\ \A b \in Asks : b # a => reader'[b] = reader[b]
        /\ Reading' = Reading \cup {a}
    BY <1>1, <2>1 DEF ApproversInv, PipesOK, Reading
  <2>3. PipesOK'
    BY <1>1, <2>1 DEF ApproversInv, PipesOK
  <2>4. contested' \subseteq Asks /\ contested \subseteq contested'
    BY <1>5 DEF Ask, ApproversInv, ApproversTypeOK, Reading
  <2>5. ApproversTypeOK'
    <3>1. \A b \in Asks : reader'[b].state \in {"none", "reading", "sent"}
      BY <2>2 DEF ApproversInv, ApproversTypeOK
    <3> QED  BY <1>1, <1>2, <2>4, <3>1 DEF ApproversInv, ApproversTypeOK
  <2>6. ReadersHonest'
    <3> SUFFICES ASSUME NEW b \in Reading' \ contested'
                 PROVE  Reading' = {b} /\ Honest(b)'
      BY DEF ReadersHonest
    <3>1. Reading = {} /\ stdin = <<>> /\ b = a
      BY <1>5, <2>2 DEF Ask
    <3> QED  BY <1>1, <2>2, <3>1 DEF Honest
  <2>7. LinesHonest'
    BY <1>1, <2>2, <2>4 DEF ApproversInv, LinesHonest
  <2>8. UnaskedFresh'
    BY <1>2, <2>2 DEF ApproversInv, UnaskedFresh
  <2> QED  BY <1>3, <2>3, <2>5, <2>6, <2>7, <2>8 DEF ApproversInv
<1> QED  BY <1>4, <1>5

\* An answer typed while another prompt reads makes that one contested.
LEMMA AnswerKeeps ==
    ASSUME ApproversInv, NEW a \in Asks, Answer(a)
    PROVE  ApproversInv'
<1>1. PICK answer \in HumanAnswers :
         /\ answered' = [answered EXCEPT ![a] = answer]
         /\ stdin' = IF approver = "console" THEN stdin \o Typed(answer) ELSE stdin
  BY DEF Answer
<1>2. /\ answered[a] = NoAnswer /\ asked[a] # "no"
      /\ contested' = contested \cup (Reading \ {a})
      /\ UNCHANGED <<approver, asked, reply, reader, eof>>
  BY DEF Answer
<1>3. answer \in {"yes", "no", "modify", "other"} /\ NoAnswer # "yes"
  BY HumanAnswersAssumption
<1>4. Typed(answer) \in Seq(Pieces) /\ Typed(answer) # <<>>
      /\ (Typed(answer)[1] = "y" <=> answer = "yes")
  BY <1>3, TypedLine
<1>5. Reading' = Reading
  BY <1>2 DEF Reading
<1>6. stdin \in Seq(Pieces) /\ stdin' \in Seq(Pieces)
  <2>1. stdin \in Seq(Pieces)
    BY DEF ApproversInv, PipesOK
  <2> QED  BY <1>1, <1>4, <2>1
<1>7. /\ answered' \in [Asks -> HumanAnswers \cup {NoAnswer}] /\ answered'[a] = answer
      /\ \A b \in Asks : answered[b] = "yes" => answered'[b] = "yes"
  BY <1>1, <1>2, <1>3 DEF ApproversInv, ApproversTypeOK
<1>8. ApproversTypeOK' /\ PipesOK'
  BY <1>2, <1>6, <1>7 DEF ApproversInv, ApproversTypeOK, PipesOK, Reading
<1>9. ReadersHonest'
  <2> SUFFICES ASSUME NEW b \in Reading' \ contested'
               PROVE  Reading' = {b} /\ Honest(b)'
    BY DEF ReadersHonest
  <2>1. b = a /\ Reading = {a} /\ Honest(a)
    BY <1>2, <1>5 DEF ApproversInv, ReadersHonest
  <2>2. answered[a] # "yes"
    BY <1>2, <1>3
  <2>3. CASE reader[a].read # <<>>
    BY <1>2, <1>5, <2>1, <2>2, <2>3 DEF Honest
  <2>4. CASE reader[a].read = <<>> /\ stdin # <<>>
    <3>1. stdin[1] # "y"
      BY <2>1, <2>2, <2>4 DEF Honest
    <3>2. stdin'[1] = stdin[1]
      BY <1>1, <1>4, <1>6, <2>4
    <3> QED  BY <1>2, <1>5, <2>1, <2>4, <3>1, <3>2 DEF Honest
  <2>5. CASE reader[a].read = <<>> /\ stdin = <<>>
    <3>1. stdin' = <<>> \/ stdin' = Typed(answer)
      BY <1>1, <1>4, <2>5
    <3> QED  BY <1>2, <1>4, <1>5, <1>7, <2>1, <2>5, <3>1 DEF Honest
  <2> QED  BY <2>3, <2>4, <2>5
<1>10. LinesHonest'
  BY <1>2, <1>7 DEF ApproversInv, LinesHonest
<1>11. RepliesGiven' /\ UnaskedFresh'
  BY <1>2 DEF ApproversInv, RepliesGiven, UnaskedFresh
<1> QED  BY <1>8, <1>9, <1>10, <1>11 DEF ApproversInv

\* What a reader does with standard input.
LEMMA ReadEffect ==
    ASSUME ApproversInv, NEW a \in Asks, Read(a)
    PROVE  \E new \in [state : {"reading", "sent"}, read : Seq(Pieces)] :
             /\ reader' = [reader EXCEPT ![a] = new]
             /\ \/ /\ stdin # <<>> /\ stdin' = Tail(stdin)
                   /\ \/ new.state = "sent" /\ new.read = reader[a].read
                      \/ new.state = "reading" /\ new.read = Append(reader[a].read, Head(stdin))
                \/ stdin' = stdin /\ new.state = "sent" /\ new.read = reader[a].read
<1>1. stdin \in Seq(Pieces) /\ reader[a] \in [state : {"none", "reading", "sent"}, read : Seq(Pieces)]
  BY DEF ApproversInv, PipesOK
<1>2. reader[a].read \in Seq(Pieces) /\ reader[a].state = "reading"
  BY <1>1, ReaderFields DEF Read, Reading
<1> DEFINE ended == [state |-> "sent", read |-> reader[a].read]
           longer == [state |-> "reading", read |-> Append(reader[a].read, Head(stdin))]
<1>3. /\ ended \in [state : {"reading", "sent"}, read : Seq(Pieces)]
      /\ ended.state = "sent" /\ ended.read = reader[a].read
      /\ [reader[a] EXCEPT !.state = "sent"] = ended
  BY <1>1, <1>2, ReaderFields
<1>4. ASSUME stdin # <<>>
      PROVE  /\ longer \in [state : {"reading", "sent"}, read : Seq(Pieces)]
             /\ longer.state = "reading" /\ longer.read = Append(reader[a].read, Head(stdin))
             /\ [reader[a] EXCEPT !.read = Append(reader[a].read, Head(stdin))] = longer
  <2>1. Head(stdin) \in Pieces
    BY <1>1, <1>4
  <2>2. Append(reader[a].read, Head(stdin)) \in Seq(Pieces)
    BY <1>2, <2>1
  <2> QED  BY <1>1, <1>2, <2>2, ReaderFields
<1> HIDE DEF ended, longer
<1>5. CASE stdin # <<>>
  <2>1. stdin' = Tail(stdin) /\ (reader' = [reader EXCEPT ![a] = ended]
                                 \/ reader' = [reader EXCEPT ![a] = longer])
    <3>1. stdin' = Tail(stdin)
      BY <1>5 DEF Read
    <3>2. reader' = IF Ends(reader[a].read, Head(stdin))
                    THEN [reader EXCEPT ![a] = [reader[a] EXCEPT !.state = "sent"]]
                    ELSE [reader EXCEPT ![a] = [reader[a] EXCEPT !.read = Append(reader[a].read, Head(stdin))]]
      BY <1>5 DEF Read
    <3>3. CASE Ends(reader[a].read, Head(stdin))
      BY <1>3, <3>1, <3>2, <3>3
    <3>4. CASE ~Ends(reader[a].read, Head(stdin))
      BY <1>4, <1>5, <3>1, <3>2, <3>4
    <3> QED  BY <3>3, <3>4
  <2> QED  BY <1>3, <1>4, <1>5, <2>1
<1>6. CASE stdin = <<>>
  <2>1. stdin' = stdin /\ reader' = [reader EXCEPT ![a].state = "sent"]
    BY <1>6 DEF Read
  <2>2. reader' = [reader EXCEPT ![a] = ended]
    BY <1>3, <2>1
  <2> QED  BY <1>3, <2>1, <2>2
<1> QED  BY <1>5, <1>6

LEMMA ReadKeeps ==
    ASSUME ApproversInv, NEW a \in Asks, Read(a)
    PROVE  ApproversInv'
<1>1. a \in Reading /\ UNCHANGED <<approver, asked, reply, eof, answered, contested>>
  BY DEF Read
<1>2. PICK new \in [state : {"reading", "sent"}, read : Seq(Pieces)] :
             /\ reader' = [reader EXCEPT ![a] = new]
             /\ \/ /\ stdin # <<>> /\ stdin' = Tail(stdin)
                   /\ \/ new.state = "sent" /\ new.read = reader[a].read
                      \/ new.state = "reading" /\ new.read = Append(reader[a].read, Head(stdin))
                \/ stdin' = stdin /\ new.state = "sent" /\ new.read = reader[a].read
  BY ReadEffect
<1>3. stdin \in Seq(Pieces) /\ reader[a].read \in Seq(Pieces)
  BY DEF ApproversInv, PipesOK
<1>4. /\ reader' \in [Asks -> [state : {"none", "reading", "sent"}, read : Seq(Pieces)]]
      /\ reader'[a] = new /\ \A b \in Asks : b # a => reader'[b] = reader[b]
  BY <1>2 DEF ApproversInv, PipesOK
<1>5. Reading' \subseteq Reading /\ (a \in Reading' => new.state = "reading")
  BY <1>1, <1>4 DEF Reading
<1>6. ApproversTypeOK' /\ PipesOK'
  <2>1. stdin' \in Seq(Pieces)
    <3>1. stdin' = stdin \/ (stdin # <<>> /\ stdin' = Tail(stdin))
      BY <1>2
    <3>2. stdin # <<>> => Tail(stdin) \in Seq(Pieces)
      BY <1>3
    <3> QED  BY <1>3, <3>1, <3>2
  <2>2. PipesOK'
    BY <1>4, <2>1 DEF PipesOK
  <2> QED  BY <1>1, <1>4, <2>2 DEF ApproversInv, ApproversTypeOK
<1>7. a \notin contested => Reading = {a} /\ Honest(a)
  BY <1>1 DEF ApproversInv, ReadersHonest
<1>8. ReadersHonest'
  <2> SUFFICES ASSUME NEW b \in Reading' \ contested'
               PROVE  Reading' = {b} /\ Honest(b)'
    BY DEF ReadersHonest
  <2>1. b = a /\ Reading' = {a} /\ Honest(a)
    BY <1>1, <1>5, <1>7 DEF ApproversInv, ReadersHonest
  <2>2. stdin # <<>> /\ new.read = Append(reader[a].read, Head(stdin))
    BY <1>2, <1>5, <2>1
  <2>3. /\ new.read # <<>>
        /\ reader[a].read = <<>> => new.read[1] = stdin[1]
        /\ reader[a].read # <<>> => new.read[1] = reader[a].read[1]
    <3>1. Head(stdin) = stdin[1]
      BY <1>3, <2>2
    <3> QED  BY <1>3, <2>2, <3>1
  <2> QED  BY <1>1, <1>4, <2>1, <2>2, <2>3 DEF Honest
<1>9. LinesHonest'
  <2> SUFFICES ASSUME NEW b \in Asks \ contested',
                      reader'[b].state = "sent", reader'[b].read = <<"y">>
               PROVE  answered'[b] = "yes"
    BY DEF LinesHonest
  <2>1. CASE b # a
    BY <1>1, <1>4, <2>1 DEF ApproversInv, LinesHonest
  <2>2. CASE b = a
    <3>1. reader[a].read = <<"y">> /\ Honest(a)
      BY <1>1, <1>2, <1>4, <1>7, <2>2
    <3>2. reader[a].read[1] = "y" /\ reader[a].read # <<>>
      BY <3>1
    <3> QED  BY <1>1, <2>2, <3>1, <3>2 DEF Honest
  <2> QED  BY <2>1, <2>2
<1>10. RepliesGiven' /\ UnaskedFresh'
  <2>1. asked[a] # "no"
    BY <1>1 DEF ApproversInv, UnaskedFresh, Reading
  <2> QED  BY <1>1, <1>4, <2>1 DEF ApproversInv, RepliesGiven, UnaskedFresh
<1> QED  BY <1>6, <1>8, <1>9, <1>10 DEF ApproversInv

LEMMA ReplyKeeps ==
    ASSUME ApproversInv, NEW a \in Asks, NEW rep \in GivenReplies, Reply(a, rep)
    PROVE  ApproversInv'
<1>1. /\ asked' = [asked EXCEPT ![a] = "returned"] /\ reply' = [reply EXCEPT ![a] = rep]
      /\ UNCHANGED <<approver, reader, stdin, eof, answered, contested>>
  BY DEF Reply
<1>2. rep \in Replies
  <2>1. GivenReplies \subseteq Replies
    BY DEF GivenReplies, Replies, Approved, Rejected, Modify, CancelledReply
  <2> QED  BY <2>1
<1>3. ApproversTypeOK' /\ PipesOK'
  BY <1>1, <1>2 DEF ApproversInv, ApproversTypeOK, PipesOK
<1>4. Reading' = Reading /\ \A b \in Asks : Honest(b)' = Honest(b)
  BY <1>1 DEF Reading, Honest
<1>5. RepliesGiven'
  BY <1>1 DEF ApproversInv, ApproversTypeOK, RepliesGiven
<1>6. UnaskedFresh'
  BY <1>1 DEF ApproversInv, ApproversTypeOK, UnaskedFresh
<1>7. ReadersHonest' /\ LinesHonest'
  BY <1>1, <1>4 DEF ApproversInv, ReadersHonest, LinesHonest, Reading
<1> QED  BY <1>3, <1>5, <1>6, <1>7 DEF ApproversInv

LEMMA ApproversStep ==
    ASSUME ApproversInv, ApproverStep
    PROVE  ApproversInv'
<1>1. \A read : Interpret(read) \in GivenReplies
  BY DEF Interpret, GivenReplies
<1>2. \A answer : Decision(answer) \in GivenReplies
  BY DEF Decision, GivenReplies
<1>3. ASSUME NEW a \in Asks,
             ConsoleDecides(a) \/ ConsoleCancelled(a) \/ HTTPDecides(a) \/ HTTPFails(a)
      PROVE  ApproversInv'
  <2>1. CancelledReply \in GivenReplies /\ Rejected \in GivenReplies
    BY DEF GivenReplies
  <2>2. PICK rep \in GivenReplies : Reply(a, rep)
    BY <1>1, <1>2, <1>3, <2>1 DEF ConsoleDecides, ConsoleCancelled, HTTPDecides, HTTPFails
  <2> QED  BY <2>2, ReplyKeeps
<1>4. CASE CloseInput \/ UNCHANGED approverVars
  <2>1. /\ eof' \in BOOLEAN
        /\ UNCHANGED <<approver, asked, reply, reader, stdin, answered, contested>>
    BY <1>4 DEF CloseInput, approverVars, ApproversInv, ApproversTypeOK
  <2>2. Reading' = Reading /\ \A b \in Asks : Honest(b)' = Honest(b)
    BY <2>1 DEF Reading, Honest
  <2>3. ReadersHonest' /\ LinesHonest'
    BY <2>1, <2>2 DEF ApproversInv, ReadersHonest, LinesHonest, Reading
  <2>4. RepliesGiven' /\ UnaskedFresh'
    BY <2>1 DEF ApproversInv, RepliesGiven, UnaskedFresh
  <2>5. ApproversTypeOK' /\ PipesOK'
    BY <2>1 DEF ApproversInv, ApproversTypeOK, PipesOK
  <2> QED  BY <2>3, <2>4, <2>5 DEF ApproversInv
<1> QED  BY <1>3, <1>4, AskKeeps, AnswerKeeps, ReadKeeps DEF ApproverStep

\* A gated call is cleared by a yes to it; without one, only on a console that
\* it had to share.
Cleared(a) == answered[a] = "yes" \/ a \in contested

LEMMA ApprovalIsCleared ==
    ASSUME ApproversInv, NEW a \in Asks,
           ConsoleDecides(a) \/ ConsoleCancelled(a) \/ HTTPDecides(a) \/ HTTPFails(a),
           ~reply'[a].err
    PROVE  Cleared(a)'
<1>1. /\ Approved.err = FALSE /\ Rejected.err = TRUE
      /\ Modify.err = TRUE /\ CancelledReply.err = TRUE
  BY DEF Approved, Rejected, Modify, CancelledReply
<1>2. \A rep : Reply(a, rep) => reply'[a] = rep /\ UNCHANGED <<answered, contested>>
  BY DEF Reply, ApproversInv, ApproversTypeOK
<1>3. CASE ConsoleDecides(a)
  <2>1. Interpret(reader[a].read).err = FALSE => reader[a].read = <<"y">>
    BY <1>1 DEF Interpret
  <2>2. reader[a].read = <<"y">> /\ reader[a].state = "sent"
    BY <1>2, <1>3, <2>1 DEF ConsoleDecides
  <2> QED  BY <1>2, <1>3, <2>2 DEF ConsoleDecides, ApproversInv, LinesHonest, Cleared
<1>4. CASE HTTPDecides(a)
  <2>1. Decision(answered[a]).err = FALSE => answered[a] = "yes"
    BY <1>1 DEF Decision
  <2> QED  BY <1>2, <1>4, <2>1 DEF HTTPDecides, Cleared
<1> QED  BY <1>1, <1>2, <1>3, <1>4 DEF ConsoleCancelled, HTTPFails

LEMMA ClearedStays ==
    ASSUME ApproversInv, ApproverStep, NEW a \in Asks, Cleared(a)
    PROVE  Cleared(a)'
<1>1. contested \subseteq contested'
  BY DEF ApproverStep, Ask, Answer, Read, ConsoleDecides, ConsoleCancelled, HTTPDecides, HTTPFails,
         Reply, CloseInput, approverVars
<1>2. answered' # answered =>
        \E b \in Asks : answered[b] = NoAnswer /\ \E x : answered' = [answered EXCEPT ![b] = x]
  BY DEF ApproverStep, Ask, Answer, Read, ConsoleDecides, ConsoleCancelled, HTTPDecides, HTTPFails,
         Reply, CloseInput, approverVars
<1>3. NoAnswer # "yes"
  BY HumanAnswersAssumption
<1> QED  BY <1>1, <1>2, <1>3 DEF Cleared, ApproversInv, ApproversTypeOK

-----------------------------------------------------------------------------
(***************************************************************************)
(* The timeout.  A result that is on its way, or has arrived, says whether *)
(* the function acted, and no function acts twice.                         *)
(***************************************************************************)
Acted(c) == \E i \in DOMAIN effects : effects[i] = c

StartedOnce ==
    \A c \in Attempts :
        /\ caller[c] = "idle" <=> worker[c] = "none"
        /\ caller[c] = "returned" <=> verdict[c] # "none"
        /\ channel[c] # "empty" => worker[c] = "ended"
        /\ verdict[c] \in {"ok", "error"} => worker[c] = "ended"

ResultsTrue ==
    \A c \in Attempts :
        /\ worker[c] = "ok" \/ channel[c] = "ok" \/ verdict[c] = "ok" => Acted(c)
        /\ worker[c] \in {"none", "working", "error"} \/ channel[c] = "error" \/ verdict[c] = "error"
             => ~Acted(c)

ActsOnce == \A i, j \in DOMAIN effects : effects[i] = effects[j] => i = j

EffectsInv == TimeoutsTypeOK /\ StartedOnce /\ ResultsTrue /\ ActsOnce

\* The only step that takes effect appends the call to the effects.
LEMMA ActEffect ==
    ASSUME EffectsInv, NEW c \in Attempts, NEW heeds, Act(c, heeds)
    PROVE  /\ worker[c] = "working" /\ worker' = [worker EXCEPT ![c] = "ok"]
           /\ DOMAIN effects' = DOMAIN effects \cup {Len(effects) + 1}
           /\ \A i \in DOMAIN effects : i < Len(effects) + 1 /\ effects'[i] = effects[i]
           /\ effects'[Len(effects) + 1] = c
           /\ effects' \in Seq(Attempts)
           /\ UNCHANGED <<caller, channel, expired, verdict>>
<1>1. /\ effects \in Seq(Attempts) /\ effects' = Append(effects, c)
  BY DEF Act, EffectsInv, TimeoutsTypeOK
<1> QED  BY <1>1 DEF Act

LEMMA ActKeeps ==
    ASSUME EffectsInv, NEW c \in Attempts, NEW heeds, Act(c, heeds)
    PROVE  EffectsInv'
<1>1. /\ worker[c] = "working" /\ worker' = [worker EXCEPT ![c] = "ok"]
      /\ DOMAIN effects' = DOMAIN effects \cup {Len(effects) + 1}
      /\ \A i \in DOMAIN effects : i < Len(effects) + 1 /\ effects'[i] = effects[i]
      /\ effects'[Len(effects) + 1] = c
      /\ effects' \in Seq(Attempts)
      /\ UNCHANGED <<caller, channel, expired, verdict>>
  BY ActEffect
<1>2. TimeoutsTypeOK'
  BY <1>1 DEF EffectsInv, TimeoutsTypeOK
<1>3. \A d \in Attempts : Acted(d)' <=> Acted(d) \/ d = c
  BY <1>1 DEF Acted
<1>4. ~Acted(c)
  BY <1>1 DEF EffectsInv, ResultsTrue
<1>5. worker'[c] = "ok" /\ \A d \in Attempts : d # c => worker'[d] = worker[d]
  BY <1>1 DEF EffectsInv, TimeoutsTypeOK
<1>6. StartedOnce'
  BY <1>1, <1>5 DEF EffectsInv, StartedOnce
<1>7. ResultsTrue'
  <2> SUFFICES ASSUME NEW d \in Attempts
               PROVE  /\ worker'[d] = "ok" \/ channel'[d] = "ok" \/ verdict'[d] = "ok" => Acted(d)'
                      /\ worker'[d] \in {"none", "working", "error"} \/ channel'[d] = "error"
                         \/ verdict'[d] = "error" => ~Acted(d)'
    BY DEF ResultsTrue
  <2>1. CASE d = c
    <3>1. channel[c] = "empty" /\ verdict[c] \notin {"ok", "error"}
      BY <1>1 DEF EffectsInv, StartedOnce
    <3> QED  BY <1>1, <1>3, <1>5, <2>1, <3>1
  <2>2. CASE d # c
    BY <1>1, <1>3, <1>5, <2>2 DEF EffectsInv, ResultsTrue
  <2> QED  BY <2>1, <2>2
<1>8. ActsOnce'
  BY <1>1, <1>4 DEF EffectsInv, ActsOnce, Acted
<1> QED  BY <1>2, <1>6, <1>7, <1>8 DEF EffectsInv

\* A step that leaves the effects alone.
LEMMA QuietKeeps ==
    ASSUME EffectsInv, TimeoutsTypeOK', StartedOnce', effects' = effects,
           \A c \in Attempts :
              /\ worker'[c] = "ok" \/ channel'[c] = "ok" \/ verdict'[c] = "ok" =>
                   worker[c] = "ok" \/ channel[c] = "ok" \/ verdict[c] = "ok"
              /\ \/ worker'[c] \in {"none", "working", "error"}
                 \/ channel'[c] = "error" \/ verdict'[c] = "error"
                 => \/ worker[c] \in {"none", "working", "error"}
                    \/ channel[c] = "error" \/ verdict[c] = "error"
    PROVE  EffectsInv'
<1>1. \A c \in Attempts : Acted(c)' = Acted(c)
  BY DEF Acted
<1>2. ResultsTrue'
  BY <1>1 DEF EffectsInv, ResultsTrue
<1>3. ActsOnce'
  BY DEF EffectsInv, ActsOnce
<1> QED  BY <1>2, <1>3 DEF EffectsInv

LEMMA TimeoutsStep ==
    ASSUME EffectsInv, TimeoutStep
    PROVE  EffectsInv'
<1> USE DEF EffectsInv
<1>1. ASSUME NEW c \in Attempts, NEW timed, NEW dead, StartAttempt(c, timed, dead)
      PROVE  EffectsInv'
  <2>1. PICK where \in {"selecting", "calling"} : caller' = [caller EXCEPT ![c] = where]
    BY <1>1 DEF StartAttempt
  <2>2. /\ caller[c] = "idle" /\ worker' = [worker EXCEPT ![c] = "working"]
        /\ expired' \in {expired, expired \cup {c}}
        /\ UNCHANGED <<channel, verdict, effects>>
    BY <1>1 DEF StartAttempt
  <2>3. TimeoutsTypeOK'
    BY <2>1, <2>2 DEF TimeoutsTypeOK
  <2>4. worker[c] = "none" /\ verdict[c] = "none" /\ channel[c] = "empty"
    BY <2>2 DEF StartedOnce, TimeoutsTypeOK
  <2>5. StartedOnce'
    BY <2>1, <2>2, <2>4 DEF StartedOnce, TimeoutsTypeOK
  <2> QED  BY <2>2, <2>3, <2>4, <2>5, QuietKeeps DEF TimeoutsTypeOK
<1>2. ASSUME NEW c \in Attempts, GiveUp(c)
      PROVE  EffectsInv'
  <2>1. /\ worker[c] = "working" /\ worker' = [worker EXCEPT ![c] = "error"]
        /\ UNCHANGED <<caller, channel, expired, verdict, effects>>
    BY <1>2 DEF GiveUp
  <2>2. TimeoutsTypeOK'
    BY <2>1 DEF TimeoutsTypeOK
  <2>3. StartedOnce'
    BY <2>1 DEF StartedOnce, TimeoutsTypeOK
  <2> QED  BY <2>1, <2>2, <2>3, QuietKeeps DEF TimeoutsTypeOK
<1>3. ASSUME NEW c \in Attempts, ReturnResult(c)
      PROVE  EffectsInv'
  <2>1. /\ caller[c] = "calling" /\ worker[c] \in {"ok", "error"}
        /\ verdict' = [verdict EXCEPT ![c] = worker[c]]
        /\ caller' = [caller EXCEPT ![c] = "returned"]
        /\ worker' = [worker EXCEPT ![c] = "ended"]
        /\ UNCHANGED <<channel, expired, effects>>
    BY <1>3 DEF ReturnResult, Return
  <2>2. TimeoutsTypeOK'
    BY <2>1 DEF TimeoutsTypeOK, Verdicts
  <2>3. StartedOnce'
    BY <2>1 DEF StartedOnce, TimeoutsTypeOK
  <2> QED  BY <2>1, <2>2, <2>3, QuietKeeps DEF TimeoutsTypeOK
<1>4. ASSUME NEW c \in Attempts, SendResult(c)
      PROVE  EffectsInv'
  <2>1. /\ worker[c] \in {"ok", "error"}
        /\ channel' = [channel EXCEPT ![c] = worker[c]]
        /\ worker' = [worker EXCEPT ![c] = "ended"]
        /\ UNCHANGED <<caller, expired, verdict, effects>>
    BY <1>4 DEF SendResult
  <2>2. TimeoutsTypeOK'
    BY <2>1 DEF TimeoutsTypeOK
  <2>3. StartedOnce'
    BY <2>1 DEF StartedOnce, TimeoutsTypeOK
  <2> QED  BY <2>1, <2>2, <2>3, QuietKeeps DEF TimeoutsTypeOK
<1>5. ASSUME NEW c \in Attempts, TakeResult(c)
      PROVE  EffectsInv'
  <2>1. /\ caller[c] = "selecting" /\ channel[c] # "empty"
        /\ verdict' = [verdict EXCEPT ![c] = channel[c]]
        /\ caller' = [caller EXCEPT ![c] = "returned"]
        /\ channel' = [channel EXCEPT ![c] = "empty"]
        /\ expired' = expired \cup {c}
        /\ UNCHANGED <<worker, effects>>
    BY <1>5 DEF TakeResult, Return
  <2>2. TimeoutsTypeOK'
    BY <2>1 DEF TimeoutsTypeOK, Verdicts
  <2>3. StartedOnce'
    BY <2>1 DEF StartedOnce, TimeoutsTypeOK
  <2> QED  BY <2>1, <2>2, <2>3, QuietKeeps DEF TimeoutsTypeOK
<1>6. ASSUME NEW c \in Attempts, ReportTimeout(c)
      PROVE  EffectsInv'
  <2>1. /\ caller[c] = "selecting"
        /\ verdict' = [verdict EXCEPT ![c] = "timeout"]
        /\ caller' = [caller EXCEPT ![c] = "returned"]
        /\ UNCHANGED <<worker, channel, expired, effects>>
    BY <1>6 DEF ReportTimeout, Return
  <2>2. TimeoutsTypeOK'
    BY <2>1 DEF TimeoutsTypeOK, Verdicts
  <2>3. StartedOnce'
    BY <2>1 DEF StartedOnce, TimeoutsTypeOK
  <2> QED  BY <2>1, <2>2, <2>3, QuietKeeps DEF TimeoutsTypeOK
<1>7. ASSUME NEW cut \in SUBSET Attempts, expired' = expired \cup cut,
             UNCHANGED <<caller, worker, channel, verdict, effects>>
      PROVE  EffectsInv'
  <2>1. TimeoutsTypeOK' /\ StartedOnce'
    BY <1>7 DEF TimeoutsTypeOK, StartedOnce
  <2> QED  BY <1>7, <2>1, QuietKeeps
<1> QED  BY <1>1, <1>2, <1>3, <1>4, <1>5, <1>6, <1>7, ActKeeps DEF TimeoutStep

-----------------------------------------------------------------------------
(***************************************************************************)
(* The runs                                                                *)
(***************************************************************************)
PositionsOK ==
    /\ at \in [Runs -> {"next", "approval", "approved", "call", "done"}]
    /\ next \in [Runs -> 1 .. RoundLength + 1]
    /\ \A r \in Runs :
         /\ next[r] <= Len(round[r]) + 1
         /\ at[r] \in {"approval", "approved", "call"} => next[r] <= Len(round[r])

RoundsOK ==
    /\ [build |-> build, approver |-> approver, round |-> round] \in Scenarios
    /\ cancelled \subseteq Runs
    /\ PositionsOK

\* A call is where its run is, and a run is at one call at a time.
Placed(c) ==
    /\ asked[c] = "waiting" <=> next[c[1]] = c[2] /\ at[c[1]] = "approval"
    /\ caller[c] \in {"selecting", "calling"} <=> next[c[1]] = c[2] /\ at[c[1]] = "call"
    /\ caller[c] = "returned" => c[2] < next[c[1]]

PlacesOK == \A c \in Calls : Placed(c)

CallsInv == RoundsOK /\ PlacesOK /\ ApproversInv /\ EffectsInv

\* The call a run is at is one of its round.
LEMMA CurrentCall ==
    ASSUME RoundsOK, NEW r \in Runs, next[r] <= Len(round[r])
    PROVE  Current(r) \in Calls /\ Current(r) \in Asks /\ Current(r) \in Attempts
<1>1. round \in [Runs -> Seq(DOMAIN Requests)] /\ Len(round[r]) <= RoundLength
  BY ScenariosAssumption DEF RoundsOK
<1>2. next[r] \in 1 .. RoundLength
  BY <1>1, CallsAssumption DEF RoundsOK, PositionsOK
<1> QED  BY <1>2, CallsAssumption DEF Current, Calls

(***************************************************************************)
(* What a step does to the places of the calls and to the outcomes; At(r,  *)
(* where) is a step of run r to another place with the same call.          *)
(***************************************************************************)
At(r, where) == at' = [at EXCEPT ![r] = where] /\ UNCHANGED <<next, outcome>>

Prompts(r) ==
    /\ at[r] = "next"
    /\ At(r, "approval")
    /\ asked' = [asked EXCEPT ![Current(r)] = "waiting"] /\ UNCHANGED caller

Skips(r) ==
    /\ at[r] = "next" /\ ~Tool(Current(r)).gated
    /\ At(r, "approved")
    /\ UNCHANGED <<asked, caller>>

Hears(r) ==
    /\ at[r] = "approval"
    /\ \/ Report(r, "rejected")
       \/ At(r, "approved") /\ \E c \in Asks : c = Current(r) /\ Cleared(c)'
    /\ asked' = [asked EXCEPT ![Current(r)] = "returned"] /\ UNCHANGED caller

Refuses(r) ==
    /\ at[r] = "approved"
    /\ Report(r, "invalid") \/ (Report(r, "refused") /\ ~Acceptable(Current(r)))
    /\ UNCHANGED <<asked, caller>>

Starts(r) ==
    /\ at[r] = "approved" /\ Acceptable(Current(r))
    /\ At(r, "call")
    /\ \E where \in {"selecting", "calling"} : caller' = [caller EXCEPT ![Current(r)] = where]
    /\ UNCHANGED asked

Finishes(r) ==
    /\ at[r] = "call"
    /\ Report(r, verdict'[Current(r)])
    /\ caller' = [caller EXCEPT ![Current(r)] = "returned"] /\ UNCHANGED asked

Leaves(r) == at[r] = "next" /\ At(r, "done") /\ UNCHANGED <<asked, caller>>

Moves(r) ==
    /\ next[r] <= Len(round[r])
    /\ Prompts(r) \/ Skips(r) \/ Hears(r) \/ Refuses(r) \/ Starts(r) \/ Finishes(r)

Move == \/ \E r \in Runs : Moves(r) \/ Leaves(r)
        \/ UNCHANGED <<at, next, outcome, asked, caller>>

\* A tool that acts has checked its arguments.
ActsChecked ==
    \/ effects' = effects
    \/ \E c \in Attempts : OwnCheck(Tool(c), Args(c)) /\ \E heeds : Act(c, heeds)

StepFacts == ApproverStep /\ TimeoutStep /\ Move /\ UNCHANGED <<build, round>>

LEMMA RequestSteps ==
    ASSUME RoundsOK, NEW r \in Runs, Request(r)
    PROVE  StepFacts /\ ActsChecked
<1>1. next[r] <= Len(round[r]) /\ Current(r) \in Asks
  BY CurrentCall DEF Request
<1>2. /\ at[r] = "next" /\ UNCHANGED <<build, alive, next, round, cancelled, outcome, timeoutVars>>
      /\ expired' = expired \cup {} /\ UNCHANGED <<caller, worker, channel, verdict, effects>>
  BY DEF Request, timeoutVars
<1>3. CASE Tool(Current(r)).gated
  <2>1. Ask(Current(r)) /\ at' = [at EXCEPT ![r] = "approval"]
    BY <1>3 DEF Request
  <2>2. asked' = [asked EXCEPT ![Current(r)] = "waiting"]
    BY <2>1 DEF Ask
  <2> QED  BY <1>1, <1>2, <2>1, <2>2
           DEF StepFacts, ActsChecked, ApproverStep, TimeoutStep, Move, Moves, Prompts, At
<1>4. CASE ~Tool(Current(r)).gated
  <2>1. UNCHANGED approverVars /\ at' = [at EXCEPT ![r] = "approved"]
    BY <1>4 DEF Request
  <2>2. asked' = asked
    BY <2>1 DEF approverVars
  <2> QED  BY <1>1, <1>2, <1>4, <2>1, <2>2
           DEF StepFacts, ActsChecked, ApproverStep, TimeoutStep, Move, Moves, Skips, At
<1> QED  BY <1>3, <1>4

LEMMA HearReplySteps ==
    ASSUME RoundsOK, ApproversInv, NEW r \in Runs, HearReply(r)
    PROVE  StepFacts /\ ActsChecked
<1>1. next[r] <= Len(round[r]) /\ Current(r) \in Asks /\ at[r] = "approval"
  BY CurrentCall DEF HearReply, RoundsOK, PositionsOK
<1>2. /\ UNCHANGED <<build, round>>
      /\ expired' = expired \cup {} /\ UNCHANGED <<caller, worker, channel, verdict, effects>>
  BY DEF HearReply, timeoutVars
<1>3. \/ ConsoleDecides(Current(r)) \/ ConsoleCancelled(Current(r))
      \/ HTTPDecides(Current(r)) \/ HTTPFails(Current(r))
  BY DEF HearReply, ApproverReturns
<1>4. asked' = [asked EXCEPT ![Current(r)] = "returned"]
  BY <1>3 DEF ConsoleDecides, ConsoleCancelled, HTTPDecides, HTTPFails, Reply
<1>5. \/ Report(r, "rejected")
      \/ At(r, "approved") /\ \E c \in Asks : c = Current(r) /\ Cleared(c)'
  <2>1. CASE reply'[Current(r)].err
    BY <2>1 DEF HearReply
  <2>2. CASE ~reply'[Current(r)].err
    <3>1. At(r, "approved")
      BY <2>2 DEF HearReply, At
    <3>2. PICK c \in Asks : c = Current(r)
      BY <1>1
    <3>3. Cleared(c)'
      BY <1>3, <2>2, <3>2, ApprovalIsCleared
    <3> QED  BY <3>1, <3>2, <3>3
  <2> QED  BY <2>1, <2>2
<1>6. Hears(r)
  BY <1>1, <1>2, <1>4, <1>5 DEF Hears
<1> QED  BY <1>1, <1>2, <1>3, <1>6 DEF StepFacts, ActsChecked, ApproverStep, TimeoutStep, Move, Moves

LEMMA CallWrappedSteps ==
    ASSUME RoundsOK, NEW r \in Runs, RefuseBySchema(r) \/ CallWrapped(r)
    PROVE  StepFacts /\ ActsChecked
<1>1. next[r] <= Len(round[r]) /\ Current(r) \in Attempts /\ at[r] = "approved"
  BY CurrentCall DEF RefuseBySchema, CallWrapped, RoundsOK, PositionsOK
<1>2. UNCHANGED <<build, round, approverVars, asked>>
  BY DEF RefuseBySchema, CallWrapped, approverVars
<1>3. ApproverStep
  BY <1>2 DEF ApproverStep
<1>4. CASE UNCHANGED timeoutVars /\ (Refuses(r) \/ UNCHANGED <<at, next, outcome>>)
  <2>1. expired' = expired \cup {} /\ UNCHANGED <<caller, worker, channel, verdict, effects>>
    BY <1>4 DEF timeoutVars
  <2> QED  BY <1>1, <1>2, <1>3, <1>4, <2>1 DEF StepFacts, ActsChecked, TimeoutStep, Move, Moves
<1>5. CASE RefuseBySchema(r)
  <2>1. Refuses(r)
    BY <1>1, <1>2, <1>5 DEF Refuses, RefuseBySchema, timeoutVars
  <2> QED  BY <1>4, <1>5, <2>1 DEF RefuseBySchema
<1>6. CASE CallWrapped(r)
  <2> DEFINE verdictOf == ChainVerdict(Tool(Current(r)).validators, Args(Current(r)))
  <2>1. CASE verdictOf = "pass"
    <3>1. /\ StartAttempt(Current(r), Tool(Current(r)).timed, r \in cancelled)
          /\ at' = [at EXCEPT ![r] = "call"] /\ UNCHANGED <<next, outcome>>
          /\ Acceptable(Current(r))
      BY <1>6, <2>1 DEF CallWrapped
    <3>2. /\ \E where \in {"selecting", "calling"} : caller' = [caller EXCEPT ![Current(r)] = where]
          /\ effects' = effects
      BY <3>1 DEF StartAttempt
    <3>3. Starts(r)
      BY <1>1, <1>2, <3>1, <3>2 DEF Starts, At
    <3> QED  BY <1>1, <1>2, <1>3, <3>1, <3>2, <3>3
             DEF StepFacts, ActsChecked, TimeoutStep, Move, Moves
  <2>2. CASE verdictOf = "refuse"
    <3>1. Report(r, "invalid") /\ UNCHANGED timeoutVars
      BY <1>6, <2>2 DEF CallWrapped
    <3>2. Refuses(r)
      BY <1>1, <1>2, <3>1 DEF Refuses, timeoutVars
    <3> QED  BY <1>4, <3>1, <3>2
  <2>3. CASE verdictOf \notin {"pass", "refuse"}
    <3>1. UNCHANGED <<at, next, outcome, timeoutVars>>
      BY <1>6, <2>3 DEF CallWrapped
    <3> QED  BY <1>4, <3>1
  <2> QED  BY <2>1, <2>2, <2>3
<1> QED  BY <1>5, <1>6

LEMMA CallReturnsSteps ==
    ASSUME RoundsOK, NEW r \in Runs, CallReturns(r)
    PROVE  StepFacts /\ ActsChecked
<1>1. next[r] <= Len(round[r]) /\ Current(r) \in Attempts /\ at[r] = "call"
  BY CurrentCall DEF CallReturns, RoundsOK, PositionsOK
<1>2. UNCHANGED <<build, round, approverVars, asked>> /\ Report(r, verdict'[Current(r)])
  BY DEF CallReturns, approverVars
<1>3. ReturnResult(Current(r)) \/ TakeResult(Current(r)) \/ ReportTimeout(Current(r))
  BY DEF CallReturns
<1>4. caller' = [caller EXCEPT ![Current(r)] = "returned"] /\ effects' = effects
  BY <1>3 DEF ReturnResult, TakeResult, ReportTimeout, Return
<1>5. Finishes(r)
  BY <1>1, <1>2, <1>4 DEF Finishes
<1> QED  BY <1>1, <1>2, <1>3, <1>4, <1>5
         DEF StepFacts, ActsChecked, ApproverStep, TimeoutStep, Move, Moves

LEMMA OtherSteps ==
    ASSUME [CallsNext]_callVars, \A r \in Runs : ~RunStep(r)
    PROVE  StepFacts /\ ActsChecked
<1>1. CASE UNCHANGED callVars
  <2>1. /\ UNCHANGED <<approverVars, build, round, at, next, outcome, asked>>
        /\ expired' = expired \cup {} /\ UNCHANGED <<caller, worker, channel, verdict, effects>>
    BY <1>1 DEF callVars, runVars, timeoutVars, approverVars
  <2> QED  BY <2>1 DEF StepFacts, ActsChecked, ApproverStep, TimeoutStep, Move
<1>2. ASSUME NEW r \in Runs, CancelRun(r)
      PROVE  StepFacts /\ ActsChecked
  <2>1. /\ UNCHANGED <<approverVars, build, round, at, next, outcome, asked>>
        /\ \E cut \in SUBSET Attempts : expired' = expired \cup cut
        /\ UNCHANGED <<caller, worker, channel, verdict, effects>>
    BY <1>2, CallsAssumption DEF CancelRun, approverVars
  <2> QED  BY <2>1 DEF StepFacts, ActsChecked, ApproverStep, TimeoutStep, Move
<1>3. ASSUME NEW c \in Calls, FunctionActs(c)
      PROVE  StepFacts /\ ActsChecked
  <2>1. UNCHANGED <<approverVars, build, round, at, next, outcome, asked, caller>>
    BY <1>3 DEF FunctionActs, Act, runVars, approverVars
  <2>2. Act(c, Tool(c).heeds) /\ OwnCheck(Tool(c), Args(c))
    BY <1>3 DEF FunctionActs
  <2> QED  BY <2>1, <2>2, CallsAssumption DEF StepFacts, ActsChecked, ApproverStep, TimeoutStep, Move
<1>4. ASSUME NEW c \in Calls, FunctionFails(c) \/ GoroutineSends(c)
      PROVE  StepFacts /\ ActsChecked
  <2>1. UNCHANGED <<approverVars, build, round, at, next, outcome, asked, caller, effects>>
    BY <1>4 DEF FunctionFails, GoroutineSends, GiveUp, SendResult, runVars, approverVars
  <2>2. GiveUp(c) \/ SendResult(c)
    BY <1>4 DEF FunctionFails, GoroutineSends
  <2> QED  BY <2>1, <2>2, CallsAssumption DEF StepFacts, ActsChecked, ApproverStep, TimeoutStep, Move
<1>5. ASSUME NEW c \in Calls, DeadlinePasses(c)
      PROVE  StepFacts /\ ActsChecked
  <2>1. /\ UNCHANGED <<approverVars, build, round, at, next, outcome, asked>>
        /\ expired' = expired \cup {c} /\ {c} \in SUBSET Attempts
        /\ UNCHANGED <<caller, worker, channel, verdict, effects>>
    BY <1>5, CallsAssumption DEF DeadlinePasses, Expire, runVars, approverVars
  <2> QED  BY <2>1 DEF StepFacts, ActsChecked, ApproverStep, TimeoutStep, Move
<1>6. ASSUME \/ \E c \in Calls : ReaderReads(c) \/ PersonAnswers(c)
             \/ InputCloses
      PROVE  StepFacts /\ ActsChecked
  <2>1. /\ UNCHANGED <<build, round, at, next, outcome, asked>>
        /\ expired' = expired \cup {} /\ UNCHANGED <<caller, worker, channel, verdict, effects>>
    BY <1>6 DEF ReaderReads, PersonAnswers, InputCloses, Read, Answer, CloseInput, runVars, timeoutVars
  <2>2. ApproverStep
    BY <1>6, CallsAssumption DEF ReaderReads, PersonAnswers, InputCloses, ApproverStep
  <2> QED  BY <2>1, <2>2 DEF StepFacts, ActsChecked, TimeoutStep, Move
<1> QED  BY <1>1, <1>2, <1>3, <1>4, <1>5, <1>6 DEF CallsNext, Stopped

LEMMA CallSteps ==
    ASSUME CallsInv, [CallsNext]_callVars
    PROVE  StepFacts /\ ActsChecked
<1>1. ASSUME NEW r \in Runs, RoundEnds(r)
      PROVE  StepFacts /\ ActsChecked
  <2>1. /\ UNCHANGED <<approverVars, build, round, asked>> /\ Leaves(r)
        /\ expired' = expired \cup {} /\ UNCHANGED <<caller, worker, channel, verdict, effects>>
    BY <1>1 DEF RoundEnds, Leaves, At, approverVars, timeoutVars
  <2> QED  BY <2>1 DEF StepFacts, ActsChecked, ApproverStep, TimeoutStep, Move
<1> QED  BY <1>1, RequestSteps, HearReplySteps, CallWrappedSteps, CallReturnsSteps, OtherSteps
         DEF CallsInv, RunStep

LEMMA RoundsKept ==
    ASSUME CallsInv, [CallsNext]_callVars
    PROVE  RoundsOK'
<1>1. Move /\ ApproverStep /\ UNCHANGED <<build, round>>
  BY CallSteps DEF StepFacts
<1>2. approver' = approver
  BY <1>1 DEF ApproverStep, Ask, Answer, Read, ConsoleDecides, ConsoleCancelled, HTTPDecides,
              HTTPFails, Reply, CloseInput, approverVars
<1>3. cancelled' \subseteq Runs
  BY DEF CallsInv, RoundsOK, CallsNext, RunStep, Request, HearReply, RefuseBySchema, CallWrapped,
         CallReturns, RoundEnds, CancelRun, FunctionActs, FunctionFails, GoroutineSends,
         DeadlinePasses, ReaderReads, PersonAnswers, InputCloses, Stopped, callVars, runVars
<1>4. PositionsOK'
  <2>1. \A r \in Runs : Len(round[r]) <= RoundLength /\ Len(round[r]) \in Nat
    <3>1. round \in [Runs -> Seq(DOMAIN Requests)] /\ \A r \in Runs : Len(round[r]) <= RoundLength
      BY ScenariosAssumption DEF CallsInv, RoundsOK
    <3> QED  BY <3>1
  <2>2. CASE UNCHANGED <<at, next>>
    BY <2>2, <1>1 DEF CallsInv, RoundsOK, PositionsOK
  <2>3. ASSUME NEW r \in Runs, NEW where \in {"approval", "approved", "call"},
               next[r] <= Len(round[r]), At(r, where)
        PROVE  PositionsOK'
    BY <2>3, <1>1 DEF CallsInv, RoundsOK, PositionsOK, At
  <2>4. ASSUME NEW r \in Runs, At(r, "done")
        PROVE  PositionsOK'
    BY <2>4, <1>1 DEF CallsInv, RoundsOK, PositionsOK, At
  <2>5. ASSUME NEW r \in Runs, next[r] <= Len(round[r]), NEW what, Report(r, what)
        PROVE  PositionsOK'
    <3>1. next' = [next EXCEPT ![r] = next[r] + 1] /\ at' = [at EXCEPT ![r] = "next"]
      BY <2>5 DEF Report
    <3>2. next[r] + 1 \in 1 .. RoundLength + 1
      BY <2>1, <2>5, CallsAssumption DEF CallsInv, RoundsOK, PositionsOK
    <3>3. next'[r] <= Len(round[r]) + 1 /\ at'[r] = "next"
      BY <2>1, <2>5, <3>1 DEF CallsInv, RoundsOK, PositionsOK
    <3> QED  BY <1>1, <3>1, <3>2, <3>3 DEF CallsInv, RoundsOK, PositionsOK
  <2> QED  BY <1>1, <2>2, <2>3, <2>4, <2>5
           DEF Move, Moves, Prompts, Skips, Hears, Refuses, Starts, Finishes, Leaves
<1> QED  BY <1>1, <1>2, <1>3, <1>4 DEF CallsInv, RoundsOK

\* A call is named by its run and its position.
LEMMA CallNames ==
    ASSUME RoundsOK, NEW r \in Runs, NEW c \in Calls
    PROVE  /\ c[1] \in Runs /\ c[2] \in 1 .. RoundLength /\ next[r] \in Nat
           /\ c = Current(r) <=> c[1] = r /\ next[c[1]] = c[2]
BY CallsAssumption DEF Calls, Current, RoundsOK, PositionsOK

LEMMA PlacesKept ==
    ASSUME CallsInv, [CallsNext]_callVars
    PROVE  PlacesOK'
<1>1. Move
  BY CallSteps DEF StepFacts
<1>2. /\ asked \in [Calls -> {"no", "waiting", "returned"}]
      /\ caller \in [Calls -> {"idle", "selecting", "calling", "returned"}]
      /\ at \in [Runs -> {"next", "approval", "approved", "call", "done"}]
      /\ next \in [Runs -> Nat]
  BY CallsAssumption DEF CallsInv, ApproversInv, ApproversTypeOK, EffectsInv, TimeoutsTypeOK,
                            RoundsOK, PositionsOK
<1> SUFFICES ASSUME NEW c \in Calls PROVE Placed(c)'
  BY DEF PlacesOK
<1>3. Placed(c) /\ c[1] \in Runs /\ c[2] \in Nat
  <2>1. c[1] \in Runs /\ c[2] \in 1 .. RoundLength
    BY DEF Calls
  <2> QED  BY <2>1, CallsAssumption DEF CallsInv, PlacesOK
<1>4. CASE UNCHANGED <<at, next, asked, caller>>
  BY <1>3, <1>4 DEF Placed
<1>5. ASSUME NEW r \in Runs, Moves(r) \/ Leaves(r)
      PROVE  Placed(c)'
  <2>1. PICK d : d = Current(r) /\ (Leaves(r) \/ d \in Calls)
    BY <1>5, CurrentCall DEF Moves, CallsInv
  <2>2. c = d <=> c[1] = r /\ next[c[1]] = c[2]
    BY <2>1, CallNames DEF CallsInv
  <2>3. CASE Prompts(r) /\ d \in Calls
    BY <1>2, <1>3, <2>1, <2>2, <2>3 DEF Prompts, At, Placed
  <2>4. CASE Skips(r) \/ Leaves(r)
    BY <1>2, <1>3, <2>4 DEF Skips, Leaves, At, Placed
  <2>5. CASE Hears(r) /\ d \in Calls
    <3>1. asked' = [asked EXCEPT ![d] = "returned"] /\ caller' = caller /\ at[r] = "approval"
      BY <2>1, <2>5 DEF Hears
    <3>2. CASE at' = [at EXCEPT ![r] = "approved"] /\ next' = next
      BY <1>2, <1>3, <2>2, <3>1, <3>2 DEF Placed
    <3>3. CASE at' = [at EXCEPT ![r] = "next"] /\ next' = [next EXCEPT ![r] = next[r] + 1]
      BY <1>2, <1>3, <2>2, <2>5, <3>1, <3>3 DEF Placed
    <3> QED  BY <2>5, <3>2, <3>3 DEF Hears, At, Report
  <2>6. CASE Refuses(r)
    <3>1. /\ UNCHANGED <<asked, caller>> /\ at[r] = "approved"
          /\ at' = [at EXCEPT ![r] = "next"] /\ next' = [next EXCEPT ![r] = next[r] + 1]
      BY <2>6 DEF Refuses, Report
    <3> QED  BY <1>2, <1>3, <3>1 DEF Placed
  <2>7. CASE Starts(r) /\ d \in Calls
    <3>1. PICK where \in {"selecting", "calling"} : caller' = [caller EXCEPT ![d] = where]
      BY <2>1, <2>7 DEF Starts
    <3>2. asked' = asked /\ at[r] = "approved" /\ at' = [at EXCEPT ![r] = "call"] /\ next' = next
      BY <2>7 DEF Starts, At
    <3> QED  BY <1>2, <1>3, <2>2, <2>7, <3>1, <3>2 DEF Placed
  <2>8. CASE Finishes(r) /\ d \in Calls
    <3>1. /\ caller' = [caller EXCEPT ![d] = "returned"] /\ asked' = asked /\ at[r] = "call"
          /\ at' = [at EXCEPT ![r] = "next"] /\ next' = [next EXCEPT ![r] = next[r] + 1]
      BY <2>1, <2>8 DEF Finishes, Report
    <3> QED  BY <1>2, <1>3, <2>2, <2>8, <3>1 DEF Placed
  <2> QED  BY <1>5, <2>1, <2>3, <2>4, <2>5, <2>6, <2>7, <2>8 DEF Moves, Leaves
<1> QED  BY <1>1, <1>4, <1>5 DEF Move

LEMMA CallsInvStep ==
    ASSUME CallsInv, [CallsNext]_callVars
    PROVE  CallsInv'
BY CallSteps, RoundsKept, PlacesKept, ApproversStep, TimeoutsStep DEF CallsInv, StepFacts

LEMMA CallsInvInit == CallsInit => CallsInv
<1> SUFFICES ASSUME CallsInit PROVE CallsInv
  OBVIOUS
<1>1. RoundsOK
  BY ScenariosAssumption, CallsAssumption DEF CallsInit, RoundsOK, PositionsOK
<1>2. PlacesOK
  BY CallsAssumption DEF CallsInit, ApproversInit, TimeoutsInit, PlacesOK, Placed, Calls
<1>3. ApproversInv
  <2>1. approver \in ApproverKinds
    BY ScenariosAssumption DEF CallsInit
  <2>2. \A a \in Asks : reader[a] = [state |-> "none", read |-> <<>>]
    BY DEF CallsInit, ApproversInit
  <2>3. ApproversTypeOK
    BY <2>1, <2>2 DEF CallsInit, ApproversInit, ApproversTypeOK
  <2>4. PipesOK
    <3>1. <<>> \in Seq(Pieces)
      OBVIOUS
    <3>2. [state |-> "none", read |-> <<>>] \in [state : {"none", "reading", "sent"}, read : Seq(Pieces)]
      BY <3>1
    <3> QED  BY <3>1, <3>2 DEF CallsInit, ApproversInit, PipesOK
  <2>5. Reading = {}
    BY <2>2 DEF Reading
  <2> QED  BY <2>2, <2>3, <2>4, <2>5
           DEF CallsInit, ApproversInit, ApproversInv, RepliesGiven, UnaskedFresh, ReadersHonest, LinesHonest
<1>4. EffectsInv
  BY DEF CallsInit, TimeoutsInit, EffectsInv, TimeoutsTypeOK, StartedOnce, ResultsTrue, ActsOnce, Acted
<1> QED  BY <1>1, <1>2, <1>3, <1>4 DEF CallsInv

LEMMA CallsInvHolds == CallsSpec => []CallsInv
BY CallsInvInit, CallsInvStep, PTL DEF CallsSpec

OutcomesOK ==
    /\ alive \in BOOLEAN
    /\ outcome \in [Calls -> Verdicts \cup {"none", "rejected", "refused", "invalid"}]

LEMMA OutcomesStep ==
    ASSUME CallsInv, OutcomesOK, [CallsNext]_callVars
    PROVE  OutcomesOK'
<1>1. Move /\ EffectsInv' /\ Attempts = Calls
  BY CallSteps, CallsInvStep, CallsAssumption DEF StepFacts, CallsInv
<1>2. alive' \in BOOLEAN
  BY DEF OutcomesOK, CallsNext, RunStep, Request, HearReply, RefuseBySchema, CallWrapped,
         CallReturns, RoundEnds, CancelRun, FunctionActs, FunctionFails, GoroutineSends,
         DeadlinePasses, ReaderReads, PersonAnswers, InputCloses, Stopped, callVars, runVars
<1>3. outcome' \in [Calls -> Verdicts \cup {"none", "rejected", "refused", "invalid"}]
  <2>1. ASSUME NEW r \in Runs, Moves(r) \/ Leaves(r)
        PROVE  outcome' = outcome \/ \E what \in Verdicts \cup {"none", "rejected", "refused", "invalid"} :
                                        outcome' = [outcome EXCEPT ![Current(r)] = what]
    <3>1. CASE Finishes(r) /\ Moves(r)
      <4>1. PICK d \in Calls : d = Current(r)
        BY <3>1, CurrentCall DEF Moves, CallsInv
      <4>2. verdict'[d] \in Verdicts \cup {"none"}
        BY <1>1 DEF EffectsInv, TimeoutsTypeOK
      <4> QED  BY <3>1, <4>1, <4>2 DEF Finishes, Report
    <3> QED  BY <2>1, <3>1 DEF Moves, Prompts, Skips, Hears, Refuses, Starts, Leaves, At, Report
  <2> QED  BY <1>1, <2>1 DEF Move, OutcomesOK
<1> QED  BY <1>2, <1>3 DEF OutcomesOK

\* Every variable holds values of its kind, a prompt is open while its run
\* waits at that call and a tool is called while its run is in the call
\* (graph.go:229-330).
THEOREM CallsTypeCorrect == CallsSpec => []CallsTypeOK
<1>1. CallsInit => OutcomesOK
  BY DEF CallsInit, OutcomesOK
<1>2. CallsInv /\ OutcomesOK /\ [CallsNext]_callVars => OutcomesOK'
  BY OutcomesStep
<1>3. CallsInv /\ OutcomesOK => CallsTypeOK
  <2> SUFFICES ASSUME CallsInv, OutcomesOK PROVE CallsTypeOK
    OBVIOUS
  <2>1. ASSUME NEW r \in Runs, next[r] <= Len(round[r])
        PROVE  /\ at[r] = "approval" <=> asked[Current(r)] = "waiting"
               /\ at[r] = "call" <=> caller[Current(r)] \in {"selecting", "calling"}
    <3>1. PICK c \in Calls : c = Current(r)
      BY <2>1, CurrentCall DEF CallsInv
    <3>2. Placed(c) /\ c[1] = r /\ next[c[1]] = c[2]
      BY <3>1, CallNames DEF CallsInv, PlacesOK
    <3> QED  BY <3>1, <3>2 DEF Placed
  <2> QED  BY <2>1 DEF CallsInv, RoundsOK, PositionsOK, OutcomesOK, ApproversInv, EffectsInv, CallsTypeOK
<1> QED  BY <1>1, <1>2, <1>3, CallsInvHolds, PTL DEF CallsSpec

\* An approver returns no error only with "approved", whatever people answer
\* and whoever reads it: what AgentRun takes as given (graph.go:237-239,
\* hitl.go:60-85, hitl_http.go:78-113).
THEOREM ContractKept == CallsSpec => []ApproversKeepTheContract
<1>1. CallsInv => ApproversKeepTheContract
  <2> SUFFICES ASSUME CallsInv, NEW c \in Calls, reply[c] # NoAnswer, ~reply[c].err
               PROVE  reply[c] = Approved
    BY DEF ApproversKeepTheContract
  <2>1. reply[c] \in GivenReplies
    BY CallsAssumption DEF CallsInv, ApproversInv, RepliesGiven
  <2>2. Rejected.err = TRUE /\ Modify.err = TRUE /\ CancelledReply.err = TRUE
    BY DEF Rejected, Modify, CancelledReply
  <2> QED  BY <2>1, <2>2 DEF GivenReplies
<1> QED  BY <1>1, CallsInvHolds, PTL

(***************************************************************************)
(* A gated call that is past its approval is cleared.                      *)
(***************************************************************************)
ClearanceInv ==
    /\ \A r \in Runs : at[r] = "approved" /\ Tool(Current(r)).gated => Cleared(Current(r))
    /\ \A c \in Calls : caller[c] # "idle" /\ Tool(c).gated => Cleared(c)

\* What a step does to where one run is.
LEMMA OthersKeepPlace ==
    ASSUME CallsInv, NEW r \in Runs, NEW s \in Runs, s # r, Moves(r) \/ Leaves(r)
    PROVE  at'[s] = at[s] /\ next'[s] = next[s]
BY DEF Moves, Prompts, Skips, Hears, Refuses, Starts, Finishes, Leaves, At, Report,
       CallsInv, RoundsOK, PositionsOK

LEMMA ClearanceStep ==
    ASSUME CallsInv, ClearanceInv, [CallsNext]_callVars
    PROVE  ClearanceInv'
<1>1. Move /\ ApproverStep /\ ApproversInv /\ Calls = Asks
  BY CallSteps, CallsAssumption DEF StepFacts, CallsInv
<1>2. round' = round /\ \A c : Tool(c)' = Tool(c)
  BY CallSteps DEF StepFacts, Tool
<1>3. ASSUME NEW c \in Calls, Cleared(c) PROVE Cleared(c)'
  BY <1>1, <1>3, ClearedStays
<1>4. ASSUME NEW s \in Runs, at'[s] = "approved", Tool(Current(s)').gated
      PROVE  Cleared(Current(s))'
  <2>1. PICK c \in Calls : c = Current(s)'
    <3>1. RoundsOK' /\ next'[s] <= Len(round'[s])
      BY <1>4, RoundsKept DEF RoundsOK, PositionsOK
    <3>2. next'[s] \in 1 .. RoundLength
      <4>1. round' \in [Runs -> Seq(DOMAIN Requests)] /\ Len(round'[s]) <= RoundLength
        BY <3>1, ScenariosAssumption DEF RoundsOK
      <4> QED  BY <3>1, <4>1, CallsAssumption DEF RoundsOK, PositionsOK
    <3> QED  BY <3>2 DEF Current, Calls
  <2>2. Cleared(c)'
    <3>1. CASE at[s] = "approved" /\ next'[s] = next[s]
      <4>1. c = Current(s)
        BY <2>1, <3>1 DEF Current
      <4> QED  BY <1>2, <1>3, <1>4, <2>1, <3>1, <4>1 DEF ClearanceInv
    <3>2. CASE Moves(s)
      <4>1. CASE Skips(s)
        <5>1. Current(s)' = Current(s)
          BY <4>1 DEF Skips, At, Current
        <5> QED  BY <1>2, <1>4, <4>1, <5>1 DEF Skips
      <4>2. CASE Hears(s)
        <5>1. PICK d \in Asks : d = Current(s) /\ Cleared(d)' /\ next' = next
          BY <1>4, <4>2 DEF Hears, At, Report, CallsInv, RoundsOK, PositionsOK
        <5>2. c = d
          BY <2>1, <5>1 DEF Current
        <5> QED  BY <5>1, <5>2
      <4>3. CASE Prompts(s) \/ Refuses(s) \/ Starts(s) \/ Finishes(s)
        BY <1>4, <4>3 DEF Prompts, Refuses, Starts, Finishes, At, Report,
                          CallsInv, RoundsOK, PositionsOK
      <4> QED  BY <3>2, <4>1, <4>2, <4>3 DEF Moves
    <3>3. CASE Leaves(s)
      BY <1>4, <3>3 DEF Leaves, At, CallsInv, RoundsOK, PositionsOK
    <3>4. CASE ~Moves(s) /\ ~Leaves(s)
      <4>1. at'[s] = at[s] /\ next'[s] = next[s]
        BY <1>1, <3>4, OthersKeepPlace DEF Move
      <4> QED  BY <1>4, <3>1, <4>1
    <3> QED  BY <3>2, <3>3, <3>4
  <2> QED  BY <2>1, <2>2 DEF Cleared
<1>5. ASSUME NEW c \in Calls, caller'[c] # "idle", Tool(c).gated
      PROVE  Cleared(c)'
  <2>1. CASE caller[c] # "idle"
    BY <1>3, <1>5, <2>1 DEF ClearanceInv
  <2>2. CASE caller[c] = "idle"
    <3>1. PICK r \in Runs : Moves(r) /\ caller' # caller
      BY <1>1, <1>5, <2>2 DEF Move, Leaves
    <3>2. PICK d \in Calls : d = Current(r)
      BY <3>1, CurrentCall DEF Moves, CallsInv
    <3>3. \E where : caller' = [caller EXCEPT ![d] = where] /\ at[r] \in {"approved", "call"}
      BY <3>1, <3>2 DEF Moves, Prompts, Skips, Hears, Refuses, Starts, Finishes
    <3>4. c = d
      BY <1>5, <2>2, <3>3
    <3>5. at[r] # "call"
      <4>1. Placed(d) /\ (d[1] = r /\ next[d[1]] = d[2])
        BY <3>2, CallNames DEF CallsInv, PlacesOK
      <4> QED  BY <2>2, <3>4, <4>1 DEF Placed
    <3>6. Cleared(d)
      BY <1>5, <3>2, <3>3, <3>4, <3>5 DEF ClearanceInv
    <3> QED  BY <1>3, <3>4, <3>6
  <2> QED  BY <2>1, <2>2
<1> QED  BY <1>2, <1>4, <1>5 DEF ClearanceInv, Tool

\* No gated tool takes effect, in time or after its timeout, unless a yes to
\* that very call was given: on a console whose prompt had standard input to
\* itself, or to the approving service (graph.go:237-273, hitl.go:60-85,
\* hitl_http.go:78-113).
THEOREM ActsApproved == CallsSpec => []ActsAreApproved
<1>1. CallsInit => ClearanceInv
  BY CallsAssumption DEF CallsInit, TimeoutsInit, ClearanceInv
<1>2. CallsInv /\ ClearanceInv /\ [CallsNext]_callVars => ClearanceInv'
  BY ClearanceStep
<1>3. CallsInv /\ ClearanceInv => ActsAreApproved
  <2> SUFFICES ASSUME CallsInv, ClearanceInv, NEW i \in DOMAIN effects, Tool(effects[i]).gated
               PROVE  Cleared(effects[i])
    BY DEF ActsAreApproved, Cleared
  <2>1. PICK c \in Calls : c = effects[i]
    BY CallsAssumption DEF CallsInv, EffectsInv, TimeoutsTypeOK
  <2>2. caller[c] # "idle"
    BY <2>1, CallsAssumption DEF CallsInv, EffectsInv, StartedOnce, ResultsTrue, Acted
  <2> QED  BY <2>1, <2>2 DEF ClearanceInv
<1> QED  BY <1>1, <1>2, <1>3, CallsInvHolds, PTL DEF CallsSpec

-----------------------------------------------------------------------------
(***************************************************************************)
(* The parameter checks                                                    *)
(***************************************************************************)

\* The light validator looks at a part of what the full one looks at.
LEMMA LightFollowsFull ==
    ASSUME NEW schema, NEW args, FullAccepts(schema, args)
    PROVE  LightAccepts(schema, args)
<1>1. Recognised(schema) \subseteq schema.required
  BY DEF Recognised
<1> QED  BY <1>1 DEF FullAccepts, LightAccepts

\* Whichever validator is built in, a call is refused only for what its schema
\* says: what the light validator refuses, the full one refuses too
\* (graph.go:301-311, validation.go:141-207).
THEOREM RefusalsDue == CallsSpec => []RefusalsAreDue
<1>1. CallsInit => RefusalsAreDue
  BY DEF CallsInit, RefusalsAreDue
<1>2. CallsInv /\ RefusalsAreDue /\ [CallsNext]_callVars => RefusalsAreDue'
  <2> SUFFICES ASSUME CallsInv, RefusalsAreDue, [CallsNext]_callVars,
                      NEW c \in Calls, outcome'[c] = "refused"
               PROVE  ~FullAccepts(Declares(Tool(c)), Args(c))'
    BY DEF RefusalsAreDue
  <2>1. /\ Move /\ EffectsInv'
        /\ ~FullAccepts(Declares(Tool(c)), Args(c))' = ~FullAccepts(Declares(Tool(c)), Args(c))
    BY CallSteps, CallsInvStep DEF StepFacts, CallsInv, Tool, Args
  <2>2. CASE outcome[c] = "refused"
    BY <2>1, <2>2 DEF RefusalsAreDue
  <2>3. CASE outcome[c] # "refused"
    <3>1. PICK r \in Runs : Moves(r) /\ (Hears(r) \/ Refuses(r) \/ Finishes(r)) /\ outcome' # outcome
      BY <2>1, <2>3 DEF Move, Moves, Prompts, Skips, Starts, Leaves, At
    <3>2. PICK d \in Calls : d = Current(r)
      BY <3>1, CurrentCall DEF Moves, CallsInv
    <3>3. \A what : Report(r, what) => c = d /\ what = "refused"
      BY <2>3, <3>2 DEF Report
    <3>4. ~Hears(r)
      BY <3>1, <3>3 DEF Hears, At
    <3>5. ~Finishes(r)
      <4>1. verdict'[d] # "refused"
        BY <2>1, CallsAssumption DEF EffectsInv, TimeoutsTypeOK, Verdicts
      <4> QED  BY <3>2, <3>3, <4>1 DEF Finishes
    <3>6. ~Acceptable(d) /\ c = d
      BY <3>1, <3>2, <3>3, <3>4, <3>5 DEF Refuses
    <3>7. ~FullAccepts(Declares(Tool(d)), Args(d))
      BY <3>6, LightFollowsFull DEF Acceptable, SchemaAccepts, Declares
    <3> QED  BY <2>1, <3>6, <3>7
  <2> QED  BY <2>2, <2>3
<1> QED  BY <1>1, <1>2, CallsInvHolds, PTL DEF CallsSpec

(***************************************************************************)
(* The light validator does not see a required list that is not []any, and *)
(* looks at nothing when the schema has no type.  A tool is careful when    *)
(* its schema has the type and, unless its list is []any, it checks what it *)
(* requires itself, as the built-in tools do (fs/write.go:23-27,           *)
(* fs/edit.go:23-27, fs/read.go:22-25, execute.go:41-44, subagent.go:25).  *)
(***************************************************************************)
Careful(tool) ==
    /\ Declares(tool).typed
    /\ Declares(tool).goType = "anys" \/ Declares(tool).required \subseteq tool.needs

ArgumentsInv ==
    \A c \in Calls :
        /\ caller[c] # "idle" => Acceptable(c)
        /\ Acted(c) => OwnCheck(Tool(c), Args(c))

LEMMA ArgumentsStep ==
    ASSUME CallsInv, ArgumentsInv, [CallsNext]_callVars
    PROVE  ArgumentsInv'
<1> SUFFICES ASSUME NEW c \in Calls
             PROVE  /\ caller'[c] # "idle" => Acceptable(c)'
                    /\ Acted(c)' => OwnCheck(Tool(c), Args(c))'
  BY DEF ArgumentsInv
<1>1. Move /\ ActsChecked /\ Calls = Attempts
  BY CallSteps, CallsAssumption DEF StepFacts
<1>2. \A d : Acceptable(d)' = Acceptable(d) /\ OwnCheck(Tool(d), Args(d))' = OwnCheck(Tool(d), Args(d))
  BY CallSteps DEF StepFacts, Acceptable, Tool, Args
<1>3. ASSUME caller'[c] # "idle", caller[c] = "idle"
      PROVE  Acceptable(c)
  <2>1. PICK r \in Runs : Moves(r) /\ (Starts(r) \/ Finishes(r)) /\ caller' # caller
    BY <1>1, <1>3 DEF Move, Moves, Prompts, Skips, Hears, Refuses, Leaves
  <2>2. PICK d \in Calls : d = Current(r)
    BY <2>1, CurrentCall DEF Moves, CallsInv
  <2>3. \E where : caller' = [caller EXCEPT ![d] = where]
    BY <2>1, <2>2 DEF Starts, Finishes
  <2>4. c = d
    BY <1>3, <2>3
  <2>5. Placed(d) /\ (d[1] = r /\ next[d[1]] = d[2])
    BY <2>2, CallNames DEF CallsInv, PlacesOK
  <2>6. at[r] # "call"
    BY <1>3, <2>4, <2>5 DEF Placed
  <2> QED  BY <2>1, <2>2, <2>4, <2>6 DEF Starts, Finishes
<1>4. ASSUME Acted(c)', ~Acted(c)
      PROVE  OwnCheck(Tool(c), Args(c))
  <2>1. PICK d \in Attempts : OwnCheck(Tool(d), Args(d)) /\ \E heeds : Act(d, heeds)
    BY <1>1, <1>4 DEF ActsChecked, Acted
  <2>2. /\ DOMAIN effects' = DOMAIN effects \cup {Len(effects) + 1}
        /\ \A i \in DOMAIN effects : effects'[i] = effects[i]
        /\ effects'[Len(effects) + 1] = d
    BY <2>1, ActEffect DEF CallsInv
  <2>3. c = d
    BY <1>4, <2>2 DEF Acted
  <2> QED  BY <2>1, <2>3
<1> QED  BY <1>2, <1>3, <1>4 DEF ArgumentsInv

\* A tool acts only on arguments that hold every key its schema requires, with
\* the declared types: under the default build for the careful tools, whose
\* own checks make up for what the light validator passes over, and under the
\* jsonschema build for every tool (validation.go:173-180, fs/write.go:23).
THEOREM ArgumentsComplete ==
    ASSUME \A name \in DOMAIN Requests : Careful(Requests[name].tool)
    PROVE  CallsSpec => []ActsHaveTheirArguments
<1>1. CallsInit => ArgumentsInv
  BY CallsAssumption DEF CallsInit, TimeoutsInit, ArgumentsInv, Acted
<1>2. CallsInv /\ ArgumentsInv /\ [CallsNext]_callVars => ArgumentsInv'
  BY ArgumentsStep
<1>3. CallsInv /\ ArgumentsInv => ActsHaveTheirArguments
  <2> SUFFICES ASSUME CallsInv, ArgumentsInv, NEW i \in DOMAIN effects
               PROVE  /\ Declares(Tool(effects[i])).required \subseteq DOMAIN Args(effects[i])
                      /\ TypesHold(Declares(Tool(effects[i])).props, Args(effects[i]))
    BY DEF ActsHaveTheirArguments
  <2>1. PICK c \in Calls : c = effects[i]
    BY CallsAssumption DEF CallsInv, EffectsInv, TimeoutsTypeOK
  <2>2. caller[c] # "idle" /\ Acted(c)
    BY <2>1, CallsAssumption DEF CallsInv, EffectsInv, StartedOnce, ResultsTrue, Acted
  <2>3. Acceptable(c) /\ OwnCheck(Tool(c), Args(c))
    BY <2>2 DEF ArgumentsInv
  <2>4. Careful(Tool(c))
    <3>1. c[1] \in Runs /\ c[2] \in 1 .. RoundLength
      BY DEF Calls
    <3>2. round[c[1]] \in Seq(DOMAIN Requests)
      BY <3>1, ScenariosAssumption DEF CallsInv, RoundsOK
    <3>3. c[2] < next[c[1]] \/ (next[c[1]] = c[2] /\ at[c[1]] = "call")
      BY <2>2, CallsAssumption DEF CallsInv, PlacesOK, Placed, EffectsInv, TimeoutsTypeOK
    <3>4. c[2] <= Len(round[c[1]])
      BY <3>1, <3>2, <3>3, CallsAssumption DEF CallsInv, RoundsOK, PositionsOK
    <3> QED  BY <3>1, <3>2, <3>4, CallsAssumption DEF Tool
  <2> QED  BY <2>1, <2>3, <2>4
           DEF Careful, Acceptable, SchemaAccepts, LightAccepts, FullAccepts, Recognised, OwnCheck, Declares
<1> QED  BY <1>1, <1>2, <1>3, CallsInvHolds, PTL DEF CallsSpec

-----------------------------------------------------------------------------
(***************************************************************************)
(* The order of the effects.  A call whose effect comes after one of a     *)
(* later call of its run has been given up.                                *)
(***************************************************************************)
OrderInv ==
    \A i, j \in DOMAIN effects :
        LET c == effects[i]
            d == effects[j]
        IN  c[1] = d[1] /\ c[2] < d[2] /\ verdict[c] # "timeout" => i < j

LEMMA OrderStep ==
    ASSUME CallsInv, OrderInv, [CallsNext]_callVars
    PROVE  OrderInv'
<1>1. TimeoutStep /\ EffectsInv /\ Attempts = Calls /\ effects \in Seq(Calls)
  BY CallSteps, CallsAssumption DEF StepFacts, CallsInv, EffectsInv, TimeoutsTypeOK
<1>2. ASSUME NEW c \in Calls, verdict[c] = "timeout"
      PROVE  verdict'[c] = "timeout"
  <2>1. caller[c] = "returned"
    BY <1>1, <1>2 DEF EffectsInv, StartedOnce
  <2> QED  BY <1>1, <1>2, <2>1 DEF TimeoutStep, StartAttempt, Act, GiveUp, ReturnResult, SendResult,
               TakeResult, ReportTimeout, Return, EffectsInv, TimeoutsTypeOK
<1>3. CASE effects' = effects
  BY <1>1, <1>2, <1>3 DEF OrderInv
<1>4. CASE effects' # effects
  <2>1. PICK c \in Calls : \E heeds : Act(c, heeds)
    BY <1>1, <1>4 DEF TimeoutStep, StartAttempt, GiveUp, ReturnResult, SendResult, TakeResult,
                     ReportTimeout, Return
  <2>2. /\ worker[c] = "working" /\ DOMAIN effects' = DOMAIN effects \cup {Len(effects) + 1}
        /\ \A i \in DOMAIN effects : i < Len(effects) + 1 /\ effects'[i] = effects[i]
        /\ effects'[Len(effects) + 1] = c /\ verdict' = verdict
    BY <1>1, <2>1, ActEffect
  <2>3. ASSUME NEW j \in DOMAIN effects, effects[j][1] = c[1], c[2] < effects[j][2]
        PROVE  verdict[c] = "timeout"
    <3>1. PICK d \in Calls : d = effects[j]
      BY <1>1
    <3>2. caller[d] # "idle"
      BY <1>1, <3>1 DEF EffectsInv, StartedOnce, ResultsTrue, Acted
    <3>3. d[2] <= next[d[1]] /\ d[1] \in Runs /\ d[2] \in Nat /\ c[2] \in Nat /\ next[d[1]] \in Nat
      <4>1. d[1] \in Runs /\ d[2] \in 1 .. RoundLength /\ c[2] \in 1 .. RoundLength
        BY DEF Calls
      <4>2. next[d[1]] \in Nat
        BY <4>1, CallsAssumption DEF CallsInv, RoundsOK, PositionsOK
      <4> QED  BY <1>1, <3>2, <4>1, <4>2, CallsAssumption
               DEF CallsInv, PlacesOK, Placed, EffectsInv, TimeoutsTypeOK
    <3>4. caller[c] \notin {"selecting", "calling"}
      BY <2>3, <3>1, <3>3 DEF CallsInv, PlacesOK, Placed
    <3>5. caller[c] = "returned"
      BY <1>1, <2>2, <3>4 DEF EffectsInv, TimeoutsTypeOK, StartedOnce
    <3> QED  BY <1>1, <2>2, <3>5 DEF EffectsInv, TimeoutsTypeOK, StartedOnce, Verdicts
  <2>4. ~(c[2] < c[2])
    BY CallsAssumption DEF Calls
  <2> QED  BY <2>2, <2>3, <2>4 DEF OrderInv
<1> QED  BY <1>3, <1>4

\* The calls of a run that are reported to have succeeded took effect in the
\* order of the reports, each once and before its report; an effect can come
\* after the report of its own call only when that reported a timeout
\* (tool.go:61-85).
THEOREM SuccessesOrdered == CallsSpec => []SuccessesInOrder
<1>1. CallsInit => OrderInv
  BY DEF CallsInit, TimeoutsInit, OrderInv
<1>2. CallsInv /\ OrderInv /\ [CallsNext]_callVars => OrderInv'
  BY OrderStep
<1>3. CallsInv /\ OrderInv => SuccessesInOrder
  <2> SUFFICES ASSUME CallsInv, OrderInv PROVE SuccessesInOrder
    OBVIOUS
  <2>1. EffectsInv /\ Attempts = Calls
    BY CallsAssumption DEF CallsInv
  <2>2. ASSUME NEW c \in Calls
        PROVE  /\ Acted(c) => Cardinality(EffectOf(c)) = 1 /\ EffectOf(c) # {}
               /\ ~Acted(c) => Cardinality(EffectOf(c)) = 0 /\ EffectOf(c) = {}
    <3>1. ASSUME Acted(c) PROVE Cardinality(EffectOf(c)) = 1 /\ EffectOf(c) # {}
      <4>1. PICK i : EffectOf(c) = {i}
        BY <2>1, <3>1 DEF Acted, EffectOf, EffectsInv, ActsOnce
      <4> QED  BY <4>1, FS_Singleton
    <3>2. ASSUME ~Acted(c) PROVE Cardinality(EffectOf(c)) = 0 /\ EffectOf(c) = {}
      <4>1. EffectOf(c) = {}
        BY <3>2 DEF Acted, EffectOf
      <4> QED  BY <4>1, FS_EmptySet
    <3> QED  BY <3>1, <3>2
  <2>3. ASSUME NEW c \in Calls
        PROVE  Cardinality(EffectOf(c)) =
                 CASE verdict[c] = "ok" -> 1
                   [] verdict[c] = "error" -> 0
                   [] OTHER -> IF EffectOf(c) = {} THEN 0 ELSE 1
    <3>1. (verdict[c] = "ok" => Acted(c)) /\ (verdict[c] = "error" => ~Acted(c))
      BY <2>1 DEF EffectsInv, ResultsTrue
    <3> QED  BY <2>2, <3>1
  <2>4. ASSUME NEW c \in Calls, NEW d \in Calls, NEW i \in EffectOf(c), NEW j \in EffectOf(d),
               c[1] = d[1], c[2] < d[2], verdict[c] = "ok"
        PROVE  i < j
    BY <2>4 DEF OrderInv, EffectOf
  <2> QED  BY <2>3, <2>4 DEF SuccessesInOrder
<1> QED  BY <1>1, <1>2, <1>3, CallsInvHolds, PTL DEF CallsSpec

=============================================================================
