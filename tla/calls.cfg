SPECIFICATION FairCallsSpec
CONSTANTS
    r1 = r1  r2 = r2
    Runs = {r1, r2}
    RoundLength = 2
    Asks <- AllCalls
    Attempts <- AllCalls
    Requests <- MixedRequests
    Scenarios <- MixedScenarios
    ApproverKinds = {"console", "http"}
    HumanAnswers = {"yes", "modify", "other"}
    NoAnswer = NoAnswer
INVARIANTS
    ActsAreApproved
    ApproversKeepTheContract
    ActsHaveTheirArguments
    RefusalsAreDue
    SuccessesInOrder
PROPERTIES
    TimedCallsEnd
    CancelledRunsFinish
    AnswersAreHeard
