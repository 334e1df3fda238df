SPECIFICATION Spec
CONSTANTS
    r1 = r1  r2 = r2
    t1 = t1  t2 = t2
    read = read  execute = execute  ghost = ghost
    None = None  Torn = Torn
    Runs = {r1, r2}
    Threads = {t1}
    ToolNames <- ThreeNames
    Tools <- TwoTools
    Gated = {execute}
    Responses <- MixedResponses
    ToolOutcomes = {"ok", "invalid"}
    ApproverReplies <- YesOrNo
    MaxIterations = 2
    Faults = {"load", "save", "torn", "audit", "memory", "crash"}
    Overlap = TRUE
INVARIANTS
    RoundsSavedWhole
    BudgetMatchesTranscript
    AnsweredRunsDurable
    AtMostOneRoundLost
    InputsSavedWithATurn
    GatedCallsApproved
    TranscriptTruthful
PROPERTIES
    TranscriptOnlyGrows
SYMMETRY RunSymmetry
VIEW RunView
