SPECIFICATION Spec
CONSTANTS
    r1 = r1  r2 = r2
    t1 = t1  t2 = t2
    read = read  execute = execute  ghost = ghost
    None = None  Torn = Torn
    Runs = {r1}
    Threads = {t1}
    ToolNames <- ThreeNames
    Tools <- TwoTools
    Gated = {execute}
    Responses <- ShortResponses
    ToolOutcomes = {"ok", "error"}
    ApproverReplies <- YesOrNo
    MaxIterations = 2
    Faults = {}
    Overlap = FALSE
INVARIANTS
    ToolResultEventsCarryCode
