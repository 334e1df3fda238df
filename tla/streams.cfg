SPECIFICATION FairObserversSpec
CONSTANTS
    r1 = r1  r2 = r2
    t1 = t1  t2 = t2
    read = read  execute = execute
    None = None  Torn = Torn
    Runs = {r1, r2}
    Threads = {t1, t2}
    ToolNames = {read, execute}
    Tools = {read, execute}
    Gated = {execute}
    Responses <- FewResponses
    ToolOutcomes = {"error", "unserializable"}
    ApproverReplies <- YesOrNo
    MaxIterations = 1
    Faults = {"load"}
    Overlap = TRUE
    ThreadOf <- OwnThreads
    Setups <- LoggingOrStreaming
INVARIANTS
    StreamsWhole
    JournalComplete
    
PROPERTIES
    StreamsEnd
CHECK_DEADLOCK FALSE
