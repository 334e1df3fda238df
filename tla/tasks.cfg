SPECIFICATION FairSpec
CONSTANTS
    t1 = t1  t2 = t2  t3 = t3  plan = plan  search = search
    Nothing = Nothing
    Bases = {plan, search}
    Tasks = {t1, t2, t3}
    MaxSuffix = 2
    MaxIterations = 2
    Faults = {"model", "write"}
INVARIANTS
    NamesAreDense
    
    
PROPERTIES
    MergedResultsKept
    TaskCallsReturn
