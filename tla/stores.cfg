SPECIFICATION Spec
CONSTANTS
    o1 = o1  o2 = o2  o3 = o3  a = a  b = b  k = k  dots = dots
    Nothing = Nothing  Broken = Broken  Colon = Colon
    Ops = {o1, o2, o3}
    Configured = {"file", "checkpoint", "inmemory", "redis", "sqlite"}
    Entries <- SomeEntries
    Requests <- SomeRequests
    Unsafe <- UnsafeNames
    Faults = {"write", "server", "crash"}
INVARIANTS
    GetFailuresExplained

    
SYMMETRY OpSymmetry
