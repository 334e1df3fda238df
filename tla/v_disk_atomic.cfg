SPECIFICATION Spec
CONSTANTS
    o1 = o1  o2 = o2  o3 = o3  p1 = p1  p2 = p2  dots = dots
    Nothing = Nothing  Mix = Mix
    Ops = {o1, o2, o3}
    Paths = {p1}
    Calls <- OneFile
    Configured = {"disk"}
    Unsafe = {}
    Faults = {}
INVARIANTS
    WritesAreAtomic
