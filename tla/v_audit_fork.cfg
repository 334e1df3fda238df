SPECIFICATION Spec
CONSTANTS
    l1 = l1  l2 = l2  t1 = t1
    None = None  Garbled = Garbled
    Loggers = {l1, l2}
    Threads = {t1}
    Sizes = {"short"}
    VerifyOnStart = {}
    MaxEntries = 3
    MaxClock = 2
    Faults = {}
INVARIANTS
    UntamperedLogVerifies
