SPECIFICATION Spec
CONSTANTS
    l1 = l1  l2 = l2  t1 = t1
    None = None  Garbled = Garbled
    Loggers = {l1, l2}
    Threads = {t1, None}
    Sizes = {"short", "long"}
    VerifyOnStart = {l2}
    MaxEntries = 3
    MaxClock = 3
    Faults = {"crash", "torn", "write", "clock"}
INVARIANTS
    
    VerifiedMeansComplete
    TamperingNoticed
