SPECIFICATION FairSpec
CONSTANTS
    c1 = c1  c2 = c2  pinned = pinned  other = other
    None = None
    Calls = {c1, c2}
    Commands <- SomeCommands
    Configs <- SomeConfigs
    Hosts <- SomeHosts
    Sizes = {0, 5}
    Notice = 1
    InspectTime = 1
    MaxTools = 1
    Quiet = TRUE
INVARIANTS
    LaunchesObeyTheirConfig

    
