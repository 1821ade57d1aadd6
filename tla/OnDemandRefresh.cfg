SPECIFICATION FairSpec
CONSTANTS
    r1 = r1
    r2 = r2
    r3 = r3
    Readers = {r1, r2}
    Hosts = {1, 2}
    HostLists <- Lists
    Others = {"scheduled"}
    Sizes = {1, 2}
    Ttl = 1
    Never = Never
    MaxTime = 1
    MaxReads = 3
    MaxSyncs = 1
    MaxResizes = 1
CHECK_DEADLOCK FALSE
VIEW View
PROPERTIES  ImplementsLimiter EveryReadAnswers
