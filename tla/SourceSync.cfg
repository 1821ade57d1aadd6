SPECIFICATION FairSpec
CONSTANTS
    Callers = {c1, c2, c3}
    Hosts = {h1}
    SyncMode = "merge"
    NoCaller = NoCaller
    MaxAsks = 3
VIEW ClaimView
INVARIANTS LandedIsRecorded BurstGathersOnce CompleteIsEarned
PROPERTIES NeverAnOlderGather  EveryCallEnds
