SPECIFICATION FairSpec
CONSTANTS
    s1 = s1
    s2 = s2
    Sources = {s1}
    Torn = Torn
    StopsAtStart = FALSE
    MaxWrites = 1
    MaxRestarts = 1
    MaxFailures = 1
    MaxTime = 1
INVARIANTS FileIsTrusted
PROPERTIES GracefulExitKeepsAll ChangesReachTheDisk
VIEW View
CHECK_DEADLOCK FALSE
