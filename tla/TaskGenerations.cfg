SPECIFICATION FairSpec
CONSTANTS
    Sources = {s1}
    StopsInReload = FALSE
    MaxReloads = 2
    MaxRuns = 3
INVARIANTS GenerationsLeaveNothing
PROPERTIES OlderSettingsNeverWin ShutdownReturns
CHECK_DEADLOCK FALSE
