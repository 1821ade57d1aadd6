SPECIFICATION FairSpec
CONSTANTS
    scheduled = scheduled
    manual = manual
    boot = boot
    a = a
    b = b
    none = none
    mixed = mixed
    Pullers = {scheduled, manual}
    Requests = {manual}
    MaxRev = 3
    Requirements <- Forward
    NoReqs = none
    Mixed = mixed
    MaxFails = 2
    MaxPulls = 3
INVARIANTS HistoryExplainsTheCheckout
PROPERTIES PullsEndReady
CHECK_DEADLOCK FALSE
