SPECIFICATION PullFairSpec
CONSTANTS
    src1 = src1
    src2 = src2
    h1 = h1
    h2 = h2
    NoData = NoData
    Sources = {src1, src2}
    Source = src1
    Members <- MCMembers
    Contents <- MCContents
    Hosts = {h1, h2}
    Kinds = {"plain", "filtered", "view", "scrape", "remote"}
    Pullers = {src1}
    MaxWrites = 2
    MaxRestarts = 1
    MaxTime = 1
    MaxFailures = 1
PROPERTIES ReadsAreCurrent PullsAreHonest CentralCatchesUp
VIEW View
CHECK_DEADLOCK FALSE
