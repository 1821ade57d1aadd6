SPECIFICATION Spec
CONSTANTS
    Hosts = {h1}
    Known = {h1}
    Enrichers = {1, 2, 3}
    Scripts = {2}
    Tasks = {1, 2}
    NoData = NoData
    MaxTime = 3
    MaxVersions = 2
    MaxEvictions = 1
VIEW state
INVARIANTS HonestUnlessOvertaken
PROPERTIES DataIsEnriched
