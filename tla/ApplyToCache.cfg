SPECIFICATION Spec
CONSTANTS
    h1 = h1
    h2 = h2
    web = web
    all = all
    k1 = k1
    Hosts = {h1, h2}
    Groups = {web, all}
    MetaGroups = {all}
    Keys = {k1}
    Earliest = 0
    NoEntry = NoEntry
    Never = Never
    Sources <- SomeSources
    Ttl = 1
    StatusMayFail = FALSE
    Layouts <- SomeLayouts
    Uptime = 1
    MaxTime = 2
    MaxAge = 1
VIEW View
 
PROPERTIES  WritesKeepWhatIsNotTheirs
