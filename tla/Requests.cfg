SPECIFICATION Spec
CONSTANTS
    None = None
    Vault = Vault
    Both = Both
    NoVars = NoVars
    Absent = Absent
    Unresolved = Unresolved
    Requests <- Batches
    VarValues <- SmallValues
INVARIANTS
    
    SelectionsMeanWhatTheySay
    EndpointsKeepTheirLimits
    SearchSaysWhatEndpointsReturn
    
    NothingDeclaredIsLost
    MapsAreTrueAndPrivate
    CredentialsReachTheirNames
CHECK_DEADLOCK FALSE
