SPECIFICATION Spec
CONSTANTS
    None = None
    Gathers <- MCGathers
    Offers <- MCOffers
    Outputs <- MCOutputs
    Size = 2
    Scripts <- MCScripts
    MaxBusy = 2
CHECK_DEADLOCK FALSE
INVARIANTS AnswersAreWhole 
PROPERTIES GathersAndScriptsEnd
