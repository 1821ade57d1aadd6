SPECIFICATION TasksFairSpec
CONSTANTS
    base = base
    dependent = dependent
    project = project
    enricher = enricher
    SourceTasks = {base, dependent}
    ProjectTasks = {project}
    EnricherTasks = {enricher}
    Generations <- Each
    CounterMax = 8
    MaxErrors = 1
    MaxPanics = 1
PROPERTIES AttemptsFollowTheLadder 
CHECK_DEADLOCK FALSE
