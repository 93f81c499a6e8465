SPECIFICATION Spec
CONSTANTS
    parent = parent
    child = child
    rival = rival
    reader1 = reader1
    reader2 = reader2
    NoTask = NoTask
    Tasks <- MCTasks
    Agents <- MCAgents
    Routes <- MCRoutes
    Parent <- MCParent
    Supersedes <- MCSupersedes
    Dependencies <- MCDependencies
    SameScope <- MCSameScope
    ReadOnly <- MCReadOnly
    EffectTasks = {}
    Delegated = {}
    GlobalLimit = 2
    ModuleLimit = 2
    RouteLimit <- MCRouteLimit
    Requested <- MCRequested
    MaxRuns = 3
    MaxGeneration = 1
SYMMETRY ReaderSymmetry
\* At the bounds, after the last crash, the model stops.
CHECK_DEADLOCK FALSE
INVARIANTS
    LeavesWithinLimit
    WriteScopeExclusive
