SPECIFICATION Spec
CONSTANTS
    t1 = t1
    a1 = a1
    a2 = a2
    NoTask = NoTask
    Tasks <- MCTasks
    Agents <- MCAgents
    Routes <- MCRoutes
    Parent <- MCParent
    Supersedes <- MCSupersedes
    Dependencies <- MCDependencies
    SameScope <- MCSameScope
    ReadOnly = {}
    EffectTasks <- MCTasks
    Delegated = {}
    GlobalLimit = 3
    ModuleLimit = 1
    RouteLimit <- MCRouteLimit
    Requested <- MCRequested
    MaxRuns = 2
    MaxGeneration = 2
SYMMETRY AgentSymmetry
\* At the bounds, after the last crash, the model stops.
CHECK_DEADLOCK FALSE
INVARIANTS
    StartupRecoveryAdmitted
