SPECIFICATION LiveSpec
CONSTANTS
    c1 = c1
    c2 = c2
    s1 = s1
    s2 = s2
    NoOwner = NoOwner
    NoNode = NoNode
    Nodes <- ThreeNodes
    PlanGraphs <- Shapes
    Coordinators = {c1, c2}
    Slots = {s1}
    MayStop = {c1}
INVARIANTS
    TypeOK
    TableConsistent
    RunsFollowDependencies
    StoreFollowsEngine
PROPERTIES
    OutcomesKept
    ImplementsTaskGraph
    StartedPlanSettles
CHECK_DEADLOCK FALSE
