SPECIFICATION Spec
CONSTANTS
    c1 = c1
    c2 = c2
    s1 = s1
    s2 = s2
    NoOwner = NoOwner
    NoNode = NoNode
    Nodes <- ThreeNodes
    PlanGraphs <- Shapes
    Coordinators = {c2}
    Slots = {s1,s2}
    MayStop = {}
INVARIANTS
    CancelStopsRuns
CHECK_DEADLOCK FALSE
