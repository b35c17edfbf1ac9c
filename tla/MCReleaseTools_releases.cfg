SPECIFICATION Spec
CONSTANTS
    Order <- MCOrder
    Made <- MCMade
    Ruled = {old, new}
    Index = Index
    Absent = Absent
    Empty = Empty
    NoTree = NoTree
    MaxRule = 2
    MaxRuns = 3
    old = old
    new = new
    plain = plain
CHECK_DEADLOCK FALSE
INVARIANTS
    ToolTypeOK
    GeneratedIsComplete
    DamageBounded
    UpgradeIsClean
    UpgradeReachesGoal
    VerifyPasses
PROPERTIES
    ListedIsWhole
