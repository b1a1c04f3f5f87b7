CONSTANTS
    c1 = c1
    c2 = c2
    s1 = s1
    s2 = s2
    p1 = p1
    p2 = p2
    p3 = p3
    Manual = Manual
    Direct = Direct
    Node = Node
    Absent = Absent
    Gone = Gone
    Nothing = Nothing
    Refused = Refused
    Conds = {c1, c2}
    Ids <- MCIds
    Holds <- MCHolds
    Policies = {p1, p2, p3}
    Saved <- MCSaved
    Texts <- MCTexts
    MaxRules = 3
    MaxOps = 2
SPECIFICATION RoutingSpec
CHECK_DEADLOCK FALSE
INVARIANTS
    DraftKeepsItsRule
    PageAndKernelFollowStore
    ActivityMirrorsProfile
    CompilesIfSound
