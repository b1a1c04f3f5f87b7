CONSTANTS
    g1 = g1
    g2 = g2
    s1 = s1
    n1 = n1
    None = None
    Order <- MCOrder
    Sources = {s1}
    Nodes = {n1}
    Generations = {1, 2}
    MaxOps = 3
SPECIFICATION Spec
CHECK_DEADLOCK FALSE
PROPERTIES
    OldResultsAreDropped
    DueIsTested
