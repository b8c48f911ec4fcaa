SPECIFICATION FairSpec
CONSTANTS
    c0 = c0  c1 = c1  n0 = n0  n1 = n1  a1 = a1  a2 = a2  None = None
    Containers = {c0, c1}
    Nodes = {n0, n1}
    uNode <- EachItsNode
    Agents = {a1, a2}
    Prod = c0
    Clone = c1
    MaxEvent = 4
CONSTRAINTS Doubted Retried
INVARIANT DateTellsOfCopy
PROPERTIES NotIntoProduction SafeKeeping DueIsCopied
CHECK_DEADLOCK FALSE
