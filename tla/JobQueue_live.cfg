SPECIFICATION FairSpec
CONSTANTS
    n1 = n1  n2 = n2  a1 = a1  a2 = a2  a3 = a3  c1 = c1  c2 = c2  None = None
    Nodes = {n1}
    AllNodes = AllNodes
    Agents = {a1, a2}
    NodeOf <- Overlap
    Containers = {c1}
    uSource <- NoClones
    NoContainer = None
    Names = {"normal", "priority", "unknown"}
    Bands = {"normal", "high", "over"}
    MaxJob = 2
    LIMIT = 1
PROPERTIES EveryDueJobRuns
CHECK_DEADLOCK FALSE
