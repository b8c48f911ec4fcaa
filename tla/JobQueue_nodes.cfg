SPECIFICATION Spec
CONSTANTS
    n1 = n1  n2 = n2  a1 = a1  a2 = a2  a3 = a3  c1 = c1  c2 = c2  None = None
    Nodes = {n1, n2}
    AllNodes = AllNodes
    Agents = {a1, a2, a3}
    NodeOf <- TwoNodes
    Containers = {c1, c2}
    uSource <- CloneOfC1
    NoContainer = None
    Names = {"normal"}
    Bands = {"normal"}
    MaxJob = 2
    LIMIT = 2
INVARIANTS TypeOK OneLoopPerNode NoDoubleRun RunningIsAccounted SnapshotIsFresh
PROPERTIES FinalStaysFinal
CHECK_DEADLOCK FALSE
