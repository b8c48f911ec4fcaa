SPECIFICATION FairLifeSpec
CONSTANTS
    n1 = n1  a1 = a1  c1 = c1  None = None
    Nodes = {n1}
    AllNodes = AllNodes
    Agents = {a1}
    NodeOf <- Alone
    Containers = {c1}
    uSource <- NoClones
    NoContainer = None
    Names = {"normal"}
    Bands = {"normal"}
    MaxJob = 3
    LIMIT = 2
    Veid = c1
    Home = n1
    Sessions = {s1}
    Upsets = {"vzctl", "rollback", "halt", "crash", "second"}
INVARIANTS LifeTypeOK AwaitedHasJob
PROPERTIES HandlerTellsTruth DeployIsAtomic AwaitEnds QueueSpec
CHECK_DEADLOCK FALSE
