SPECIFICATION FairSpec
CONSTANTS
    n1 = n1  n2 = n2  s1 = s1
    Nodes = {n1, n2}
    Sessions = {s1}
    MaxEvent = 3
CONSTRAINT Undoubted
INVARIANTS TypeOK QuietAgreement WaitIsForAnOrder
PROPERTIES PublishedByLast WaitingEnds
CHECK_DEADLOCK FALSE
