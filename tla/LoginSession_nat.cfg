SPECIFICATION FairSpec
CONSTANTS
    alice = alice  bob = bob  x = x  y = y  n1 = n1  n2 = n2
    Users = {alice, bob}
    OTPUsers = {alice, bob}
    SSHUsers = {alice}
    Hosts = {x}
    Nodes = {n1, n2}
    MaxEvent = 3
CONSTRAINTS Undoubted AliceFirst KnownOnly
INVARIANTS TypeOK SessionIsLetIn StatusTellsSessions WaitHasAJob
PROPERTIES SweptClean WaitEnds
CHECK_DEADLOCK FALSE
