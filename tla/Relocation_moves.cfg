SPECIFICATION FairSpec
CONSTANTS
    c1 = c1  c2 = c2  n1 = n1  n2 = n2  n3 = n3  i1 = i1  i2 = i2  i3 = i3  i4 = i4
    Containers = {c1, c2}
    Nodes = {n1, n2, n3}
    Addresses = {i1, i2, i3, i4}
    Sessions = {1, 2}
    Datacenter <- TwoCenters
    Home <- OnTwoNodes
    Given <- TwoAddresses
    Clones = {c2}
    MaxEvent = 2
INVARIANTS AddressesApart AwaitsAJob
PROPERTIES AfterMove ChangesEnd
CHECK_DEADLOCK FALSE
