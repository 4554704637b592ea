SPECIFICATION FairSpec
CONSTANTS
    None = None
    a = a
    b = b
    aCopy = aCopy
    bCopy = bCopy
    aCopy2 = aCopy2
    bCopy2 = bCopy2
    x = x
    y = y
    z = z
    Paths <- MCPaths
    CopyOf <- MCCopyOf
    Contents <- MCContents
    Small = {z}
    Nodes = {n1, n2, n3, n4, n5, n6, n7}
    MaxRemote = 2
    MaxLocal = 1
    MaxFaults = 1
    MaxEpochs = 1
    MaxEvents = 2
    Mishaps = {}
INVARIANTS
    TypeOK
PROPERTIES
    NoCopyLost
    DeletesOnlyWhatThePersonDid
    EventuallyInStep
