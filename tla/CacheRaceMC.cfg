CONSTANTS
    ka = ka
    kb = kb
    i1 = i1
    i2 = i2
    i3 = i3
    NoKey = NoKey
    HashOnly = HashOnly
    NoId = NoId
    Keys = {ka, kb}
    Ids = {i1, i2, i3}
    Owner <- MCOwner
    MaxRecords = 2
    Buckets = {0, 1}
    IdBuckets = {0, 1, 2}
    Probe <- MCProbe
    IdHash <- MCIdHash
    MaxCalls = 4
SPECIFICATION FairSpec
INVARIANTS ExactUnlessRaced 
PROPERTY LookupEnds
CHECK_DEADLOCK FALSE
