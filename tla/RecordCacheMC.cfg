CONSTANTS
    ka = ka
    kb = kb
    kc = kc
    i1 = i1
    i2 = i2
    i3 = i3
    i4 = i4
    va = va
    vb = vb
    big = big
    NoKey = NoKey
    NoId = NoId
    NoValue = NoValue
    MaxRecords = 3
    Keys = {ka, kb, kc}
    Ids = {i1, i2, i3, i4}
    Values = {va, vb, big}
    Oversized = {big}
    Buckets <- MCBuckets
    IdBuckets <- MCIdBuckets
    Probe <- MCProbe
    IdHash <- MCIdHash
SPECIFICATION FullSpec
INVARIANTS
    TypeOK
    EverySlotOnItsList
    IdIndexExact
    LookupsDisjoint
PROPERTIES
    VisibleUntilRemoval
    ImplementsStore
