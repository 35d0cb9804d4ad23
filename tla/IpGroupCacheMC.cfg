CONSTANTS
    g1 = g1
    g2 = g2
    ca = ca
    cb = cb
    i1 = i1
    i2 = i2
    i3 = i3
    va = va
    NoKey = NoKey
    NoId = NoId
    NoValue = NoValue
    Groups = {g1, g2}
    Countries = {ca, cb}
    Ids = {i1, i2, i3}
    Values = {va}
    MaxRecords = 3
    Buckets <- MCSlots
    IdBuckets <- MCSlots
    Probe <- MCProbe
    IdHash <- MCIdHash
SPECIFICATION FullSpec
CONSTRAINT Undamaged
INVARIANT IndicesInRange
PROPERTIES
    LookupsOfOneCountry
    DamagedOnlyByAstrayDelete
