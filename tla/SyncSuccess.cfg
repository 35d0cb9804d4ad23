CONSTANTS
    i1 = i1
    i2 = i2
    i3 = i3
    Keys = {ka, kb}
    Groups = {g1, g2}
    Countries = {ca, cb}
    Ids = {i1, i2, i3}
    Values = {va, big}
    Oversized = {big}
    NoValue = NoValue
    IdHash <- MCIdHash
    MaxRecords = 1
SPECIFICATION Spec
PROPERTIES
    SuccessMeansCarriedOut
