CONSTANTS
    ka = ka
    i1 = i1
    i2 = i2
    ca = ca
    cd = cd
    e1 = e1
    e2 = e2
    NoFill = NoFill
    NoNotice = NoNotice
    NoKey = NoKey
    Keys = {ca, cd}
    Ids = {e1, e2}
    Owner <- EntryOwner
    IdHash <- EntryHash
    Fallback <- ToDefault
    MaxRecords = 1
    Displaced = {}
    MaxVersion = 2
    MaxQueue = 2
    MaxNotices = 1
SPECIFICATION FairSpec
INVARIANTS
    StaleOnlyIfOvertaken
    FallbackOnlyIfLacking
PROPERTIES
    FillCompletes
