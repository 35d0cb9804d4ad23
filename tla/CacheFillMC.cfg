CONSTANTS
    ka = ka
    i1 = i1
    i2 = i2
    ca = ca
    cd = cd
    e1 = e1
    e2 = e2
    NoFill = NoFill
    NoNotice = NoNotice
    NoKey = NoKey
    Keys = {ka}
    Ids = {i1, i2}
    Owner <- NameOwner
    IdHash <- NameHash
    Fallback <- NoFallback
    MaxRecords = 2
    Displaced = {ka}
    MaxVersion = 2
    MaxQueue = 3
    MaxNotices = 2
SPECIFICATION Spec
INVARIANTS
    TypeOK
    StaleOnlyIfOvertaken
    
