CONSTANTS
    MaxLabels = 3
    MaxChunk = 2
    MaxValue = 2
    Key <- MCKey
    Bytes <- MCBytes
    MaxLength = 7
SPECIFICATION TextsSpec
INVARIANTS NamesSurvive ZoneOfName TxtWhole ParamUnlessShadowed 
CHECK_DEADLOCK FALSE
