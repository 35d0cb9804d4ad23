CONSTANTS
    Ids = {i1, i2, i3}
    Countries = {ca, cb}
    NoCountry = NoCountry
    MaxVersion = 6
    TimeOf <- MCTimeOf
SPECIFICATION Spec
SYMMETRY Symmetry
PROPERTIES
    VectorsDamagedOnlyByReading
    LingersOnlyIfPassed
    MissingOnlyIfFailed
