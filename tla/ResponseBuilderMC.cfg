CONSTANTS
    OutSize = 4096
    QuestionEnds <- MCQuestionEnds
    Limits <- MCLimits
    RdataSizes <- MCRdataSizes
SPECIFICATION BuilderSpec
CHECK_DEADLOCK FALSE
INVARIANTS
    BuilderTypeOK
    NeverPastBuffer
    UdpOvershoot
PROPERTIES
    OptKeepsAnswers
