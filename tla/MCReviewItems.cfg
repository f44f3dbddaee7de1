CONSTANTS
    MessageLen <- MCMessageLen
    ADDRESS_LEN = 55
    PATH_LEN = 14
    PAGE_LEN = 39
    UINT8_RANGE = 256
    Index <- MCIndex
SPECIFICATION FairSpec
INVARIANTS
    ReviewTypeOK
    ReviewIsComplete
    NoErrorScreen
    ItemsBelowCount
PROPERTIES
    WalkAdvances
    WalkEnds
