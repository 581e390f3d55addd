SPECIFICATION StackSpec
CONSTANTS
    Offsets = {1, 2}
    Displays <- MCDisplays
    FirstDisplays = {0}
    NativeSize = 1
    Modes <- MCModes
    Stores = {m1, m2}
    MaxInfos = 2
    Ids = {1, 2}
    Sizes = {1, 2}
INVARIANTS
    BackingSafe
    ModeConsistent
    BooksAgree
    RestoreFaithful
CHECK_DEADLOCK FALSE
