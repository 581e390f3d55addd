SPECIFICATION Spec
CONSTANTS
    TotalPages = 3
    ByteBits = 2
    Tpls <- TwoTpls
    BaseTpl = 4
    MaxRequest = 2
CONSTRAINT UntilOvertaken
INVARIANTS
    ExclusiveOwnership
    ExhaustedIsExhausted
PROPERTIES
    CallbackLeavesNoTrace
    ImplementsPageAllocator
