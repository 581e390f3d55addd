SPECIFICATION Spec
CONSTANTS
    a = a
    b = b
    f1 = f1
    f2 = f2
    Names = {a, b}
    MaxNodes = 2
    MaxDepth = 2
    Slots = {f1, f2}
    MaxRefused = 2
SYMMETRY Symmetry
INVARIANT
    LookupsBalanced
PROPERTIES
    PathsKept
    DeletesOwn
