SPECIFICATION Spec
CONSTANTS
    x = x
    y = y
    other = other
    Symbols <- MCSymbols
    NoSymbol = other
    MaxParams = 2
    FrameIds = 3
    MaxForms = 6
    MaxErrors = 1
CHECK_DEADLOCK FALSE
INVARIANTS
    TypeOK
    LexicalsAreEnclosing
    FrameIdsDistinct
PROPERTIES
    ResolvesInnermost
