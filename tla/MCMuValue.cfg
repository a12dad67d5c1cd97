SPECIFICATION Spec
CONSTANTS
    W = 20
    CharBits = 4
    Hash <- Sum
    Atoms <- MCAtoms
    Texts <- MCTexts
    Lists <- MCLists
    Indices <- MCIndices
    MaxArgs = 2
    MaxSteps = 4
CHECK_DEADLOCK FALSE
INVARIANTS
    TypeOK
    EqualWordsAreEq
PROPERTIES
    ImplementsLispValues
