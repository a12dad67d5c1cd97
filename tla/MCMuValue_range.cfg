SPECIFICATION Spec
CONSTANTS
    W = 20
    CharBits = 4
    Hash <- Sum
    Atoms <- WideAtoms
    Texts <- MCTexts
    Lists <- MCLists
    Indices <- MCIndices
    MaxArgs = 2
    MaxSteps = 1
CHECK_DEADLOCK FALSE
PROPERTIES
    ReadKeepsNumbers
