SPECIFICATION Spec
CONSTANTS
    eot = eot
    big = big
    none = none
    Chars <- MCChars
    NoChar = none
    EOT = eot
    Letters <- MCLetters
    Digits = {"1"}
    Untyped = {big}
    Printed <- Written
    Objects <- MCObjects
    Texts <- MCTexts
    InKinds = {"string", "std"}
    MaxWrites = 2
    MaxChars = 2
    MaxLost = 1
INVARIANTS TypeOK RoundTrip NoPartialForm DepthIsBalance EofReported ReadAdvances
PROPERTIES ReadReturns
