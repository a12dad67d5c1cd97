SPECIFICATION LetterSpec
CONSTANTS
    cons = cons
    symbol = symbol
    namespace = namespace
    vector = vector
    string = string
    SymbolWords = {}
    VectorWords = {3}
    StringWords = {}
    Capacity = 22
    SizeModulus = 8
    Classes = {cons, symbol, namespace, vector, string}
    Cons = cons
    Symbol = symbol
    Namespace = namespace
    Vector = vector
    Untraced = {string}
    Payload <- Payloads
    Period = 4
    Window = 1
    MaxHeld = 2
INVARIANTS MarksReachable
PROPERTIES ImplementsCollector
CHECK_DEADLOCK FALSE
