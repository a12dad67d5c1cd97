SPECIFICATION Spec
CONSTANTS
    cons = cons
    symbol = symbol
    namespace = namespace
    vector = vector
    string = string
    SymbolWords = {3}
    VectorWords = {}
    StringWords = {}
    Capacity = 19
    SizeModulus = 8
    Classes = {cons, symbol, namespace, vector, string}
    Cons = cons
    Symbol = symbol
    Namespace = namespace
    Vector = vector
    Untraced = {string}
    Payload <- Payloads
    Period = 4
    Window = 1
    MaxHeld = 2
INVARIANTS LiveNotFree
CHECK_DEADLOCK FALSE
