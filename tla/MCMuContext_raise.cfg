SPECIFICATION Spec
CONSTANTS
    f1 = f1
    g1 = g1
    fc = fc
    k = k
    Lambdas = {f1, fc}
    FuncallClosure = fc
    Closures = {k}
    CapturedFns <- CaptureOne
    HeapAddrs = {h1, h2, h3}
    MaxDepth = 6
    MaxDynamic = 5
    MaxStack = 3
    Raising = TRUE
SYMMETRY Addresses
INVARIANTS ControlStack PopsHaveFrames InnermostBinding
CHECK_DEADLOCK FALSE
