SPECIFICATION Spec
CONSTANTS
    f1 = f1
    g1 = g1
    fc = fc
    k = k
    Lambdas = {f1, g1, fc}
    FuncallClosure = fc
    Closures = {k}
    CapturedFns <- CaptureBoth
    HeapAddrs = {h1, h2, h3, h4, h5, h6}
    MaxDepth = 5
    MaxDynamic = 6
    MaxStack = 6
    Raising = FALSE
SYMMETRY Addresses
INVARIANTS TypeOK ControlStack PopsHaveFrames InnermostBinding NoStaleFrames
PROPERTIES PopDeletesItsFrame
