SPECIFICATION Spec
CONSTANTS
    uninterned = uninterned
    core = core
    first = first
    second = second
    x = x
    y = y
    z = z
    Names = {x, y, z}
    Hash <- Hashes
    Spaces = {uninterned, core, first, second}
    NameOf <- SpaceNames
    Uninterned = uninterned
    Core = core
    NIL = NIL
    Values = {v, w}
    Unbound = Unbound
    MaxSymbols = 2
SYMMETRY Symmetries
INVARIANTS TypeOK CacheMatchesLists ReadsBack
PROPERTIES DefinitionResolves ImplementsSymbolTable
CHECK_DEADLOCK FALSE
