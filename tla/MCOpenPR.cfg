SPECIFICATION Spec
CONSTANTS
    Branches = {b1, b2}
    Values = {v1, v2}
    None = None
INVARIANTS IInv ReturnsClean
PROPERTIES KeepsPromise
