SPECIFICATION Spec
CONSTANTS
    Previews = {p1, p2}
    Imports = {i1, i2}
    Slots <- MCSlots
    TTL = 0
    MaxTime = 1
    None = None
INVARIANTS
    GoneMeansImported
PROPERTIES
    NoDuplicateImport
CHECK_DEADLOCK FALSE
