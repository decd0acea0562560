SPECIFICATION Spec
CONSTANTS
    Cameras = {c1}
    Global = Global
    Requests = {r1, r2, r3}
    Readers = {}
    Base = Base
    None = None
    Kinds = {"add", "update", "delete", "global", "revert"}
    Faults = {"http", "reply", "reject", "store", "crash"}
    Concurrent = FALSE
SYMMETRY Symmetry
INVARIANTS
    SavedDurable
    StreamsInPlace
PROPERTY ImplementsStore
CHECK_DEADLOCK FALSE
