SPECIFICATION Spec
CONSTANTS
    Cameras = {c1}
    Global = Global
    Requests = {r1, r2}
    Readers = {x1}
    Base = Base
    None = None
    Kinds = {"add", "update", "delete", "global", "revert", "addstream", "delstream"}
    Faults = {"http", "reply", "reject", "store", "crash", "restart", "ttl"}
    Concurrent = TRUE
SYMMETRY Symmetry
INVARIANTS
    RejectedLeavesNoTrace
CHECK_DEADLOCK FALSE
