SPECIFICATION FairSpec
CONSTANTS
    Cameras = {c1}
    Global = Global
    Requests = {r1, r2}
    Readers = {x1}
    Base = Base
    None = None
    Kinds = {"update", "revert"}
    Faults = {"http", "reject", "ttl"}
    Concurrent = TRUE
PROPERTIES
    EventuallyFresh
    EveryEditEnds
CHECK_DEADLOCK FALSE
