SPECIFICATION Spec
CONSTANTS
    Services = {s1}
    OutCap = 1
    StreamCap = 1
    Faults = {"break", "list", "fail"}
    QuietStart = FALSE
INVARIANTS TypeOK FullListNeverBlocks
PROPERTIES OptInIsServed WatcherStops
