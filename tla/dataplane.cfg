SPECIFICATION Spec
CONSTANTS
    Ports = {p1, p2}
    Conns = {n1}
INVARIANTS TypeOK HandedOutIsUp
PROPERTIES ConnReleased NothingOutlives CallerReturns
