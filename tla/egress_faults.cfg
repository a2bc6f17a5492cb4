SPECIFICATION Spec
CONSTANTS
    Apps = {a1}
    Targets = {t1, t2}
    Revs = {r1, r2}
    GwName <- OwnNames
    GwIds = {g1, g2, g3, g4}
    Keys = {k1, k2, k3, k4, k5}
    Absent = Absent
    NoEgress = NoEgress
    Gone = Gone
    NotYet = NotYet
    None = None
    Faults = {"list", "remove", "create", "update", "mint", "expire", "crash", "lost", "external"}
    MaxFaults = 2
SYMMETRY Symmetry
INVARIANTS TypeOK RefsAreRunning NoOpMeansPresent GatewayKeyUnexpired NoOpMeansNoStray
PROPERTY SurvivorsUntouched
