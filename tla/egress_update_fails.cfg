SPECIFICATION Spec
CONSTANTS
    Apps = {a1}
    Targets = {t1}
    Revs = {r1, r2}
    GwName <- OwnNames
    GwIds = {g1, g2, g3}
    Keys = {k1, k2, k3, k4}
    Absent = Absent
    NoEgress = NoEgress
    Gone = Gone
    NotYet = NotYet
    None = None
    Faults = {"mint"}
    MaxFaults = 1
INVARIANT NoOpMeansServed
