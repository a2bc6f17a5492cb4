SPECIFICATION Spec
CONSTANTS
    Apps = {a1}
    Targets = {t1, t2}
    Revs = {r1, r2}
    GwName <- HostNames
    GwIds = {g1, g2, g3}
    Keys = {k1, k2, k3, k4}
    Absent = Absent
    NoEgress = NoEgress
    Gone = Gone
    NotYet = NotYet
    None = None
    Faults = {}
    MaxFaults = 0
INVARIANT NoOpMeansServed
