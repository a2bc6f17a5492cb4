SPECIFICATION FairSpec
CONSTANTS
    Apps = {a1}
    Targets = {t1, t2}
    Revs = {r1, r2}
    GwName <- OwnNames
    GwIds = {g1, g2}
    Keys = {k1, k2, k3, k4}
    Absent = Absent
    NoEgress = NoEgress
    Gone = Gone
    NotYet = NotYet
    None = None
    Faults = {"list", "create", "expire", "crash"}
    MaxFaults = 2
INVARIANTS NoOpMeansServed KeysAccounted
PROPERTY Converges
