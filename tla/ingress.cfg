SPECIFICATION FairSpec
CONSTANTS
    Services = {s1}
    Configs = {c1, c2}
    Absent = Absent
    Keys = {k1, k2, k3}
    None = None
    MaxRestarts = 1
INVARIANTS TypeOK StoredProxyIsLive NoLeakedProxy KeysAccounted
PROPERTIES HalvesIndependent MakeBeforeBreak NoChurn Converges ShutsDown
