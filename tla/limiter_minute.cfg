SPECIFICATION Spec
CONSTANTS
    k1 = k1  k2 = k2  k3 = k3  g1 = g1  g2 = g2
    None = None
    Key = {k1, k2, k3}
    Caller = {g1, g2}
    Limit = 2
    Window = 3
    MaxCounters = 2
    MaxDelay = 1
    MaxTime = 10
SYMMETRY Symmetry
INVARIANTS
    MinuteLimit
