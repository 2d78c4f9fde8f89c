CONSTANTS
    PciAddrs = {"p1", "p2"}
    VfCounts = {0, 2}
    Mtus = {1500, 9000}
    MaxIfaces = 2
SPECIFICATION Spec
INVARIANT DrainLoopMatchesSpec
