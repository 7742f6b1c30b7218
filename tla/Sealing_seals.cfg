SPECIFICATION Spec
CONSTANTS
    Miners = {m1, m2}
    MaxHeader = 3
SYMMETRY MinerSymmetry
INVARIANTS
    SealsFit
    QuietAfterStop
    JoinedOnce
