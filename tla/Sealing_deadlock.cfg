SPECIFICATION FairSpec
CONSTANTS
    Miners = {m1, m2}
    MaxHeader = 2
PROPERTIES
    SealRequestReturns
