SPECIFICATION FairSerialSpec
CONSTANTS
    Users = {u1, u2}
    MayFail = {"listen", "determinePublic", "nodeTable", "restoreNetwork", "run", "io"}
INVARIANTS
    DoneWorkingAlone
PROPERTIES
    NetworkDown
    StartComesBack
