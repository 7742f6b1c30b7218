SPECIFICATION FairSpec
CONSTANTS
    Users = {u1}
    MayFail = {}
PROPERTIES
    StopComesBack
