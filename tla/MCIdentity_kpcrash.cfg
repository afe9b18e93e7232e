\* A restart before the spawned key-pair write has run.
CONSTANTS
    Threads = {t1, t2}
    Ids = {"i1", "i2"}
    GenIds = {"i1"}
    GenMayFail = TRUE
    RandomIds = {"i2"}
    ExternalIds = {}
    Salts = {"s1", "s2"}
    KeyPairs = {"kp1", "kp2"}
    NoKeyPair = NoKeyPair
    NoPlain = NoPlain
    ConfigSetters = {}
    MaxOps = 3
    MaxCrashes = 1
    Long = {}
    Strings <- MCStrings
    InitFiles <- MCInitFiles
INIT Init
NEXT Next
VIEW MCView
INVARIANT KeyPairStable
