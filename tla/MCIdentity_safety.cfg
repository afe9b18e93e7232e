\* Desktop, with Config::get/set pairs, update_id, an external set_id and a
\* restart: the id on disk stays blank and a restart keeps the id.
CONSTANTS
    Threads = {t1, t2}
    Ids = {"i1", "i2"}
    GenIds = {"i1"}
    GenMayFail = TRUE
    RandomIds = {"i2"}
    ExternalIds = {"i2"}
    Salts = {"s1", "s2"}
    KeyPairs = {"kp1", "kp2"}
    NoKeyPair = NoKeyPair
    NoPlain = NoPlain
    ConfigSetters = {t2}
    MaxOps = 3
    MaxCrashes = 1
    Long = {}
    Strings <- MCStrings
    InitFiles <- MCInitFiles
INIT Init
NEXT Next
VIEW MCView
INVARIANT OnDiskIdEmpty
PROPERTY IdSurvivesRestart
