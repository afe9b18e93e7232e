\* A DEFAULT proxy, no OVERWRITE one, a Config2::get/set caller, a restart:
\* the secrets stay encrypted on disk, a restart keeps CONFIG2, and a
\* set_socks is read back by get_socks.
CONSTANTS
    Proxies = {"p1", "p2"}
    Users = {"", "u"}
    ProxyPwds = {"", "pw"}
    Pins = {"", "1234", "9999"}
    NatTypes = {0, 1}
    NoSocks = NoSocks
    Absent = Absent
    NoPlain = NoPlain
    Setters = {t1}
    MaxOps = 3
    MaxRestarts = 1
    Long = {"9999"}
    Strings <- MCStrings
    InitFiles <- MCInitFiles
    DefaultProxy <- MCDefaultProxy
    OverwriteProxy <- MCNoOverwrite
INIT Init
NEXT Next
VIEW MCView
INVARIANTS SecretsEncryptedOnDisk SocksSetThenGet
PROPERTY RestartKeepsNetwork
