\* One thread and one crash: the process dies between storing the new
\* password and clearing the trusted devices.
CONSTANTS
    Threads = {t1}
    Hwids = {h1}
    Passwords = {p1, p2}
    HardPassword = NoPassword
    NoPassword = NoPassword
    NoBlob = NoBlob
    NoThread = NoThread
    Expiry = 1
    MaxTime = 1
    MaxTrusted = 1
    MaxOps = 3
    Config2Setters = {}
    MaxCrashes = 1
SPECIFICATION Spec
INVARIANTS
    TrustRevokedOnPasswordChange
