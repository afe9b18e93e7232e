\* Two threads and no crash: t2 syncs the network record with Config2::get
\* and Config2::set while t1 changes the permanent password.  Only t2 calls
\* Config2::set, so the threads are not interchangeable: no symmetry.
CONSTANTS
    Threads = {t1, t2}
    Hwids = {h1, h2}
    Passwords = {p1, p2}
    HardPassword = NoPassword
    NoPassword = NoPassword
    NoBlob = NoBlob
    NoThread = NoThread
    Expiry = 1
    MaxTime = 1
    MaxTrusted = 2
    MaxOps = 2
    Config2Setters = {t2}
    MaxCrashes = 0
SPECIFICATION Spec
INVARIANTS
    TrustRevokedOnPasswordChange
