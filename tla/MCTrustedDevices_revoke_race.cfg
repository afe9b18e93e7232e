\* Two threads and no crash: add_trusted_device racing set_permanent_password.
CONSTANTS
    Threads = {t1, t2}
    Hwids = {h1, h2}
    Passwords = {p1, p2}
    HardPassword = NoPassword
    NoPassword = NoPassword
    NoBlob = NoBlob
    NoThread = NoThread
    Expiry = 1
    MaxTime = 1
    MaxTrusted = 2
    MaxOps = 2
    Config2Setters = {}
    MaxCrashes = 0
SPECIFICATION Spec
SYMMETRY MCSymmetry
INVARIANTS
    TrustRevokedOnPasswordChange
