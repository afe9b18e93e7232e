\* Two threads, two devices, a clock that reaches past one expiry, a list
\* cap of one device so the 1 MiB refusal happens, and one crash.  Of the
\* two passwords one is HARD_SETTINGS["password"]: a process that starts
\* with it can change to the other, and setting it returns early.
CONSTANTS
    Threads = {t1, t2}
    Hwids = {h1, h2}
    Passwords = {p1, p2}
    HardPassword = p2
    NoPassword = NoPassword
    NoBlob = NoBlob
    NoThread = NoThread
    Expiry = 1
    MaxTime = 2
    MaxTrusted = 1
    MaxOps = 2
    Config2Setters = {t1, t2}
    MaxCrashes = 1
SPECIFICATION Spec
SYMMETRY MCSymmetry
VIEW MCView
INVARIANTS
    NoDuplicateHwid
