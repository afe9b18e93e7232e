\* Two threads call Status::set concurrently; the implementation must
\* implement the atomic map StatusSpec under fair scheduling.
CONSTANTS
    Threads = {t1, t2}
    Keys = {k1, k2}
    Vals = {"on"}
    Empty = ""
    Absent = Absent
    NoReq = NoReq
    KeyKind <- MCKeyKind
SPECIFICATION FairSpec
PROPERTIES AbsFairSpec
