\* Two threads storing different address books, and no load until both
\* are done: their write_all calls through two handles of one inode.
CONSTANTS
    Threads = {t1, t2}
    Removers = {}
    Loaders = {}
    Jsons = {"j1", "j2"}
    TooLarge = {}
    Default = Default
    Empty = Empty
    NoFile = NoFile
    MaxOps = 4
    InitFiles <- MCInitFiles
INIT Init
NEXT Next
INVARIANT AbKept
