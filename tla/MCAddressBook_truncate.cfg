\* Ab::store truncates before it checks the size and before it writes:
\* a store of a blob over 64 MiB, or a crash between File::create and
\* write_all, then a load.
CONSTANTS
    Threads = {t1}
    Removers = {}
    Loaders = {t1}
    Jsons = {"j1", "j2"}
    TooLarge = {"j2"}
    Default = Default
    Empty = Empty
    NoFile = NoFile
    MaxOps = 4
    InitFiles <- MCInitFiles
INIT Init
NEXT NextWithCrash
INVARIANT AbKept
