\* Two threads loading and storing one address book (no remove, no crash),
\* so that two stores' writes cannot tear the file.
CONSTANTS
    Threads = {t1, t2}
    Removers = {}
    Loaders = {t1, t2}
    Jsons = {"j1"}
    TooLarge = {}
    Default = Default
    Empty = Empty
    NoFile = NoFile
    MaxOps = 4
    InitFiles <- MCInitFiles
INIT Init
NEXT Next
INVARIANT AbKept
