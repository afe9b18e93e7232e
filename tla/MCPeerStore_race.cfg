\* A store of a peer between the listing's load and its delete.
CONSTANTS
    Listers = {l1}
    Conns = {}
    Ids = {"p1"}
    Forbidden = {}
    SlashEncoded = {}
    HasSlash = {}
    Prefixed = {}
    Platforms = {"", "win"}
    Pwds = {"pw"}
    Strings = {"", "pw"}
    Long = {}
    NoPlain = NoPlain
    Filters = {NoFilter}
    NoFilter = NoFilter
    NoTo = NoTo
    MaxFrom = 1
    MaxTo = 2
    BATCH_LOADING_COUNT = 1
    NoFile = NoFile
    MaxOps = 3
    PrefixDecode <- MCPrefixDecode
    InitDisks <- MCInitDisks
INIT Init
NEXT Next
INVARIANT PeerKept
