\* A connection's PeerConfig::load of a peer file an older version wrote
\* (plain password) while the peer is removed or stored again.
CONSTANTS
    Listers = {}
    Conns = {c1}
    Ids = {"p1"}
    Forbidden = {}
    SlashEncoded = {}
    HasSlash = {}
    Prefixed = {}
    Platforms = {"", "win"}
    Pwds = {"pw"}
    Strings = {"", "pw"}
    Long = {}
    NoPlain = NoPlain
    Filters = {NoFilter}
    NoFilter = NoFilter
    NoTo = NoTo
    MaxFrom = 1
    MaxTo = 2
    BATCH_LOADING_COUNT = 1
    NoFile = NoFile
    MaxOps = 3
    PrefixDecode <- MCPrefixDecode
    InitDisks <- MCInitDisks
INIT Init
NEXT Next
INVARIANT LastWriteWins
