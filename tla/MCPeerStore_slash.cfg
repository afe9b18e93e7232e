\* A peer id whose base64 text holds a '/': "pc?q=1" -> "base64_cGM/cT0x".
CONSTANTS
    Listers = {l1}
    Conns = {}
    Ids = {"p1", "pc?q=1"}
    Forbidden = {"pc?q=1"}
    SlashEncoded = {"pc?q=1"}
    HasSlash = {}
    Prefixed = {}
    Platforms = {"", "win"}
    Pwds = {"pw"}
    Strings = {"", "pw"}
    Long = {}
    NoPlain = NoPlain
    Filters = {NoFilter}
    NoFilter = NoFilter
    NoTo = NoTo
    MaxFrom = 1
    MaxTo = 2
    BATCH_LOADING_COUNT = 1
    NoFile = NoFile
    MaxOps = 3
    PrefixDecode <- MCPrefixDecode
    InitDisks <- MCInitDisks
INIT Init
NEXT Next
INVARIANT EveryPeerListable
