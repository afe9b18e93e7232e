\* A peer whose id starts with "base64_": the listing decodes its stem.
CONSTANTS
    Listers = {l1}
    Conns = {}
    Ids = {"p1", "base64_abc"}
    Forbidden = {}
    SlashEncoded = {}
    HasSlash = {}
    Prefixed = {"base64_abc"}
    Platforms = {"", "win"}
    Pwds = {"pw"}
    Strings = {"", "pw"}
    Long = {}
    NoPlain = NoPlain
    Filters = {NoFilter}
    NoFilter = NoFilter
    NoTo = NoTo
    MaxFrom = 1
    MaxTo = 2
    BATCH_LOADING_COUNT = 1
    NoFile = NoFile
    MaxOps = 3
    PrefixDecode <- MCPrefixDecode
    InitDisks <- MCInitDisks
INIT Init
NEXT Next
INVARIANT PeerKept
