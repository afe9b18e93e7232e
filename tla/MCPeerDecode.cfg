\* PeerConfig::load and store of one peer file beside UserDefaultConfig::set,
\* read and the one-second clock: numbers in range, and the round trip.
CONSTANTS
    Keys <- MCKeys
    Vals <- MCVals
    Empty = ""
    Absent = Absent
    NaN = NaN
    KeyKind <- MCKeyKind
    OverwriteDisplay <- MCNoSettings
    DefaultDisplay <- MCNoSettings
    KeySpec <- MCKeySpec
    ParseNum <- MCParseNum
    ShowNum <- MCShowNum
    ViewKey = "view_style"
    CursorKey = "show_remote_cursor"
    TrackKey = "trackpad-speed"
    QualKey = "custom_image_quality"
    Missing = Missing
    Bad = Bad
    NoPeerFile = NoPeerFile
    NoPeer = NoPeer
    Platforms = {"", "Windows"}
    PeerInits <- MCPeerInits
    Edits <- MCEdits
    UserInputs <- MCUserInputs
INIT PeerInit
NEXT PeerNext
INVARIANTS PeerNumbersValid RoundTrip
