\* A peer file whose trackpad-speed has the wrong TOML type: spec 4.1 wants
\* that one field defaulted, the rest of the record kept.
CONSTANTS
    Keys <- MCKeys
    Vals <- MCVals
    Empty = ""
    Absent = Absent
    NaN = NaN
    KeyKind <- MCKeyKind
    OverwriteDisplay <- MCNoSettings
    DefaultDisplay <- MCNoSettings
    KeySpec <- MCKeySpec
    ParseNum <- MCParseNum
    ShowNum <- MCShowNum
    ViewKey = "view_style"
    CursorKey = "show_remote_cursor"
    TrackKey = "trackpad-speed"
    QualKey = "custom_image_quality"
    Missing = Missing
    Bad = Bad
    NoPeerFile = NoPeerFile
    NoPeer = NoPeer
    Platforms = {"", "Windows"}
    PeerInits <- MCMalformedInits
    Edits <- MCEdits
    UserInputs <- MCUserInputs
INIT PeerInit
NEXT PeerNext
INVARIANT TolerantDecode
