\* Config::set_option / set_options on three keys of the general family:
\* purified storage and the get_options -> set_options round trip.
CONSTANTS
    Keys <- MCKeys
    Vals <- MCVals
    Empty = ""
    Absent = Absent
    KeyKind <- MCKeyKind
    OverwriteSettings <- MCOverwrite
    DefaultSettings <- MCDefault
SPECIFICATION Spec
INVARIANTS StoredPurified
PROPERTIES RoundTrip
