\* Spec 8 set-then-get law for Config::set_option, on the keys whose
\* defaults init_default_settings installs.
CONSTANTS
    Keys <- MCKeys
    Vals <- MCVals
    Empty = ""
    Absent = Absent
    KeyKind <- MCKeyKind
    OverwriteSettings <- MCOverwrite
    DefaultSettings <- MCDefault
SPECIFICATION Spec

PROPERTIES SetThenGet
