\* Spec 8 set-then-get law for LocalConfig::set_option, with the language key.
CONSTANTS
    Keys <- MCKeys
    Vals = {"Y", "N", "default"}
    Empty = ""
    Absent = Absent
    KeyKind <- MCKeyKind
    RemoteIds = {"r1"}
    KbLayouts = {"ISO"}
    Positions = {0}
    Extents = {299, 300}
    Favs <- MCFavs
    LangKey = "lang"
    DefaultLang = "default"
    OverwriteLocal <- MCOverwriteLocal
    DefaultLocal <- MCDefaultLocal
SPECIFICATION Spec
PROPERTIES LocalSetThenGet
