---------------------------- MODULE LocalConfig ----------------------------
(***************************************************************************)
(* LOCAL_CONFIG of src/config.rs (<app>_local.toml): the last remote id,   *)
(* the keyboard layout, the window size, the favourites, the local options *)
(* behind OVERWRITE_/DEFAULT_LOCAL_SETTINGS and the flutter UI map.  Every *)
(* setter takes LOCAL_CONFIG.write() and stores before the guard drops, so *)
(* a call is one step and the file equals the record.                      *)
(***************************************************************************)
EXTENDS Resolver

CONSTANTS
    RemoteIds,       \* peer ids (without "")
    KbLayouts,       \* keyboard layout names (without "")
    Positions,       \* the (x, y) pairs a window can be at
    Extents,         \* the widths and heights set_size can be called with
    Favs,            \* the Vec<String>s set_fav can be called with
    LangKey,         \* keys::OPTION_LANGUAGE
    DefaultLang,     \* the value "default" of the custom client
    OverwriteLocal, DefaultLocal

(* The type Size = (x, y, w, h) with the position abstracted to one value. *)
SizeT == [pos : Positions, w : Extents \cup {0}, h : Extents \cup {0}]

(* The constants are meant as: "" in neither RemoteIds nor KbLayouts,     *)
(* Extents natural numbers, LangKey a key, DefaultLang a value, and the    *)
(* two settings maps option maps (OptMap).                                 *)

VARIABLES
    remoteId, kbLayout, size, fav,
    options,    \* LOCAL_CONFIG.options
    uiFlutter,  \* LOCAL_CONFIG.ui_flutter
    last        \* history: the last option call and its arguments

vars == <<remoteId, kbLayout, size, fav, options, uiFlutter, last>>

(* Minimum window width and height set_size accepts.                      *)
MinExtent == 300

(* LocalConfig::get_option.                                                *)
GetOption(k) == OrEmpty(GetOr(OverwriteLocal, options, DefaultLocal, k))

(* LocalConfig::get_flutter_option.                                        *)
GetFlutterOption(k) == OrEmpty(GetOr(OverwriteLocal, uiFlutter, DefaultLocal, k))

-----------------------------------------------------------------------------
(* A fresh install: LocalConfig::default().                                *)
Init ==
    /\ remoteId = "" /\ kbLayout = ""
    /\ size = [pos |-> CHOOSE p \in Positions : TRUE, w |-> 0, h |-> 0]
    /\ fav = <<>>
    /\ options = NoMap /\ uiFlutter = NoMap
    /\ last = [fam |-> "none"]

SetKbLayoutType(l) ==
    /\ kbLayout' = l
    /\ UNCHANGED <<remoteId, size, fav, options, uiFlutter, last>>

(* set_size: an early return when the size is unchanged or narrower or     *)
(* lower than 300.                                                         *)
SetSize(s) ==
    /\ s # size /\ s.w >= MinExtent /\ s.h >= MinExtent
    /\ size' = s
    /\ UNCHANGED <<remoteId, kbLayout, fav, options, uiFlutter, last>>

SetRemoteId(r) ==
    /\ r # remoteId
    /\ remoteId' = r
    /\ UNCHANGED <<kbLayout, size, fav, options, uiFlutter, last>>

SetFav(f) ==
    /\ f # fav
    /\ fav' = f
    /\ UNCHANGED <<remoteId, kbLayout, size, options, uiFlutter, last>>

(* LocalConfig::set_option: as Config::set_option, except that the        *)
(* language set to "default" stores "" (the custom client's way to follow  *)
(* the system language).                                                   *)
SetOption(k, v) ==
    /\ options' =
          IF ~IsOptionCanSave(OverwriteLocal, k, DefaultLocal, v) THEN options
          ELSE IF k = LangKey /\ v = DefaultLang THEN [options EXCEPT ![k] = Empty]
          ELSE Put(options, k, v)
    /\ last' = [fam |-> "set_option", k |-> k, v |-> v]
    /\ UNCHANGED <<remoteId, kbLayout, size, fav, uiFlutter>>

(* LocalConfig::set_flutter_option: no is_option_can_save check.           *)
SetFlutterOption(k, v) ==
    /\ uiFlutter' = Put(uiFlutter, k, v)
    /\ last' = [fam |-> "set_flutter_option", k |-> k, v |-> v]
    /\ UNCHANGED <<remoteId, kbLayout, size, fav, options>>

Next ==
    \/ \E l \in KbLayouts \cup {""} : SetKbLayoutType(l)
    \/ \E s \in [pos : Positions, w : Extents, h : Extents] : SetSize(s)
    \/ \E r \in RemoteIds \cup {""} : SetRemoteId(r)
    \/ \E f \in Favs : SetFav(f)
    \/ \E k \in Keys, v \in Value : SetOption(k, v) \/ SetFlutterOption(k, v)

Spec == Init /\ [][Next]_vars

-----------------------------------------------------------------------------
TypeOK ==
    /\ remoteId \in RemoteIds \cup {""} /\ kbLayout \in KbLayouts \cup {""}
    /\ size \in SizeT /\ fav \in Favs \cup {<<>>}
    /\ options \in OptMap /\ uiFlutter \in OptMap
    /\ last \in [fam : {"set_option", "set_flutter_option"}, k : Keys, v : Value]
                \cup [fam : {"none"}]

(* Spec 8 for LocalConfig::set_option: after set_option(k, v) that         *)
(* is_option_can_save allowed, get_option(k) = v; after one it refused,    *)
(* get_option(k) is unchanged.                                             *)
LocalSetThenGetStep ==
    \A k \in Keys, v \in Value :
        last' = [fam |-> "set_option", k |-> k, v |-> v] =>
            IF IsOptionCanSave(OverwriteLocal, k, DefaultLocal, v)
            THEN GetOption(k)' = v
            ELSE GetOption(k)' = GetOption(k)

LocalSetThenGet == [][LocalSetThenGetStep]_vars

====
