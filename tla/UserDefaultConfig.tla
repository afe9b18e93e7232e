------------------------- MODULE UserDefaultConfig -------------------------
(***************************************************************************)
(* The display defaults of src/config.rs (<app>_default.toml) and          *)
(* USER_DEFAULT_CONFIG, the copy of them that UserDefaultConfig::read      *)
(* serves and reloads from the file once it is more than a second old      *)
(* (another process may have changed the file).  UserDefaultConfig::get   *)
(* validates what get_or yields for the keys with an enumerated or a       *)
(* numeric range; UserDefaultConfig::set writes the file.                  *)
(***************************************************************************)
EXTENDS Resolver, Integers

CONSTANTS
    OverwriteDisplay, DefaultDisplay,
    KeySpec,    \* what UserDefaultConfig::get does for a key (its match arm)
    ParseNum,   \* str::parse of a value to the key's number type, or NaN
    NaN,
    ShowNum     \* to_string of a number

ASSUME UserDefaultConfigAssumption ==
    /\ OverwriteDisplay \in OptMap /\ DefaultDisplay \in OptMap
    /\ NaN \notin Int
    /\ DOMAIN ShowNum \subseteq Int /\ ShowNum \in [DOMAIN ShowNum -> Value]
    /\ ParseNum \in [Value -> DOMAIN ShowNum \cup {NaN}]
    /\ \A k \in Keys :
          \/ KeySpec[k].kind = "plain"
          \/ KeySpec[k].kind = "enum" /\ KeySpec[k].default \in Value
                 /\ KeySpec[k].others \subseteq Value
          \/ KeySpec[k].kind = "num" /\ KeySpec[k].default \in DOMAIN ShowNum
                 /\ KeySpec[k].min \in Int /\ KeySpec[k].max \in Int
                 /\ KeySpec[k].default \in KeySpec[k].min .. KeySpec[k].max
    /\ \A n \in DOMAIN ShowNum : ParseNum[ShowNum[n]] = n

VARIABLES
    file,      \* <app>_default.toml
    cache,     \* USER_DEFAULT_CONFIG.0
    stale,     \* USER_DEFAULT_CONFIG.1.elapsed() > 1 s
    lastRead   \* history: the key of the last read and what it returned

vars == <<file, cache, stale, lastRead>>

(* UserDefaultConfig::get_after.                                           *)
GetAfter(m, k) == GetOr(OverwriteDisplay, m, DefaultDisplay, k)

(* get_string: the option if it is one of the others, else the default.   *)
GetString(m, k) ==
    IF GetAfter(m, k) \in KeySpec[k].others THEN GetAfter(m, k) ELSE KeySpec[k].default

(* get_num_string: parse (the default on failure), then the parsed number  *)
(* if within [min, max], else the default, as a string.                    *)
GetNumString(m, k) ==
    LET o == GetAfter(m, k)
        v == IF o # Absent /\ ParseNum[o] # NaN THEN ParseNum[o] ELSE KeySpec[k].default
    IN  IF o = Absent THEN ShowNum[KeySpec[k].default]
        ELSE IF KeySpec[k].min <= v /\ v <= KeySpec[k].max THEN ShowNum[v]
        ELSE ShowNum[KeySpec[k].default]

(* UserDefaultConfig::get: the match on the key.                           *)
Get(m, k) ==
    CASE KeySpec[k].kind = "enum" -> GetString(m, k)
      [] KeySpec[k].kind = "num"  -> GetNumString(m, k)
      [] OTHER                    -> OrEmpty(GetAfter(m, k))

-----------------------------------------------------------------------------
(* USER_DEFAULT_CONFIG is initialised from the file; no file yet.          *)
Init ==
    /\ file = NoMap /\ cache = NoMap /\ stale = FALSE
    /\ lastRead = [read |-> FALSE]

(* UserDefaultConfig::set on the record loaded from the file: refused by   *)
(* is_option_can_save; otherwise "" removes the key, any other value       *)
(* inserts it, and the record is stored.                                   *)
Set(k, v) ==
    /\ file' = IF IsOptionCanSave(OverwriteDisplay, k, DefaultDisplay, v)
               THEN Put(file, k, v) ELSE file
    /\ UNCHANGED <<cache, stale, lastRead>>

(* UserDefaultConfig::read(k) under USER_DEFAULT_CONFIG.write(): a copy    *)
(* older than a second is reloaded from the file first; then get(k).      *)
Read(k) ==
    /\ cache' = IF stale THEN file ELSE cache
    /\ stale' = FALSE
    /\ lastRead' = [read |-> TRUE, k |-> k, val |-> Get(cache', k), reloaded |-> stale]
    /\ UNCHANGED file

(* A second passes.                                                        *)
Tick ==
    /\ ~stale
    /\ stale' = TRUE
    /\ UNCHANGED <<file, cache, lastRead>>

Next ==
    \/ \E k \in Keys, v \in Value : Set(k, v)
    \/ \E k \in Keys : Read(k)
    \/ Tick

Spec == Init /\ [][Next]_vars

-----------------------------------------------------------------------------
TypeOK ==
    /\ file \in OptMap /\ cache \in OptMap /\ stale \in BOOLEAN
    /\ lastRead \in [read : {TRUE}, k : Keys, val : Value, reloaded : BOOLEAN]
                    \cup [read : {FALSE}]

(* Spec 3 (iv) and 4.5: whatever the file holds, a read of a key with an   *)
(* enumerated set returns its default or one of the others, and a read of  *)
(* a numeric key returns a number in its range (custom_image_quality in    *)
(* [10, 4095]), even right after reloading a file another process wrote.   *)
ReadValid ==
    lastRead.read =>
    LET s == KeySpec[lastRead.k] IN
    /\ s.kind = "enum" => lastRead.val \in s.others \cup {s.default}
    /\ s.kind = "num"  => ParseNum[lastRead.val] \in s.min .. s.max
====
