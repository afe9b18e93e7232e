------------------------------ MODULE Resolver ------------------------------
(***************************************************************************)
(* The option resolver of src/config.rs, shared by every option family:    *)
(* get_or (OVERWRITE > stored > DEFAULT), is_option_can_save, the          *)
(* insert-or-remove of the single-key writers, and option2bool.  An option *)
(* map is a function from Keys to a value, Empty for the string "" or      *)
(* Absent for no entry; a HashMap<String, String> is such a function with  *)
(* finitely many non-Absent entries.                                       *)
(***************************************************************************)
EXTENDS Naturals

CONSTANTS
    Keys,       \* option names
    Vals,       \* non-empty option values
    Empty,      \* the value ""
    Absent,     \* no entry in the map
    KeyKind     \* the prefix class option2bool reads off a key's name

Value == Vals \cup {Empty}

OptMap == [Keys -> Value \cup {Absent}]

ASSUME ResolverAssumption ==
    /\ Empty \notin Vals /\ Absent \notin Value
    /\ KeyKind \in [Keys -> {"enable", "allow", "other"}]

NoMap == [k \in Keys |-> Absent]

(* get_or(a, b, c, k): a.get(k).or(b.get(k)).or(c.get(k)).                *)
GetOr(a, b, c, k) ==
    IF a[k] # Absent THEN a[k] ELSE IF b[k] # Absent THEN b[k] ELSE c[k]

(* .unwrap_or_default() of a missing result is "".                        *)
OrEmpty(x) == IF x = Absent THEN Empty ELSE x

(* is_option_can_save: the key is not overwritten and v is not its default.*)
IsOptionCanSave(overwrite, k, defaults, v) ==
    overwrite[k] = Absent /\ defaults[k] # v

(* The change of the single-key writers: v = "" removes k, anything else   *)
(* inserts it (the store when it changed is the same state).               *)
Put(m, k, v) == [m EXCEPT ![k] = IF v = Empty THEN Absent ELSE v]

(* option2bool: "enable-" keys are on unless "N"; "allow-" keys, and the   *)
(* few named ones KeyKind puts with them, are on only for "Y"; any other   *)
(* key is on unless "N".                                                   *)
Option2Bool(k, v) == IF KeyKind[k] = "allow" THEN v = "Y" ELSE v # "N"
====
