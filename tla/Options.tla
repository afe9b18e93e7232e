------------------------------ MODULE Options ------------------------------
(***************************************************************************)
(* The general option family of src/config.rs: CONFIG2.options behind      *)
(* OVERWRITE_SETTINGS and DEFAULT_SETTINGS, with Config::get_option,       *)
(* get_options, set_option and set_options (purify_options).  Each writer  *)
(* takes CONFIG2.write(), changes the map and stores before the guard      *)
(* drops, so a call is one step and the file equals the map.  The two      *)
(* settings maps are filled at start-up (init_default_settings) before any *)
(* call, and are constants here.                                           *)
(***************************************************************************)
EXTENDS Resolver

CONSTANTS OverwriteSettings, DefaultSettings

ASSUME OptionsAssumption ==
    OverwriteSettings \in OptMap /\ DefaultSettings \in OptMap

VARIABLES
    options,   \* CONFIG2.options
    last       \* history: the last call and its arguments

vars == <<options, last>>

Calls == [fam : {"set_option"}, k : Keys, v : Value]
         \cup [fam : {"set_options"}, m : OptMap] \cup [fam : {"none"}]

(* Config::get_option.                                                     *)
GetOption(k) == OrEmpty(GetOr(OverwriteSettings, options, DefaultSettings, k))

(* Mutant: get_options that extends by DEFAULT last, so a default hides a *)
(* stored value.                                                           *)
GetOptionsDefaultLast ==
    [k \in Keys |-> GetOr(OverwriteSettings, DefaultSettings, options, k)]

(* Config::get_options: DEFAULT, extended by the stored map, extended by   *)
(* OVERWRITE (a key in none of them is missing from the result).           *)
GetOptions == [k \in Keys |-> GetOr(OverwriteSettings, options, DefaultSettings, k)]

(* Mutant: set_options that stores its argument without purifying it.      *)
PurifyOptionsKeepAll(m) == m

(* Config::purify_options: keep the entries is_option_can_save accepts.    *)
(* An empty value is kept.                                                 *)
PurifyOptions(m) ==
    [k \in Keys |-> IF m[k] # Absent
                       /\ IsOptionCanSave(OverwriteSettings, k, DefaultSettings, m[k])
                    THEN m[k] ELSE Absent]

-----------------------------------------------------------------------------
(* A fresh install: no <app>2.toml, so the stored map is empty.            *)
Init ==
    /\ options = NoMap
    /\ last = [fam |-> "none"]

(* Config::set_option(k, v): an early return when is_option_can_save       *)
(* refuses; otherwise "" removes k and any other value inserts it, and the *)
(* map is stored when it changed.                                          *)
SetOption(k, v) ==
    /\ options' = IF IsOptionCanSave(OverwriteSettings, k, DefaultSettings, v)
                  THEN Put(options, k, v) ELSE options
    /\ last' = [fam |-> "set_option", k |-> k, v |-> v]

(* Config::set_options(m): purify m, then replace the whole map (and store *)
(* it) unless it is equal already.                                         *)
SetOptions(m) ==
    /\ options' = PurifyOptions(m)
    /\ last' = [fam |-> "set_options", m |-> m]

Next ==
    \/ \E k \in Keys, v \in Value : SetOption(k, v)
    \/ \E m \in OptMap : SetOptions(m)

Spec == Init /\ [][Next]_vars

-----------------------------------------------------------------------------
TypeOK == options \in OptMap /\ last \in Calls

(* No stored option is one that set_option would refuse: every entry of    *)
(* CONFIG2.options is neither overwritten nor equal to its default, after  *)
(* any mix of set_option and set_options calls (spec 4.5, purify).         *)
StoredPurified ==
    \A k \in Keys : options[k] # Absent =>
        IsOptionCanSave(OverwriteSettings, k, DefaultSettings, options[k])

(* Writing back what was read changes nothing: set_options(get_options())  *)
(* leaves get_option of every key as it was, although get_options merges  *)
(* the defaults and the overwrites into what set_options is given.         *)
RoundTripStep ==
    last'.fam = "set_options" /\ last'.m = GetOptions
    => \A k \in Keys : GetOption(k)' = GetOption(k)

RoundTrip == [][RoundTripStep]_vars

(* Spec 8: after set_option(k, v), get_option(k) = v, unless               *)
(* is_option_can_save refused the write, in which case get_option(k) is    *)
(* unchanged.                                                              *)
SetThenGetStep ==
    \A k \in Keys, v \in Value :
        last' = [fam |-> "set_option", k |-> k, v |-> v] =>
            IF IsOptionCanSave(OverwriteSettings, k, DefaultSettings, v)
            THEN GetOption(k)' = v
            ELSE GetOption(k)' = GetOption(k)

SetThenGet == [][SetThenGetStep]_vars
====
