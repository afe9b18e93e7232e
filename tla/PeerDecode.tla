------------------------------ MODULE PeerDecode ------------------------------
(***************************************************************************)
(* The tolerant decode of a peer file (peers/<id>.toml) in src/config.rs,  *)
(* and its defaults, which come from USER_DEFAULT_CONFIG through           *)
(* UserDefaultConfig::read (so a load may reload that copy).  One field of *)
(* each decoder kind is kept:                                              *)
(*   view     a serde_field_string field (view_style and its five twins):  *)
(*            missing, of the wrong type or "" -> read(key);               *)
(*   cursor   a serde_field_bool wrapper (show_remote_cursor and its       *)
(*            thirteen twins): missing -> read(name) == "Y"; of the wrong  *)
(*            type -> false (deserialize_bool's unwrap_or_default);        *)
(*   track    trackpad_speed: an i32 in [10, 1000], else the default; a    *)
(*            value of another type fails the whole record;                *)
(*   qual     custom_image_quality: one i32 in [10, 0xFFF], else the       *)
(*            default; a value of another type fails the whole record;     *)
(*   platform info.platform (deserialize_string): wrong type -> "".        *)
(* A record that fails to decode makes PeerConfig::load return             *)
(* PeerConfig::default().  The password and options codec of the same load *)
(* is in PeerStore.                                                        *)
(***************************************************************************)
EXTENDS UserDefaultConfig, Sequences, TLAPS

CONSTANTS
    ViewKey, CursorKey, TrackKey, QualKey,  \* the USER_DEFAULT_CONFIG keys the defaults read
    Missing,        \* a field absent from the file
    Bad,            \* a field present with a value of another TOML type
    Platforms,      \* info.platform values, "" among them
    PeerInits,      \* the peer file at the start: NoPeerFile or a record
    NoPeerFile, NoPeer,
    Edits,          \* a sequence of what a session may change in its PeerConfig before a store
    UserInputs      \* per key, the values UserDefaultConfig::set is given

(* A peer file: each field holds a value of its type (String, bool, i32,  *)
(* Vec<i32>), is missing, or holds a value of another TOML type.           *)
PeerFileT ==
    [view : Value \cup {Missing, Bad}, cursor : BOOLEAN \cup {Missing, Bad},
     track : Int \cup {Missing, Bad}, qual : Seq(Int) \cup {Missing, Bad},
     platform : Platforms \cup {Missing, Bad}]

(* A PeerConfig in memory.                                                 *)
PeerT ==
    [view : Value, cursor : BOOLEAN, track : Int, qual : Seq(Int), platform : Platforms]

(* The keys the default functions read, with the ranges get checks them   *)
(* against: trackpad-speed [10, 1000], custom_image_quality [10, 0xFFF].  *)
ASSUME PeerKeysAssumption ==
    /\ {ViewKey, CursorKey, TrackKey, QualKey} \subseteq Keys
    /\ KeySpec[TrackKey].kind = "num" /\ KeySpec[QualKey].kind = "num"
    /\ KeySpec[TrackKey].min = 10 /\ KeySpec[TrackKey].max = 1000
    /\ KeySpec[QualKey].min = 10 /\ KeySpec[QualKey].max = 4095

ASSUME PeerDecodeAssumption ==
    /\ \A x \in {Missing, Bad} : x \notin Value \cup Platforms /\ x \notin BOOLEAN
    /\ "" \in Platforms
    /\ PeerInits \subseteq PeerFileT \cup {NoPeerFile}
    /\ UserInputs \in [Keys -> SUBSET Value]

(* Missing and Bad are no value of any field's type, and no file is      *)
(* NoPeerFile.                                                             *)
ASSUME MarkerAssumption ==
    /\ Missing # Bad
    /\ \A x \in {Missing, Bad} : x \notin Int /\ x \notin Seq(Int)
    /\ NoPeerFile \notin PeerFileT

(* An edit sets one field to a value of its type.                         *)
ASSUME EditsAssumption ==
    \A i \in DOMAIN Edits :
        /\ Edits[i].f \in {"view", "cursor", "track", "qual", "platform"}
        /\ Edits[i].f = "view" => Edits[i].v \in Value
        /\ Edits[i].f = "cursor" => Edits[i].v \in BOOLEAN
        /\ Edits[i].f = "track" => Edits[i].v \in Int
        /\ Edits[i].f = "qual" => Edits[i].v \in Seq(Int)
        /\ Edits[i].f = "platform" => Edits[i].v \in Platforms

VARIABLES
    peerFile,   \* peers/<id>.toml
    mem,        \* the session's PeerConfig: NoPeer before its first load
    fromLoad,   \* mem is what PeerConfig::load returned, unedited
    src,        \* history: the file the last load read
    stored      \* history: the PeerConfig the last store wrote, or NoPeer

pvars == <<peerFile, mem, fromLoad, src, stored>>

allVars == <<vars, pvars>>

(* The default functions: UserDefaultConfig::read of the key, parsed where *)
(* the field is a number (unwrap_or 100 and 50).                           *)
DefaultStr(m) == Get(m, ViewKey)

DefaultBool(m) == Get(m, CursorKey) = "Y"

DefaultTrackpadSpeed(m) ==
    IF ParseNum[Get(m, TrackKey)] = NaN THEN 100 ELSE ParseNum[Get(m, TrackKey)]

DefaultCustomImageQuality(m) ==
    << IF ParseNum[Get(m, QualKey)] = NaN THEN 50 ELSE ParseNum[Get(m, QualKey)] >>

(* PeerConfig::default().                                                  *)
DefaultPeer(m) ==
    [view |-> DefaultStr(m), cursor |-> DefaultBool(m), track |-> DefaultTrackpadSpeed(m),
     qual |-> DefaultCustomImageQuality(m), platform |-> ""]

(* The field decoders, with the default function for a missing field.      *)
DeserializeStr(t, m) == IF t \in {Missing, Bad, Empty} THEN DefaultStr(m) ELSE t

DeserializeBool(t, m) == IF t = Missing THEN DefaultBool(m) ELSE t = TRUE

(* Mutant: the trackpad check without its lower bound.                    *)
DeserializeTrackpadSpeedNoMin(t, m) ==
    IF t = Missing \/ t > 1000 THEN DefaultTrackpadSpeed(m) ELSE t

DeserializeTrackpadSpeed(t, m) ==
    IF t = Missing \/ ~(10 <= t /\ t <= 1000) THEN DefaultTrackpadSpeed(m) ELSE t

DeserializeCustomImageQuality(t, m) ==
    IF t = Missing \/ ~(Len(t) = 1 /\ 10 <= t[1] /\ t[1] <= 4095)
    THEN DefaultCustomImageQuality(m) ELSE t

DeserializeString(t) == IF t \in {Missing, Bad} THEN "" ELSE t

(* PeerConfig's Deserialize: a field of another type in trackpad-speed or  *)
(* custom_image_quality is an error (the decoders' ?), so is the record.   *)
DecodeFails(f) == f.track = Bad \/ f.qual = Bad

Decode(f, m) ==
    [view |-> DeserializeStr(f.view, m), cursor |-> DeserializeBool(f.cursor, m),
     track |-> DeserializeTrackpadSpeed(f.track, m),
     qual |-> DeserializeCustomImageQuality(f.qual, m),
     platform |-> DeserializeString(f.platform)]

(* What PeerConfig::load returns for a file: no file, or a record that     *)
(* fails to decode, gives the default.                                     *)
LoadedPeer(f, m) ==
    IF f = NoPeerFile \/ DecodeFails(f) THEN DefaultPeer(m) ELSE Decode(f, m)

(* Mutant: a store that skips a false flag as it skips an empty string.    *)
SerializeSkipFalse(c) ==
    [view |-> IF c.view = Empty THEN Missing ELSE c.view,
     cursor |-> IF c.cursor THEN TRUE ELSE Missing, track |-> c.track,
     qual |-> IF c.qual = << >> THEN Missing ELSE c.qual, platform |-> c.platform]

(* PeerConfig::store_: skip_serializing_if drops an empty string and an    *)
(* empty list; every other field is written.                               *)
Serialize(c) ==
    [view |-> IF c.view = Empty THEN Missing ELSE c.view,
     cursor |-> c.cursor, track |-> c.track,
     qual |-> IF c.qual = << >> THEN Missing ELSE c.qual, platform |-> c.platform]

-----------------------------------------------------------------------------
PeerInit ==
    /\ Init
    /\ peerFile \in PeerInits /\ mem = NoPeer /\ fromLoad = FALSE
    /\ src = NoPeerFile /\ stored = NoPeer

(* UserDefaultConfig::set and read, and the clock, leave the peer alone.  *)
UserSet(k, v) == Set(k, v) /\ UNCHANGED pvars

UserRead(k) == Read(k) /\ UNCHANGED pvars

UserTick == Tick /\ UNCHANGED pvars

(* PeerConfig::load(id): confy decodes the file; each default function     *)
(* calls UserDefaultConfig::read, whose first call reloads a copy older    *)
(* than a second.  No file, or a record that fails, gives the default.     *)
LoadPeer ==
    /\ cache' = IF stale THEN file ELSE cache
    /\ stale' = FALSE
    /\ mem' = LoadedPeer(peerFile, cache')
    /\ fromLoad' = TRUE
    /\ src' = peerFile
    /\ UNCHANGED <<file, lastRead, peerFile, stored>>

(* The session edits its PeerConfig (or not) and calls PeerConfig::store.  *)
StorePeer(e) ==
    /\ mem # NoPeer
    /\ LET c == IF e = NoPeer THEN mem ELSE [mem EXCEPT ![e.f] = e.v]
       IN  /\ peerFile' = Serialize(c)
           /\ mem' = c /\ stored' = c
    /\ fromLoad' = FALSE
    /\ UNCHANGED <<vars, src>>

PeerNext ==
    \/ \E k \in Keys : \E v \in UserInputs[k] : UserSet(k, v)
    \/ \E k \in Keys : UserRead(k)
    \/ UserTick
    \/ LoadPeer
    \/ StorePeer(NoPeer)
    \/ \E i \in DOMAIN Edits : StorePeer(Edits[i])

PeerSpec == PeerInit /\ [][PeerNext]_allVars

-----------------------------------------------------------------------------
PeerTypeOK ==
    /\ TypeOK
    /\ peerFile \in PeerFileT \cup {NoPeerFile} /\ fromLoad \in BOOLEAN
    /\ mem \in PeerT \cup {NoPeer} /\ stored \in PeerT \cup {NoPeer}

(* A field that load replaces by its default: an empty string, a trackpad  *)
(* speed out of [10, 1000], a custom quality that is not one value in      *)
(* [10, 4095].                                                             *)
Substituted(c, fld) ==
    \/ fld = "view" /\ c.view = Empty
    \/ fld = "track" /\ ~(10 <= c.track /\ c.track <= 1000)
    \/ fld = "qual" /\ ~(Len(c.qual) = 1 /\ 10 <= c.qual[1] /\ c.qual[1] <= 4095)

(* Spec 3 (iv): whatever the peer file and <app>_default.toml hold, a       *)
(* PeerConfig as load returns it has trackpad_speed in [10, 1000] and      *)
(* custom_image_quality one value in [10, 4095]: the decoders' range      *)
(* checks fall back on defaults that UserDefaultConfig::get validated.     *)
PeerNumbersValid ==
    fromLoad =>
        /\ 10 <= mem.track /\ mem.track <= 1000
        /\ Len(mem.qual) = 1 /\ 10 <= mem.qual[1] /\ mem.qual[1] <= 4095

(* Spec 8, load(store(v)) = v modulo field defaults: loading what          *)
(* PeerConfig::store wrote gives back every field the session stored,      *)
(* except those load replaces by their defaults; the flags included,       *)
(* although a missing flag would read as the user's default.               *)
RoundTrip ==
    (fromLoad /\ stored # NoPeer /\ src = Serialize(stored)) =>
        \A fld \in {"view", "cursor", "track", "qual", "platform"} :
            mem[fld] = stored[fld] \/ Substituted(stored, fld)

(* Spec 4.1: a recognised field with a malformed value decodes to that     *)
(* field's default, not to a failure, so the rest of the record survives:  *)
(* the platform a peer file names is the platform PeerConfig::load gives   *)
(* (batch_peers deletes a peer whose loaded platform is empty).            *)
TolerantDecode ==
    (fromLoad /\ src # NoPeerFile /\ src.platform \in Platforms) =>
        mem.platform = src.platform
-----------------------------------------------------------------------------
(* Proofs, for every value of the constants, that UserDefaultConfig::get   *)
(* validates what it returns and that PeerConfig::load returns a trackpad  *)
(* speed and a custom image quality in range, under PeerSpec.             *)

(* The strengthening: the file and the copy are option maps, which is     *)
(* what get_after needs for its result to be a value or Absent.            *)
IInv ==
    /\ file \in OptMap /\ cache \in OptMap
    /\ ReadValid
    /\ PeerNumbersValid

-----------------------------------------------------------------------------
(* get_after of an option map is a value or Absent.                       *)
LEMMA GetAfterType ==
    ASSUME NEW m \in OptMap, NEW k \in Keys
    PROVE  GetAfter(m, k) \in Value \cup {Absent}
BY UserDefaultConfigAssumption DEF GetAfter, GetOr, OptMap

(* What UserDefaultConfigAssumption says of a numeric key.                *)
LEMMA NumKeySpec ==
    ASSUME NEW k \in Keys, KeySpec[k].kind = "num"
    PROVE  /\ KeySpec[k].default \in DOMAIN ShowNum
           /\ KeySpec[k].min \in Int /\ KeySpec[k].max \in Int
           /\ KeySpec[k].default \in KeySpec[k].min .. KeySpec[k].max
BY UserDefaultConfigAssumption

(* get_num_string returns the text of a number in [min, max]: either the  *)
(* parsed option, checked against both bounds, or the default.            *)
LEMMA NumStringValid ==
    ASSUME NEW m \in OptMap, NEW k \in Keys, KeySpec[k].kind = "num"
    PROVE  ParseNum[GetNumString(m, k)] \in KeySpec[k].min .. KeySpec[k].max
<1> DEFINE o == GetAfter(m, k)
           d == KeySpec[k].default
           v == IF o # Absent /\ ParseNum[o] # NaN THEN ParseNum[o] ELSE d
<1>1. o \in Value \cup {Absent}
  BY GetAfterType
<1>2. /\ d \in DOMAIN ShowNum /\ d \in KeySpec[k].min .. KeySpec[k].max
      /\ KeySpec[k].min \in Int /\ KeySpec[k].max \in Int
  BY NumKeySpec
<1>3. ParseNum[ShowNum[d]] = d
  BY <1>2, UserDefaultConfigAssumption
<1>4. CASE o = Absent
  BY <1>2, <1>3, <1>4 DEF GetNumString
<1>5. CASE o # Absent
  <2>1. v \in DOMAIN ShowNum
    BY <1>1, <1>2, <1>5, UserDefaultConfigAssumption
  <2>2. v \in Int /\ ParseNum[ShowNum[v]] = v
    BY <2>1, UserDefaultConfigAssumption
  <2>3. CASE KeySpec[k].min <= v /\ v <= KeySpec[k].max
    BY <1>2, <1>5, <2>2, <2>3 DEF GetNumString
  <2>4. CASE ~(KeySpec[k].min <= v /\ v <= KeySpec[k].max)
    BY <1>3, <1>2, <1>5, <2>4 DEF GetNumString
  <2>. QED  BY <2>3, <2>4
<1>. QED  BY <1>4, <1>5

(* UserDefaultConfig::get of an enumerated key is its default or one of   *)
(* the others; of a numeric key, a number in range.                       *)
LEMMA GetValid ==
    ASSUME NEW m \in OptMap, NEW k \in Keys
    PROVE  /\ KeySpec[k].kind = "enum" =>
                  Get(m, k) \in KeySpec[k].others \cup {KeySpec[k].default}
           /\ KeySpec[k].kind = "num" =>
                  ParseNum[Get(m, k)] \in KeySpec[k].min .. KeySpec[k].max
<1>1. KeySpec[k].kind = "enum" =>
          Get(m, k) \in KeySpec[k].others \cup {KeySpec[k].default}
  BY DEF Get, GetString
<1>2. KeySpec[k].kind = "num" =>
          ParseNum[Get(m, k)] \in KeySpec[k].min .. KeySpec[k].max
  BY NumStringValid DEF Get
<1>. QED  BY <1>1, <1>2

(* The same for a numeric key whose bounds are given.                    *)
LEMMA NumGetBounds ==
    ASSUME NEW m \in OptMap, NEW k \in Keys, NEW lo \in Int, NEW hi \in Int,
           KeySpec[k].kind = "num", KeySpec[k].min = lo, KeySpec[k].max = hi
    PROVE  /\ lo <= ParseNum[Get(m, k)] /\ ParseNum[Get(m, k)] <= hi
           /\ ParseNum[Get(m, k)] # NaN
<1>1. ParseNum[Get(m, k)] \in lo .. hi
  BY NumStringValid DEF Get
<1>. QED  BY <1>1, UserDefaultConfigAssumption

(* The defaults of the two numbers, read through get from an option map:  *)
(* default_trackpad_speed and default_custom_image_quality never fall back *)
(* on their own 100 and 50, and stay within the decoders' ranges.          *)
LEMMA DefaultsInRange ==
    ASSUME NEW m \in OptMap
    PROVE  /\ 10 <= DefaultTrackpadSpeed(m) /\ DefaultTrackpadSpeed(m) <= 1000
           /\ Len(DefaultCustomImageQuality(m)) = 1
           /\ 10 <= DefaultCustomImageQuality(m)[1]
           /\ DefaultCustomImageQuality(m)[1] <= 4095
<1>1. /\ TrackKey \in Keys /\ KeySpec[TrackKey].kind = "num"
      /\ KeySpec[TrackKey].min = 10 /\ KeySpec[TrackKey].max = 1000
      /\ QualKey \in Keys /\ KeySpec[QualKey].kind = "num"
      /\ KeySpec[QualKey].min = 10 /\ KeySpec[QualKey].max = 4095
  BY PeerKeysAssumption
<1> DEFINE t == ParseNum[Get(m, TrackKey)]
           q == ParseNum[Get(m, QualKey)]
<1>2. 10 <= t /\ t <= 1000 /\ t # NaN
  BY <1>1, NumGetBounds
<1>3. 10 <= q /\ q <= 4095 /\ q # NaN
  BY <1>1, NumGetBounds
<1>4. DefaultTrackpadSpeed(m) = t
  BY <1>2 DEF DefaultTrackpadSpeed
<1>5. DefaultCustomImageQuality(m) = << q >>
  BY <1>3 DEF DefaultCustomImageQuality
<1>. QED  BY <1>2, <1>3, <1>4, <1>5
-----------------------------------------------------------------------------
(* A PeerConfig as load returns it: both numbers in range, whether it is  *)
(* PeerConfig::default() or a decoded record.                              *)
LEMMA LoadInRange ==
    ASSUME NEW m \in OptMap, NEW f
    PROVE  LET c == LoadedPeer(f, m)
           IN  /\ 10 <= c.track /\ c.track <= 1000
               /\ Len(c.qual) = 1 /\ 10 <= c.qual[1] /\ c.qual[1] <= 4095
<1> DEFINE dt == DefaultTrackpadSpeed(m)
           dq == DefaultCustomImageQuality(m)
<1>1. 10 <= dt /\ dt <= 1000 /\ Len(dq) = 1 /\ 10 <= dq[1] /\ dq[1] <= 4095
  BY DefaultsInRange
<1>2. CASE f = NoPeerFile \/ DecodeFails(f)
  <2>1. DefaultPeer(m).track = dt /\ DefaultPeer(m).qual = dq
    BY DEF DefaultPeer
  <2>. QED  BY <1>1, <1>2, <2>1 DEF LoadedPeer
<1>3. CASE ~(f = NoPeerFile \/ DecodeFails(f))
  <2>1. Decode(f, m).track = DeserializeTrackpadSpeed(f.track, m)
        /\ Decode(f, m).qual = DeserializeCustomImageQuality(f.qual, m)
    BY DEF Decode
  <2>2. 10 <= DeserializeTrackpadSpeed(f.track, m)
        /\ DeserializeTrackpadSpeed(f.track, m) <= 1000
    BY <1>1 DEF DeserializeTrackpadSpeed
  <2>3. LET q == DeserializeCustomImageQuality(f.qual, m)
        IN  Len(q) = 1 /\ 10 <= q[1] /\ q[1] <= 4095
    BY <1>1 DEF DeserializeCustomImageQuality
  <2>. QED  BY <1>3, <2>1, <2>2, <2>3 DEF LoadedPeer
<1>. QED  BY <1>2, <1>3

(* IInv holds initially.                                                   *)
LEMMA InitIInv == PeerInit => IInv
BY DEF PeerInit, Init, IInv, NoMap, OptMap, ReadValid, PeerNumbersValid

(* Every step of PeerNext, and a stutter, keeps IInv.                     *)
LEMMA NextIInv == IInv /\ [PeerNext]_allVars => IInv'
<1> SUFFICES ASSUME IInv, [PeerNext]_allVars PROVE IInv'
  OBVIOUS
<1>1. ASSUME NEW k \in Keys, NEW v \in UserInputs[k], UserSet(k, v) PROVE IInv'
  <2>1. v \in Value
    BY PeerDecodeAssumption
  <2>2. Put(file, k, v) \in OptMap
    BY <2>1, ResolverAssumption DEF IInv, Put, OptMap
  <2>3. file' \in OptMap
    BY <1>1, <2>2 DEF UserSet, Set, IInv
  <2>. QED  BY <1>1, <2>3 DEF UserSet, Set, IInv, ReadValid, PeerNumbersValid, pvars
<1>2. ASSUME NEW k \in Keys, UserRead(k) PROVE IInv'
  <2>1. cache' \in OptMap
    BY <1>2 DEF UserRead, Read, IInv
  <2>2. lastRead' = [read |-> TRUE, k |-> k, val |-> Get(cache', k), reloaded |-> stale]
    BY <1>2 DEF UserRead, Read
  <2>3. ReadValid'
    BY <2>1, <2>2, GetValid DEF ReadValid
  <2>. QED  BY <1>2, <2>1, <2>3 DEF UserRead, Read, IInv, PeerNumbersValid, pvars
<1>3. CASE UserTick
  BY <1>3 DEF UserTick, Tick, IInv, ReadValid, PeerNumbersValid, pvars
<1>4. CASE LoadPeer
  <2>1. cache' \in OptMap
    BY <1>4 DEF LoadPeer, IInv
  <2>2. PeerNumbersValid'
    BY <1>4, <2>1, LoadInRange DEF LoadPeer, PeerNumbersValid
  <2>. QED  BY <1>4, <2>1, <2>2 DEF LoadPeer, IInv, ReadValid
<1>5. ASSUME NEW e, StorePeer(e) PROVE IInv'
  BY <1>5 DEF StorePeer, IInv, ReadValid, PeerNumbersValid, vars
<1>6. CASE UNCHANGED allVars
  BY <1>6 DEF allVars, vars, pvars, IInv, ReadValid, PeerNumbersValid
<1>. QED  BY <1>1, <1>2, <1>3, <1>4, <1>5, <1>6 DEF PeerNext

(* PeerSpec keeps IInv in every state.                                     *)
THEOREM IInvariant == PeerSpec => []IInv
BY InitIInv, NextIInv, PTL DEF PeerSpec

(* PeerConfig::load returns a trackpad speed in [10, 1000] and a custom    *)
(* image quality of one value in [10, 4095], whatever the peer file holds *)
(* and whatever <app>_default.toml holds.                                  *)
THEOREM PeerNumbersValidInvariant == PeerSpec => []PeerNumbersValid
BY IInvariant, PTL DEF IInv
-----------------------------------------------------------------------------
(* Proofs that PeerConfig::load gives back what PeerConfig::store wrote,  *)
(* field by field up to the defaults load substitutes (RoundTrip), for    *)
(* every value of the constants.  RoundTrip is not inductive alone: a     *)
(* load reads a file of PeerFileT and a store writes a PeerT, so the      *)
(* strengthening is the type invariant.                                    *)
RInv == PeerTypeOK /\ RoundTrip

(* get_num_string returns the text of a number.                           *)
LEMMA NumStringType ==
    ASSUME NEW m \in OptMap, NEW k \in Keys, KeySpec[k].kind = "num"
    PROVE  GetNumString(m, k) \in Value
<1> DEFINE o == GetAfter(m, k)
           d == KeySpec[k].default
           v == IF o # Absent /\ ParseNum[o] # NaN THEN ParseNum[o] ELSE d
<1>1. o \in Value \cup {Absent}
  BY GetAfterType
<1>2. d \in DOMAIN ShowNum
  BY NumKeySpec
<1>3. ShowNum[d] \in Value
  BY <1>2, UserDefaultConfigAssumption
<1>4. CASE o = Absent
  BY <1>3, <1>4 DEF GetNumString
<1>5. CASE o # Absent
  <2>1. v \in DOMAIN ShowNum
    BY <1>1, <1>2, <1>5, UserDefaultConfigAssumption
  <2>2. ShowNum[v] \in Value
    BY <2>1, UserDefaultConfigAssumption
  <2>. QED  BY <1>3, <1>5, <2>2 DEF GetNumString
<1>. QED  BY <1>4, <1>5

(* UserDefaultConfig::get of an option map returns a value, whatever the  *)
(* kind of the key.                                                        *)
LEMMA GetType ==
    ASSUME NEW m \in OptMap, NEW k \in Keys
    PROVE  Get(m, k) \in Value
<1>1. CASE KeySpec[k].kind = "enum"
  <2>1. KeySpec[k].default \in Value /\ KeySpec[k].others \subseteq Value
    BY <1>1, UserDefaultConfigAssumption
  <2>. QED  BY <1>1, <2>1 DEF Get, GetString
<1>2. CASE KeySpec[k].kind = "num"
  BY <1>2, NumStringType DEF Get
<1>3. CASE KeySpec[k].kind # "enum" /\ KeySpec[k].kind # "num"
  <2>1. GetAfter(m, k) \in Value \cup {Absent}
    BY GetAfterType
  <2>2. Empty \in Value
    BY DEF Value
  <2>. QED  BY <1>3, <2>1, <2>2 DEF Get, OrEmpty
<1>. QED  BY <1>1, <1>2, <1>3

(* The default functions return values of their fields' types, so         *)
(* PeerConfig::default() is a PeerConfig.                                  *)
LEMMA DefaultPeerType ==
    ASSUME NEW m \in OptMap
    PROVE  /\ DefaultStr(m) \in Value
           /\ DefaultTrackpadSpeed(m) \in Int
           /\ DefaultCustomImageQuality(m) \in Seq(Int)
           /\ DefaultPeer(m) \in PeerT
<1>1. /\ Get(m, ViewKey) \in Value /\ Get(m, TrackKey) \in Value
      /\ Get(m, QualKey) \in Value
  BY GetType, PeerKeysAssumption
<1>2. DefaultStr(m) \in Value
  BY <1>1 DEF DefaultStr
<1>3. DefaultTrackpadSpeed(m) \in Int
  BY <1>1, UserDefaultConfigAssumption DEF DefaultTrackpadSpeed
<1>4. DefaultCustomImageQuality(m) \in Seq(Int)
  <2>1. (IF ParseNum[Get(m, QualKey)] = NaN THEN 50 ELSE ParseNum[Get(m, QualKey)]) \in Int
    BY <1>1, UserDefaultConfigAssumption
  <2>. QED  BY <2>1 DEF DefaultCustomImageQuality
<1>5. DefaultBool(m) \in BOOLEAN /\ "" \in Platforms
  BY PeerDecodeAssumption DEF DefaultBool
<1>. QED  BY <1>2, <1>3, <1>4, <1>5 DEF DefaultPeer, PeerT

(* PeerConfig::load of a peer file, or of none, is a PeerConfig: each     *)
(* decoder yields its field's type, falling back on the default function.  *)
LEMMA LoadType ==
    ASSUME NEW m \in OptMap, NEW f \in PeerFileT \cup {NoPeerFile}
    PROVE  LoadedPeer(f, m) \in PeerT
<1>1. /\ DefaultStr(m) \in Value /\ DefaultTrackpadSpeed(m) \in Int
      /\ DefaultCustomImageQuality(m) \in Seq(Int) /\ DefaultPeer(m) \in PeerT
  BY DefaultPeerType
<1>2. CASE f = NoPeerFile \/ DecodeFails(f)
  BY <1>1, <1>2 DEF LoadedPeer
<1>3. CASE ~(f = NoPeerFile \/ DecodeFails(f))
  <2>1. f \in PeerFileT /\ f.track # Bad /\ f.qual # Bad
    BY <1>3 DEF DecodeFails
  <2>2. DeserializeStr(f.view, m) \in Value
    BY <1>1, <2>1 DEF DeserializeStr, PeerFileT
  <2>3. DeserializeBool(f.cursor, m) \in BOOLEAN
    BY DEF DeserializeBool, DefaultBool
  <2>4. DeserializeTrackpadSpeed(f.track, m) \in Int
    BY <1>1, <2>1 DEF DeserializeTrackpadSpeed, PeerFileT
  <2>5. DeserializeCustomImageQuality(f.qual, m) \in Seq(Int)
    BY <1>1, <2>1 DEF DeserializeCustomImageQuality, PeerFileT
  <2>6. DeserializeString(f.platform) \in Platforms
    BY <2>1, PeerDecodeAssumption DEF DeserializeString, PeerFileT
  <2>. QED  BY <1>3, <2>2, <2>3, <2>4, <2>5, <2>6 DEF LoadedPeer, Decode, PeerT
<1>. QED  BY <1>2, <1>3

(* PeerConfig::store writes a peer file: a field it skips is missing.     *)
LEMMA SerializeType ==
    ASSUME NEW c \in PeerT
    PROVE  Serialize(c) \in PeerFileT
BY DEF Serialize, PeerT, PeerFileT

(* A session's edit, or none, leaves a PeerConfig.                        *)
LEMMA EditType ==
    ASSUME NEW c \in PeerT, NEW e \in {NoPeer} \cup {Edits[i] : i \in DOMAIN Edits}
    PROVE  (IF e = NoPeer THEN c ELSE [c EXCEPT ![e.f] = e.v]) \in PeerT
<1>1. CASE e = NoPeer
  BY <1>1
<1>2. CASE e # NoPeer
  <2>1. PICK i \in DOMAIN Edits : e = Edits[i]
    BY <1>2
  <2>2. /\ e.f \in {"view", "cursor", "track", "qual", "platform"}
        /\ e.f = "view" => e.v \in Value
        /\ e.f = "cursor" => e.v \in BOOLEAN
        /\ e.f = "track" => e.v \in Int
        /\ e.f = "qual" => e.v \in Seq(Int)
        /\ e.f = "platform" => e.v \in Platforms
    BY <2>1, EditsAssumption
  <2>3. [c EXCEPT ![e.f] = e.v] \in PeerT
    BY <2>2 DEF PeerT
  <2>. QED  BY <1>2, <2>3
<1>. QED  BY <1>1, <1>2

(* load(store(c)): the file store writes never fails to decode, and each  *)
(* field comes back as stored unless load substitutes its default (an      *)
(* empty view_style, which store skipped; a number out of range; an empty *)
(* custom_image_quality, which store skipped).  Missing and Bad are no     *)
(* value a field holds, so no stored field reads as missing or mistyped.   *)
LEMMA RoundTripLoad ==
    ASSUME NEW c \in PeerT, NEW m \in OptMap,
           NEW fld \in {"view", "cursor", "track", "qual", "platform"}
    PROVE  LoadedPeer(Serialize(c), m)[fld] = c[fld] \/ Substituted(c, fld)
<1> DEFINE f == Serialize(c)
<1>1. /\ f.view = IF c.view = Empty THEN Missing ELSE c.view
      /\ f.cursor = c.cursor /\ f.track = c.track
      /\ f.qual = IF c.qual = << >> THEN Missing ELSE c.qual
      /\ f.platform = c.platform
  BY DEF Serialize
<1>2. /\ c.view \in Value /\ c.cursor \in BOOLEAN /\ c.track \in Int
      /\ c.qual \in Seq(Int) /\ c.platform \in Platforms
  BY DEF PeerT
<1>3. f # NoPeerFile
  BY SerializeType, MarkerAssumption
<1>4. ~DecodeFails(f)
  BY <1>1, <1>2, MarkerAssumption DEF DecodeFails
<1>5. LoadedPeer(f, m) = Decode(f, m)
  BY <1>3, <1>4 DEF LoadedPeer
<1>6. CASE fld = "view"
  <2>1. CASE c.view = Empty
    BY <1>6, <2>1 DEF Substituted
  <2>2. CASE c.view # Empty
    <3>1. c.view \notin {Missing, Bad}
      BY <1>2, PeerDecodeAssumption
    <3>2. DeserializeStr(f.view, m) = c.view
      BY <1>1, <2>2, <3>1 DEF DeserializeStr
    <3>. QED  BY <1>5, <1>6, <3>2 DEF Decode
  <2>. QED  BY <2>1, <2>2
<1>7. CASE fld = "cursor"
  <2>1. c.cursor # Missing
    BY <1>2, PeerDecodeAssumption
  <2>2. DeserializeBool(f.cursor, m) = c.cursor
    BY <1>1, <1>2, <2>1 DEF DeserializeBool
  <2>. QED  BY <1>5, <1>7, <2>2 DEF Decode
<1>8. CASE fld = "track"
  <2>1. c.track # Missing
    BY <1>2, MarkerAssumption
  <2>2. CASE 10 <= c.track /\ c.track <= 1000
    <3>1. DeserializeTrackpadSpeed(f.track, m) = c.track
      BY <1>1, <2>1, <2>2 DEF DeserializeTrackpadSpeed
    <3>. QED  BY <1>5, <1>8, <3>1 DEF Decode
  <2>3. CASE ~(10 <= c.track /\ c.track <= 1000)
    BY <1>8, <2>3 DEF Substituted
  <2>. QED  BY <2>2, <2>3
<1>9. CASE fld = "qual"
  <2>1. CASE Len(c.qual) = 1 /\ 10 <= c.qual[1] /\ c.qual[1] <= 4095
    <3>1. c.qual # << >> /\ c.qual # Missing
      BY <1>2, <2>1, MarkerAssumption
    <3>2. DeserializeCustomImageQuality(f.qual, m) = c.qual
      BY <1>1, <2>1, <3>1 DEF DeserializeCustomImageQuality
    <3>. QED  BY <1>5, <1>9, <3>2 DEF Decode
  <2>2. CASE ~(Len(c.qual) = 1 /\ 10 <= c.qual[1] /\ c.qual[1] <= 4095)
    BY <1>9, <2>2 DEF Substituted
  <2>. QED  BY <2>1, <2>2
<1>10. CASE fld = "platform"
  <2>1. c.platform \notin {Missing, Bad}
    BY <1>2, PeerDecodeAssumption
  <2>2. DeserializeString(f.platform) = c.platform
    BY <1>1, <2>1 DEF DeserializeString
  <2>. QED  BY <1>5, <1>10, <2>2 DEF Decode
<1>. QED  BY <1>6, <1>7, <1>8, <1>9, <1>10

(* RInv holds initially: no peer is loaded or stored yet.                 *)
LEMMA InitRInv == PeerInit => RInv
<1> SUFFICES ASSUME PeerInit PROVE RInv
  OBVIOUS
<1>1. TypeOK
  BY DEF PeerInit, Init, TypeOK, NoMap, OptMap
<1>2. peerFile \in PeerFileT \cup {NoPeerFile}
  BY PeerDecodeAssumption DEF PeerInit
<1>. QED  BY <1>1, <1>2 DEF PeerInit, RInv, PeerTypeOK, RoundTrip

(* Every step of PeerNext, and a stutter, keeps RInv.  Only a load can    *)
(* make RoundTrip's premise hold, and it then reads what a store wrote.   *)
LEMMA NextRInv == RInv /\ [PeerNext]_allVars => RInv'
<1> SUFFICES ASSUME RInv, [PeerNext]_allVars PROVE RInv'
  OBVIOUS
<1> USE DEF RInv, PeerTypeOK
<1>0. UNCHANGED pvars => (RoundTrip' <=> RoundTrip)
  BY DEF pvars, RoundTrip, Substituted, Serialize
<1>1. ASSUME NEW k \in Keys, NEW v \in UserInputs[k], UserSet(k, v) PROVE RInv'
  <2>1. v \in Value
    BY PeerDecodeAssumption
  <2>2. Put(file, k, v) \in OptMap
    BY <2>1, ResolverAssumption DEF TypeOK, Put, OptMap
  <2>3. file' \in OptMap
    BY <1>1, <2>2 DEF UserSet, Set, TypeOK
  <2>4. TypeOK'
    BY <1>1, <2>3 DEF UserSet, Set, TypeOK
  <2>5. UNCHANGED pvars
    BY <1>1 DEF UserSet
  <2>. QED  BY <1>0, <2>4, <2>5 DEF pvars
<1>2. ASSUME NEW k \in Keys, UserRead(k) PROVE RInv'
  <2>1. cache' \in OptMap /\ stale \in BOOLEAN
    BY <1>2 DEF UserRead, Read, TypeOK
  <2>2. lastRead' = [read |-> TRUE, k |-> k, val |-> Get(cache', k), reloaded |-> stale]
    BY <1>2 DEF UserRead, Read
  <2>3. Get(cache', k) \in Value
    BY <2>1, GetType
  <2>4. lastRead' \in [read : {TRUE}, k : Keys, val : Value, reloaded : BOOLEAN]
    BY <2>1, <2>2, <2>3
  <2>5. file' \in OptMap /\ stale' \in BOOLEAN
    BY <1>2 DEF UserRead, Read, TypeOK
  <2>6. TypeOK'
    BY <2>1, <2>4, <2>5 DEF TypeOK
  <2>7. UNCHANGED pvars
    BY <1>2 DEF UserRead
  <2>. QED  BY <1>0, <2>6, <2>7 DEF pvars
<1>3. CASE UserTick
  BY <1>0, <1>3 DEF UserTick, Tick, TypeOK, pvars
<1>4. CASE LoadPeer
  <2>1. cache' \in OptMap
    BY <1>4 DEF LoadPeer, TypeOK
  <2>2. TypeOK'
    BY <1>4, <2>1 DEF LoadPeer, TypeOK
  <2>3. mem' \in PeerT
    BY <1>4, <2>1, LoadType DEF LoadPeer
  <2>4. RoundTrip'
    <3> SUFFICES ASSUME stored' # NoPeer, src' = Serialize(stored'),
                        NEW fld \in {"view", "cursor", "track", "qual", "platform"}
                 PROVE  mem'[fld] = stored'[fld] \/ Substituted(stored', fld)
      BY DEF RoundTrip
    <3>1. stored' = stored /\ stored \in PeerT /\ peerFile = Serialize(stored)
      BY <1>4 DEF LoadPeer
    <3>2. mem' = LoadedPeer(Serialize(stored), cache')
      BY <1>4, <3>1 DEF LoadPeer
    <3>. QED  BY <2>1, <3>1, <3>2, RoundTripLoad
  <2>. QED  BY <1>4, <2>2, <2>3, <2>4 DEF LoadPeer
<1>5. ASSUME NEW e \in {NoPeer} \cup {Edits[i] : i \in DOMAIN Edits}, StorePeer(e)
      PROVE  RInv'
  <2> DEFINE c == IF e = NoPeer THEN mem ELSE [mem EXCEPT ![e.f] = e.v]
  <2>1. mem \in PeerT
    BY <1>5 DEF StorePeer
  <2>2. c \in PeerT
    BY <2>1, EditType
  <2>3. Serialize(c) \in PeerFileT
    BY <2>2, SerializeType
  <2>4. peerFile' = Serialize(c) /\ mem' = c /\ stored' = c /\ fromLoad' = FALSE
    BY <1>5 DEF StorePeer
  <2>. QED  BY <1>5, <2>2, <2>3, <2>4 DEF StorePeer, TypeOK, RoundTrip, Serialize, vars
<1>6. CASE UNCHANGED allVars
  BY <1>0, <1>6 DEF allVars, vars, pvars, TypeOK
<1>7. CASE StorePeer(NoPeer)
  BY <1>5, <1>7
<1>8. ASSUME NEW i \in DOMAIN Edits, StorePeer(Edits[i]) PROVE RInv'
  BY <1>5, <1>8
<1>. QED  BY <1>1, <1>2, <1>3, <1>4, <1>6, <1>7, <1>8 DEF PeerNext

(* PeerSpec keeps RInv in every state.                                     *)
THEOREM RInvariant == PeerSpec => []RInv
BY InitRInv, NextRInv, PTL DEF PeerSpec

(* Every variable keeps its type: the option maps of UserDefaultConfig,   *)
(* the peer file store writes, and the PeerConfig load and edits produce.  *)
THEOREM PeerTypeCorrect == PeerSpec => []PeerTypeOK
BY RInvariant, PTL DEF RInv

(* Spec 8: once a session loads the file the last PeerConfig::store       *)
(* wrote, it has every field it stored back, except those load replaces    *)
(* by their defaults, for every key set, default table and edit sequence. *)
THEOREM RoundTripInvariant == PeerSpec => []RoundTrip
BY RInvariant, PTL DEF RInv
====
