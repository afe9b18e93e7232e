---------------------------- MODULE OptionsProofs ----------------------------
(* Proofs about the general option family: type correctness, purified      *)
(* storage, and the get_options -> set_options round trip; and, of an      *)
(* instance of Status, that Status::set implements the atomic map.         *)
EXTENDS Options, TLAPS

USE ResolverAssumption, OptionsAssumption

(* purify_options yields an option map all of whose entries                *)
(* is_option_can_save accepts.                                             *)
LEMMA PurifyOptionsPurified ==
    ASSUME NEW m \in OptMap
    PROVE  /\ PurifyOptions(m) \in OptMap
           /\ \A k \in Keys : PurifyOptions(m)[k] # Absent =>
                 IsOptionCanSave(OverwriteSettings, k, DefaultSettings, PurifyOptions(m)[k])
BY DEF PurifyOptions, OptMap

IInv == TypeOK /\ StoredPurified

LEMMA InitIInv == Init => IInv
BY DEF Init, IInv, TypeOK, StoredPurified, NoMap, OptMap, Calls

LEMMA NextIInv == IInv /\ [Next]_vars => IInv'
<1> SUFFICES ASSUME IInv, [Next]_vars PROVE IInv'
  OBVIOUS
<1>1. ASSUME NEW k \in Keys, NEW v \in Value, SetOption(k, v) PROVE IInv'
  BY <1>1 DEF SetOption, Put, IInv, TypeOK, StoredPurified, OptMap, Calls,
             IsOptionCanSave
<1>2. ASSUME NEW m \in OptMap, SetOptions(m) PROVE IInv'
  BY <1>2, PurifyOptionsPurified DEF SetOptions, IInv, TypeOK, StoredPurified, Calls
<1>3. CASE UNCHANGED vars
  BY <1>3 DEF vars, IInv, TypeOK, StoredPurified
<1>4. QED
  BY <1>1, <1>2, <1>3 DEF Next

(* Config keeps its state well typed, and no stored option is one that     *)
(* set_option would refuse, whatever OVERWRITE_SETTINGS and                *)
(* DEFAULT_SETTINGS hold.                                                  *)
THEOREM StoredPurifiedInvariant == Spec => [](TypeOK /\ StoredPurified)
BY InitIInv, NextIInv, PTL DEF Spec, IInv

(* Purifying what get_options returned gives back, for each key, what      *)
(* get_option read before, provided the stored map was purified.           *)
LEMMA RoundTripKey ==
    ASSUME TypeOK, StoredPurified, NEW k \in Keys
    PROVE  OrEmpty(GetOr(OverwriteSettings, PurifyOptions(GetOptions), DefaultSettings, k))
           = GetOption(k)
<1> DEFINE P == PurifyOptions(GetOptions)
<1>1. CASE OverwriteSettings[k] # Absent
  BY <1>1 DEF GetOr, GetOption
<1>2. CASE OverwriteSettings[k] = Absent /\ options[k] # Absent
  <2>1. GetOptions[k] = options[k]
    BY <1>2 DEF GetOptions, GetOr
  <2>2. P[k] = options[k]
    BY <1>2, <2>1 DEF StoredPurified, PurifyOptions
  <2>3. QED
    BY <1>2, <2>2 DEF GetOr, GetOption
<1>3. CASE OverwriteSettings[k] = Absent /\ options[k] = Absent
  <2>1. GetOptions[k] = DefaultSettings[k]
    BY <1>3 DEF GetOptions, GetOr
  <2>2. P[k] = Absent
    BY <1>3, <2>1 DEF PurifyOptions, IsOptionCanSave
  <2>3. QED
    BY <1>3, <2>2 DEF GetOr, GetOption
<1>4. QED
  BY <1>1, <1>2, <1>3

LEMMA NextRoundTrip == TypeOK /\ StoredPurified /\ [Next]_vars => RoundTripStep
<1> SUFFICES ASSUME TypeOK, StoredPurified, [Next]_vars,
                    last'.fam = "set_options", last'.m = GetOptions,
                    NEW k \in Keys
             PROVE  GetOption(k)' = GetOption(k)
  BY DEF RoundTripStep
<1>1. CASE \E kk \in Keys, v \in Value : SetOption(kk, v)
  <2>1. PICK kk \in Keys, v \in Value : SetOption(kk, v)
    BY <1>1
  <2>2. last'.fam = "set_option"
    BY <2>1 DEF SetOption
  <2>3. QED
    BY <2>2
<1>2. CASE \E m \in OptMap : SetOptions(m)
  <2>1. options' = PurifyOptions(GetOptions)
    BY <1>2 DEF SetOptions
  <2>2. QED
    BY <2>1, RoundTripKey DEF GetOption
<1>3. CASE UNCHANGED vars
  BY <1>3 DEF vars, GetOption
<1>4. QED
  BY <1>1, <1>2, <1>3 DEF Next

(* set_options(get_options()) never changes what get_option returns, for   *)
(* every size of the key set and every content of the settings maps.       *)
THEOREM RoundTripProperty == Spec => RoundTrip
BY StoredPurifiedInvariant, NextRoundTrip, PTL DEF Spec, RoundTrip

-----------------------------------------------------------------------------
(***************************************************************************)
(* Status (STATUS) resolves its entries with the same OrEmpty; its proofs  *)
(* are stated here, of an instance of its module whose variables and       *)
(* constants are these.  Status's ASSUME (NoReq, the empty call slot, is   *)
(* no call) is the hypothesis StatusNoReq of its theorems.                 *)
(***************************************************************************)
CONSTANTS Threads, NoReq

VARIABLES values, pc, req

St == INSTANCE Status

StatusNoReq == NoReq \notin [k : Keys, v : Value]

(* The instance's Value is the resolver's Value.                           *)
USE DEF St!Value, Value

(* Status keeps its state well typed, and a thread has a call under way    *)
(* exactly when it is not idle.                                            *)
THEOREM StatusTypeCorrect ==
    ASSUME StatusNoReq PROVE St!Spec => []St!TypeOK
<1>1. St!Init => St!TypeOK
  BY DEF St!Init, St!TypeOK, St!NoMap, St!OptMap, St!Value
<1>2. St!TypeOK /\ [St!Next]_St!vars => St!TypeOK'
  <2> SUFFICES ASSUME St!TypeOK, [St!Next]_St!vars PROVE St!TypeOK'
    OBVIOUS
  <2>1. ASSUME NEW t \in Threads, NEW k \in Keys, NEW v \in St!Value, St!Start(t, k, v)
        PROVE St!TypeOK'
    BY <2>1 DEF St!Start, St!TypeOK, StatusNoReq
  <2>2. ASSUME NEW t \in Threads, St!Check(t) PROVE St!TypeOK'
    BY <2>2 DEF St!Check, St!TypeOK
  <2>3. ASSUME NEW t \in Threads, St!Write(t) PROVE St!TypeOK'
    BY <2>3 DEF St!Write, St!TypeOK, St!OptMap
  <2>4. CASE UNCHANGED St!vars
    BY <2>4 DEF St!vars, St!TypeOK
  <2>5. QED
    BY <2>1, <2>2, <2>3, <2>4 DEF St!Next
<1>3. QED
  BY <1>1, <1>2, PTL DEF St!Spec

(* The refinement mapping takes an initial state to an initial state: an   *)
(* empty status map reads "" everywhere.                                   *)
LEMMA InitRefines == St!Init => St!Abs!Init
BY DEF St!Init, St!Abs!Init, St!Get, St!OrEmpty, St!NoMap

(* Every step is a step of the atomic map or leaves the mapped state alone.*)
LEMMA NextRefines ==
    ASSUME StatusNoReq
    PROVE  St!TypeOK /\ [St!Next]_St!vars => [St!Abs!Next]_St!Abs!vars
<1> SUFFICES ASSUME St!TypeOK, [St!Next]_St!vars PROVE [St!Abs!Next]_St!Abs!vars
  OBVIOUS
<1>1. ASSUME NEW t \in Threads, NEW k \in Keys, NEW v \in St!Value, St!Start(t, k, v)
      PROVE St!Abs!Call(t, k, v)
  BY <1>1 DEF St!Start, St!TypeOK, St!Abs!Call, St!Get
<1>2. ASSUME NEW t \in Threads, St!Check(t) PROVE [St!Abs!Next]_St!Abs!vars
  <2>1. CASE St!Get(req[t].k) = req[t].v
    <3>1. St!Abs!Apply(t)
      BY <1>2, <2>1 DEF St!Check, St!TypeOK, St!Abs!Apply, St!Get
    <3>2. QED
      BY <3>1 DEF St!Abs!Next
  <2>2. CASE St!Get(req[t].k) # req[t].v
    BY <1>2, <2>2 DEF St!Check, St!Abs!vars, St!Get
  <2>3. QED
    BY <2>1, <2>2
<1>3. ASSUME NEW t \in Threads, St!Write(t) PROVE St!Abs!Apply(t)
  <2>1. req[t] \in [k : Keys, v : St!Value]
    BY <1>3 DEF St!Write, St!TypeOK
  <2>2. values' = [values EXCEPT ![req[t].k] = req[t].v]
    BY <1>3 DEF St!Write
  <2>3. ASSUME NEW k \in Keys
        PROVE St!Get(k)' = IF k = req[t].k THEN req[t].v ELSE St!Get(k)
    BY <2>1, <2>2 DEF St!TypeOK, St!OptMap, St!Get, St!OrEmpty
  <2>4. [k \in Keys |-> St!Get(k)]' = [[k \in Keys |-> St!Get(k)] EXCEPT ![req[t].k] = req[t].v]
    BY <2>1, <2>3
  <2>5. QED
    BY <1>3, <2>1, <2>4 DEF St!Write, St!Abs!Apply, StatusNoReq
<1>4. CASE UNCHANGED St!vars
  BY <1>4 DEF St!vars, St!Abs!vars, St!Get
<1>5. QED
  BY <1>1, <1>2, <1>3, <1>4 DEF St!Next, St!Abs!Next

(* Status::set is linearizable: every behaviour of Status is a behaviour   *)
(* of the atomic map StatusSpec under the mapping get(k) and the call      *)
(* under way, for any number of threads, keys and values.                  *)
THEOREM StatusImplementsSpec ==
    ASSUME StatusNoReq PROVE St!Spec => St!Abs!Spec
<1>1. St!Spec => []St!TypeOK
  BY StatusTypeCorrect
<1>2. St!TypeOK /\ [St!Next]_St!vars => [St!Abs!Next]_St!Abs!vars
  BY NextRefines
<1>3. QED
  BY <1>1, <1>2, InitRefines, PTL DEF St!Spec, St!Abs!Spec
====
