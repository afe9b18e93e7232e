------------------------------ MODULE Identity ------------------------------
(***************************************************************************)
(* The identity half of CONFIG in src/config.rs: the device id (kept in    *)
(* memory as id, on disk as enc_id), the salt and the key pair, with       *)
(* Config::load and store, get_id / set_id / update_id, get_salt /         *)
(* set_salt, get_key_pair with its KEY_PAIR slot and its spawned write,    *)
(* and Config::get / Config::set.  A call is cut where the code drops      *)
(* CONFIG's guard; a crash loses the process (memory, slot, spawned        *)
(* writes) and the restart runs Config::load on the file that is left.     *)
(***************************************************************************)
EXTENDS Codec, Naturals, TLAPS

CONSTANTS
    Threads,
    Ids,            \* device ids, all in Strings
    GenIds,         \* what gen_id may return: one id on desktop, many on mobile
    GenMayFail,     \* desktop: gen_id returns None while no MAC address is found
    RandomIds,      \* the range update_id draws from
    ExternalIds,    \* ids other modules hand to set_id
    Salts,          \* what get_auto_password(6) may return
    KeyPairs, NoKeyPair,
    InitFiles,      \* <app>.toml at the first start
    ConfigSetters,  \* threads that call Config::get, then Config::set
    MaxOps, MaxCrashes

File == [id : Strings, encId : Field, salt : Strings, keyPair : KeyPairs \cup {NoKeyPair}]

Cfg == [id : Strings \cup {NoPlain}, salt : Strings, keyPair : KeyPairs \cup {NoKeyPair}]

ASSUME IdentityAssumption ==
    /\ Ids \cup Salts \subseteq Strings /\ "" \in Strings /\ "" \notin Ids \cup Salts
    /\ GenMayFail \in BOOLEAN /\ (GenIds = {} => GenMayFail)
    /\ GenIds \cup RandomIds \cup ExternalIds \subseteq Ids
    /\ NoKeyPair \notin KeyPairs /\ NoPlain \notin Strings
    /\ InitFiles \subseteq File /\ ConfigSetters \subseteq Threads
    /\ MaxOps \in Nat /\ MaxCrashes \in Nat

VARIABLES
    file,       \* <app>.toml
    cfg,        \* CONFIG
    slot,       \* KEY_PAIR
    pending,    \* key pairs of spawned writes not yet run
    pc, upd,    \* per thread: position, and whether get_id runs in update_id
    snap,       \* per thread: the Config::get snapshot
    ret,        \* per thread: the last value a call returned
    epoch,      \* history: the number of deliberate id changes
    handed,     \* history: the key pairs get_key_pair has returned
    opsLeft, crashes

vars == <<file, cfg, slot, pending, pc, upd, snap, ret, epoch, handed, opsLeft, crashes>>

NoRet == [op |-> "none"]

(* Mutant: a store that writes the id to enc_id without encrypting it.    *)
StoreIdPlain(c) == [id |-> "", encId |-> Plain(c.id), salt |-> c.salt, keyPair |-> c.keyPair]

(* Config::store: the id goes to enc_id through the codec, id is blanked.  *)
Store(c) == [id |-> "", encId |-> EncryptStr(c.id), salt |-> c.salt, keyPair |-> c.keyPair]

(* What gen_id (or load's loop of three tries) yields: "" for None.       *)
GenChoices == GenIds \cup (IF GenMayFail THEN {""} ELSE {})

(* Mutant: a load that trusts a legacy id but does not rewrite the file.  *)
LoadKeepLegacy(f, g) ==
    LET d      == DecryptStr(f.encId)
        legacy == f.id # "" /\ f.encId = Plain("") /\ ~DecryptStr(Plain(f.id)).encrypted
        id     == IF d.encrypted THEN d.plain ELSE IF legacy \/ g = "" THEN f.id ELSE g
        store  == (d.encrypted /\ d.rewrite) \/ (~d.encrypted /\ g # "" /\ ~legacy)
        c      == [id |-> id, salt |-> f.salt, keyPair |-> f.keyPair]
    IN  [cfg |-> c, file |-> IF store THEN Store(c) ELSE f]

(* Config::load for file f when gen_id yields g: a current ciphertext in   *)
(* enc_id is the id; else a plain legacy id with no enc_id is trusted (and *)
(* rewritten); else a generated id, if any.  The result is stored when     *)
(* anything was decided.  Returns [cfg, file].                             *)
Load(f, g) ==
    LET d      == DecryptStr(f.encId)
        legacy == f.id # "" /\ f.encId = Plain("") /\ ~DecryptStr(Plain(f.id)).encrypted
        id     == IF d.encrypted THEN d.plain ELSE IF legacy \/ g = "" THEN f.id ELSE g
        store  == (d.encrypted /\ d.rewrite) \/ (~d.encrypted /\ (legacy \/ g # ""))
        c      == [id |-> id, salt |-> f.salt, keyPair |-> f.keyPair]
    IN  [cfg |-> c, file |-> IF store THEN Store(c) ELSE f]

Init ==
    /\ \E f0 \in InitFiles, g \in GenChoices :
          /\ cfg = Load(f0, g).cfg
          /\ file = Load(f0, g).file
    /\ slot = NoKeyPair /\ pending = {}
    /\ pc = [t \in Threads |-> "idle"] /\ upd = [t \in Threads |-> FALSE]
    /\ snap = [t \in Threads |-> cfg]
    /\ ret = [t \in Threads |-> NoRet]
    /\ epoch = 0 /\ handed = {}
    /\ opsLeft = MaxOps /\ crashes = 0

(* Config::set_id / set_salt under CONFIG.write(): equal returns early,    *)
(* else assign and store.                                                  *)
SetField(f, v) ==
    IF cfg[f] = v THEN UNCHANGED <<cfg, file>>
    ELSE /\ cfg' = [cfg EXCEPT ![f] = v]
         /\ file' = Store(cfg')

Begin(t) == pc[t] = "idle" /\ opsLeft > 0 /\ opsLeft' = opsLeft - 1

(* Config::get_id, first half: read CONFIG.id under the read guard; a     *)
(* non-empty id is returned.  update_id starts the same way (u = TRUE),    *)
(* and goes on to its own set_id.                                          *)
GetIdRead(t, u) ==
    /\ Begin(t)
    /\ IF cfg.id # ""
       THEN /\ pc' = [pc EXCEPT ![t] = IF u THEN "upd_set" ELSE "idle"]
            /\ ret' = IF u THEN ret ELSE [ret EXCEPT ![t] = [op |-> "id", val |-> cfg.id, ep |-> epoch]]
       ELSE pc' = [pc EXCEPT ![t] = "gen"] /\ UNCHANGED ret
    /\ upd' = [upd EXCEPT ![t] = u]
    /\ UNCHANGED <<file, cfg, slot, pending, snap, epoch, handed, crashes>>

(* Mutant: get_id that returns the generated id without set_id.            *)
IdGenNoSet(t) ==
    /\ pc[t] = "gen"
    /\ \E g \in GenChoices :
          /\ UNCHANGED <<cfg, file>>
          /\ ret' = IF upd[t] THEN ret ELSE [ret EXCEPT ![t] = [op |-> "id", val |-> g, ep |-> epoch]]
    /\ pc' = [pc EXCEPT ![t] = IF upd[t] THEN "upd_set" ELSE "idle"]
    /\ UNCHANGED <<slot, pending, upd, snap, epoch, handed, opsLeft, crashes>>

(* Config::get_id, second half: gen_id with no guard held, then set_id of  *)
(* what it returned; a failed gen_id returns "".                           *)
IdGen(t) ==
    /\ pc[t] = "gen"
    /\ \E g \in GenChoices :
          /\ IF g # "" THEN SetField("id", g) ELSE UNCHANGED <<cfg, file>>
          /\ ret' = IF upd[t] THEN ret ELSE [ret EXCEPT ![t] = [op |-> "id", val |-> g, ep |-> epoch]]
    /\ pc' = [pc EXCEPT ![t] = IF upd[t] THEN "upd_set" ELSE "idle"]
    /\ UNCHANGED <<slot, pending, upd, snap, epoch, handed, opsLeft, crashes>>

(* Config::update_id, last step: set_id of a random new id.                *)
UpdateSet(t) ==
    /\ pc[t] = "upd_set"
    /\ \E n \in RandomIds : SetField("id", n)
    /\ epoch' = epoch + 1
    /\ pc' = [pc EXCEPT ![t] = "idle"]
    /\ UNCHANGED <<slot, pending, upd, snap, ret, handed, opsLeft, crashes>>

(* Config::set_id called by another module, e.g. on a server-side change. *)
SetId(i) ==
    /\ opsLeft > 0 /\ opsLeft' = opsLeft - 1
    /\ SetField("id", i)
    /\ epoch' = epoch + 1
    /\ UNCHANGED <<slot, pending, pc, upd, snap, ret, handed, crashes>>

(* Config::get_salt, first half: read the salt; non-empty is returned.     *)
GetSaltRead(t) ==
    /\ Begin(t)
    /\ IF cfg.salt # ""
       THEN pc' = pc /\ ret' = [ret EXCEPT ![t] = [op |-> "salt", val |-> cfg.salt]]
       ELSE pc' = [pc EXCEPT ![t] = "salt_gen"] /\ UNCHANGED ret
    /\ UNCHANGED <<file, cfg, slot, pending, upd, snap, epoch, handed, crashes>>

(* Config::get_salt, second half: a fresh random salt, set_salt, return.   *)
SaltGen(t) ==
    /\ pc[t] = "salt_gen"
    /\ \E s \in Salts :
          /\ SetField("salt", s)
          /\ ret' = [ret EXCEPT ![t] = [op |-> "salt", val |-> s]]
    /\ pc' = [pc EXCEPT ![t] = "idle"]
    /\ UNCHANGED <<slot, pending, upd, snap, epoch, handed, opsLeft, crashes>>

(* Config::get_key_pair, all under KEY_PAIR: a filled slot is returned;    *)
(* else the FILE is read (not CONFIG), a missing pair is generated and its *)
(* store handed to a new thread, and the slot is filled.                   *)
GetKeyPair(t) ==
    /\ Begin(t)
    /\ \E k \in IF slot # NoKeyPair THEN {slot}
                ELSE IF file.keyPair # NoKeyPair THEN {file.keyPair} ELSE KeyPairs :
          /\ pending' = IF slot = NoKeyPair /\ file.keyPair = NoKeyPair
                        THEN pending \cup {k} ELSE pending
          /\ slot' = k
          /\ ret' = [ret EXCEPT ![t] = [op |-> "kp", val |-> k]]
          /\ handed' = handed \cup {k}
    /\ UNCHANGED <<file, cfg, pc, upd, snap, epoch, crashes>>

(* The thread get_key_pair spawned: CONFIG.write(), set key_pair, store.   *)
SpawnedWrite(k) ==
    /\ k \in pending
    /\ cfg' = [cfg EXCEPT !.keyPair = k]
    /\ file' = Store(cfg')
    /\ pending' = pending \ {k}
    /\ UNCHANGED <<slot, pc, upd, snap, ret, epoch, handed, opsLeft, crashes>>

(* Config::get: a clone of CONFIG under the read guard.                    *)
ConfigGet(t) ==
    /\ t \in ConfigSetters /\ Begin(t)
    /\ snap' = [snap EXCEPT ![t] = cfg]
    /\ pc' = [pc EXCEPT ![t] = "cfg_set"]
    /\ UNCHANGED <<file, cfg, slot, pending, upd, ret, epoch, handed, crashes>>

(* Config::set(cfg): replace CONFIG and store unless equal.                *)
ConfigSet(t) ==
    /\ pc[t] = "cfg_set"
    /\ IF snap[t] = cfg THEN UNCHANGED <<cfg, file>>
       ELSE cfg' = snap[t] /\ file' = Store(snap[t])
    /\ pc' = [pc EXCEPT ![t] = "idle"]
    /\ UNCHANGED <<slot, pending, upd, snap, ret, epoch, handed, opsLeft, crashes>>

(* The process dies and starts again: the file stays, memory, the slot and *)
(* the spawned writes are lost, and Config::load runs on the file.         *)
Restart ==
    /\ crashes < MaxCrashes /\ crashes' = crashes + 1
    /\ \E g \in GenChoices :
          /\ cfg' = Load(file, g).cfg
          /\ file' = Load(file, g).file
    /\ slot' = NoKeyPair /\ pending' = {}
    /\ pc' = [t \in Threads |-> "idle"] /\ ret' = [t \in Threads |-> NoRet]
    /\ UNCHANGED <<upd, snap, epoch, handed, opsLeft>>

(* Every caller has made its last call and returned: the run is over.     *)
Terminating ==
    /\ \A t \in Threads : pc[t] = "idle"
    /\ opsLeft = 0 /\ pending = {}
    /\ UNCHANGED vars

Next ==
    \/ \E t \in Threads :
          \/ GetIdRead(t, FALSE) \/ GetIdRead(t, TRUE) \/ IdGen(t) \/ UpdateSet(t)
          \/ GetSaltRead(t) \/ SaltGen(t) \/ GetKeyPair(t)
          \/ ConfigGet(t) \/ ConfigSet(t)
    \/ \E i \in ExternalIds : SetId(i)
    \/ \E k \in pending : SpawnedWrite(k)
    \/ Restart
    \/ Terminating

Spec == Init /\ [][Next]_vars

-----------------------------------------------------------------------------
TypeOK ==
    /\ file \in File /\ cfg \in Cfg
    /\ slot \in KeyPairs \cup {NoKeyPair} /\ pending \subseteq KeyPairs
    /\ pc \in [Threads -> {"idle", "gen", "upd_set", "salt_gen", "cfg_set"}]
    /\ epoch \in Nat /\ handed \subseteq KeyPairs
    /\ opsLeft \in 0..MaxOps /\ crashes \in 0..MaxCrashes

(* Spec 3 (ii): after a load or a store the on-disk id field is empty;     *)
(* the id lives in enc_id only, whatever file the process started from.    *)
OnDiskIdEmpty == file.id = ""

(* A restart keeps the device id: Config::load recovers from enc_id the    *)
(* id the process had when it died, so peers keep finding the device.      *)
IdSurvivesRestartStep == crashes' > crashes /\ cfg.id # "" => cfg'.id = cfg.id

IdSurvivesRestart == [][IdSurvivesRestartStep]_vars

(* Every id get_id returned since the last deliberate change (update_id,   *)
(* set_id) is the id CONFIG holds: two first callers racing through        *)
(* gen_id and set_id agree on one id.                                      *)
IdAgreed ==
    \A t \in Threads : ret[t].op = "id" /\ ret[t].ep = epoch /\ ret[t].val # "" =>
        ret[t].val = cfg.id

(* Every salt get_salt returned is the salt CONFIG holds, although two     *)
(* first callers may each generate one.                                    *)
SaltAgreed == \A t \in Threads : ret[t].op = "salt" => ret[t].val = cfg.salt

(* get_key_pair hands out one key pair per device: once its spawned write  *)
(* has run, CONFIG (and the file) hold every pair ever handed out.         *)
KeyPairStable == pending = {} => \A k \in handed : cfg.keyPair = k
-----------------------------------------------------------------------------
(* Proofs that the on-disk id stays blank and that a restart keeps the id, *)
(* for every set of ids, salts, key pairs and threads, given what the      *)
(* first file holds.  Neither holds for every first file: a file with a   *)
(* plain id beside a current enc_id is loaded without a store (store2 is   *)
(* false), so its plain id stays on disk; and an id over ENCRYPT_MAX_LEN  *)
(* is stored as plain text in enc_id, which the next load does not trust.  *)

(* The first file has a blank id or no enc_id (a file of a version before  *)
(* enc_id), and no id of the system is over 128 bytes.                      *)
FirstFileOK ==
    /\ Ids \cap Long = {}
    /\ \A f \in InitFiles :
          /\ f.id = "" \/ f.encId = Plain("")
          /\ f.id \notin Long
          /\ DecryptStr(f.encId).encrypted => DecryptStr(f.encId).plain \notin Long

(* The strengthening: CONFIG, and every Config::get snapshot, is a record *)
(* whose id store encrypts; a non-empty id is what enc_id decrypts to; the *)
(* crash count is a number.                                                *)
IdInv ==
    /\ OnDiskIdEmpty
    /\ crashes \in Nat
    /\ DOMAIN cfg = {"id", "salt", "keyPair"} /\ cfg.id \notin Long
    /\ DOMAIN snap = Threads
    /\ \A t \in Threads : DOMAIN snap[t] = {"id", "salt", "keyPair"} /\ snap[t].id \notin Long
    /\ DecryptStr(file.encId).encrypted => DecryptStr(file.encId).plain \notin Long
    /\ cfg.id # "" => DecryptStr(file.encId).encrypted /\ DecryptStr(file.encId).plain = cfg.id

(* Config::store blanks the id and puts in enc_id a ciphertext of a        *)
(* non-empty id that is not over-long.                                     *)
LEMMA StoreBlanksId ==
    ASSUME NEW c, c.id \notin Long
    PROVE  LET d == DecryptStr(Store(c).encId)
           IN  /\ Store(c).id = ""
               /\ d.encrypted => d.plain \notin Long
               /\ c.id # "" => d.encrypted /\ d.plain = c.id
<1> DEFINE d == DecryptStr(EncryptStr(c.id))
<1>1. Store(c).id = "" /\ Store(c).encId = EncryptStr(c.id)
  BY DEF Store
<1>2. CASE c.id = ""
  <2>1. EncryptStr(c.id) = Plain("")
    BY <1>2 DEF EncryptStr
  <2>2. Plain("").kind # "ct"
    BY DEF Plain
  <2>3. ~d.encrypted
    BY <2>1, <2>2 DEF DecryptStr
  <2>. QED  BY <1>1, <1>2, <2>3
<1>3. CASE c.id # ""
  <2>1. EncryptStr(c.id) = Cipher(c.id, Current)
    BY <1>3 DEF EncryptStr
  <2>2. d.encrypted /\ d.plain = c.id
    BY <2>1 DEF DecryptStr, Cipher
  <2>. QED  BY <1>1, <2>2
<1>. QED  BY <1>2, <1>3

(* Config::load of a file with a blank id, or with no enc_id, gives an id *)
(* that enc_id of the file it leaves decrypts to, and keeps the id a      *)
(* current enc_id holds.                                                   *)
LEMMA LoadKeepsId ==
    ASSUME NEW f, NEW g \in GenChoices, Ids \cap Long = {},
           f.id = "" \/ f.encId = Plain(""), f.id \notin Long,
           DecryptStr(f.encId).encrypted => DecryptStr(f.encId).plain \notin Long
    PROVE  LET r == Load(f, g)
               d == DecryptStr(r.file.encId)
           IN  /\ r.file.id = "" /\ r.cfg.id \notin Long
               /\ d.encrypted => d.plain \notin Long
               /\ r.cfg.id # "" => d.encrypted /\ d.plain = r.cfg.id
               /\ DecryptStr(f.encId).encrypted => r.cfg.id = DecryptStr(f.encId).plain
<1> DEFINE d0     == DecryptStr(f.encId)
           legacy == f.id # "" /\ f.encId = Plain("") /\ ~DecryptStr(Plain(f.id)).encrypted
           r      == Load(f, g)
<1>1. g \in Ids \cup {""}
  BY IdentityAssumption DEF GenChoices
<1>2. ~DecryptStr(Plain("")).encrypted /\ ~DecryptStr(Plain(f.id)).encrypted
  BY DEF DecryptStr, Plain
<1>3. CASE d0.encrypted
  <2>1. d0.rewrite = FALSE
    BY <1>3 DEF DecryptStr
  <2>2. r.file = f /\ r.cfg.id = d0.plain
    BY <1>3, <2>1 DEF Load
  <2>3. f.id = ""
    BY <1>2, <1>3
  <2>. QED  BY <1>3, <2>2, <2>3
<1>4. CASE ~d0.encrypted /\ legacy
  <2>1. r.file = Store(r.cfg) /\ r.cfg.id = f.id
    BY <1>4 DEF Load
  <2>. QED  BY <1>4, <2>1, StoreBlanksId
<1>5. CASE ~d0.encrypted /\ ~legacy /\ g # ""
  <2>1. r.file = Store(r.cfg) /\ r.cfg.id = g
    BY <1>5 DEF Load
  <2>2. r.cfg.id \notin Long
    BY <1>1, <1>5, <2>1
  <2>. QED  BY <1>5, <2>1, <2>2, StoreBlanksId
<1>6. CASE ~d0.encrypted /\ ~legacy /\ g = ""
  <2>1. f.id = ""
    BY <1>2, <1>6
  <2>2. r.file = f /\ r.cfg.id = f.id
    BY <1>6 DEF Load
  <2>. QED  BY <1>6, <2>1, <2>2
<1>. QED  BY <1>3, <1>4, <1>5, <1>6

(* IdInv holds after the first Config::load, from a first file as above.  *)
LEMMA InitIdInv == FirstFileOK /\ Init => IdInv
<1> SUFFICES ASSUME FirstFileOK, Init PROVE IdInv
  OBVIOUS
<1>1. PICK f0 \in InitFiles, g \in GenChoices :
          cfg = Load(f0, g).cfg /\ file = Load(f0, g).file
  BY DEF Init
<1>2. /\ f0.id = "" \/ f0.encId = Plain("")
      /\ f0.id \notin Long
      /\ DecryptStr(f0.encId).encrypted => DecryptStr(f0.encId).plain \notin Long
      /\ Ids \cap Long = {}
  BY DEF FirstFileOK
<1>3. /\ file.id = "" /\ cfg.id \notin Long
      /\ DecryptStr(file.encId).encrypted => DecryptStr(file.encId).plain \notin Long
      /\ cfg.id # "" => DecryptStr(file.encId).encrypted /\ DecryptStr(file.encId).plain = cfg.id
  BY <1>1, <1>2, LoadKeepsId
<1>4. DOMAIN cfg = {"id", "salt", "keyPair"}
  BY <1>1 DEF Load
<1>5. snap = [t \in Threads |-> cfg] /\ crashes = 0
  BY DEF Init
<1>. QED  BY <1>3, <1>4, <1>5 DEF IdInv, OnDiskIdEmpty

(* A step that leaves the file, CONFIG, the snapshots and the crash count *)
(* alone keeps IdInv.                                                      *)
LEMMA UnchangedIdInv ==
    ASSUME IdInv, UNCHANGED <<file, cfg, snap, crashes>>
    PROVE  IdInv'
BY DEF IdInv, OnDiskIdEmpty

(* A store of a CONFIG whose id is not over-long, the snapshots and the    *)
(* crash count left alone, keeps IdInv.                                    *)
LEMMA StoreIdInv ==
    ASSUME IdInv, UNCHANGED <<snap, crashes>>, file' = Store(cfg'),
           DOMAIN cfg' = {"id", "salt", "keyPair"}, cfg'.id \notin Long
    PROVE  IdInv'
<1>1. LET d == DecryptStr(Store(cfg').encId)
      IN  /\ Store(cfg').id = ""
          /\ d.encrypted => d.plain \notin Long
          /\ cfg'.id # "" => d.encrypted /\ d.plain = cfg'.id
  BY StoreBlanksId
<1>. QED  BY <1>1 DEF IdInv, OnDiskIdEmpty

(* set_id and set_salt keep IdInv: an equal value returns early, a new    *)
(* one is stored, and a new id is one of Ids.                              *)
LEMMA SetFieldIdInv ==
    ASSUME IdInv, Ids \cap Long = {}, NEW fld \in {"id", "salt"}, NEW v,
           fld = "id" => v \in Ids, SetField(fld, v), UNCHANGED <<snap, crashes>>
    PROVE  IdInv'
<1>1. CASE cfg[fld] = v
  BY <1>1, UnchangedIdInv DEF SetField
<1>2. CASE cfg[fld] # v
  <2>1. cfg' = [cfg EXCEPT ![fld] = v] /\ file' = Store(cfg')
    BY <1>2 DEF SetField
  <2>2. DOMAIN cfg' = {"id", "salt", "keyPair"}
    BY <2>1 DEF IdInv
  <2>3. cfg'.id = v \/ cfg'.id = cfg.id
    BY <2>1, <2>2 DEF IdInv
  <2>4. cfg'.id \notin Long
    BY <2>1, <2>2, <2>3 DEF IdInv
  <2>. QED  BY <2>1, <2>2, <2>4, StoreIdInv
<1>. QED  BY <1>1, <1>2

(* Every step of Next, and a stutter, keeps IdInv when no id is over-long: *)
(* every change of CONFIG is stored with it, and a restart loads the id    *)
(* back from enc_id.                                                       *)
LEMMA NextIdInv ==
    ASSUME Ids \cap Long = {}
    PROVE  IdInv /\ [Next]_vars => IdInv'
<1> SUFFICES ASSUME IdInv, [Next]_vars PROVE IdInv'
  OBVIOUS
<1>1. ASSUME NEW t, NEW u, GetIdRead(t, u) PROVE IdInv'
  BY <1>1, UnchangedIdInv DEF GetIdRead, Begin
<1>2. ASSUME NEW t, IdGen(t) PROVE IdInv'
  <2>1. PICK g \in GenChoices :
            IF g # "" THEN SetField("id", g) ELSE UNCHANGED <<cfg, file>>
    BY <1>2 DEF IdGen
  <2>2. UNCHANGED <<snap, crashes>>
    BY <1>2 DEF IdGen
  <2>3. CASE g # ""
    <3>1. g \in Ids
      BY <2>3, IdentityAssumption DEF GenChoices
    <3>. QED  BY <2>1, <2>2, <2>3, <3>1, SetFieldIdInv
  <2>4. CASE g = ""
    BY <2>1, <2>2, <2>4, UnchangedIdInv
  <2>. QED  BY <2>3, <2>4
<1>3. ASSUME NEW t, UpdateSet(t) PROVE IdInv'
  <2>1. PICK n \in RandomIds : SetField("id", n)
    BY <1>3 DEF UpdateSet
  <2>. QED  BY <1>3, <2>1, IdentityAssumption, SetFieldIdInv DEF UpdateSet
<1>4. ASSUME NEW i \in ExternalIds, SetId(i) PROVE IdInv'
  BY <1>4, IdentityAssumption, SetFieldIdInv DEF SetId
<1>5. ASSUME NEW t, GetSaltRead(t) PROVE IdInv'
  BY <1>5, UnchangedIdInv DEF GetSaltRead, Begin
<1>6. ASSUME NEW t, SaltGen(t) PROVE IdInv'
  <2>1. PICK x \in Salts : SetField("salt", x)
    BY <1>6 DEF SaltGen
  <2>. QED  BY <1>6, <2>1, SetFieldIdInv DEF SaltGen
<1>7. ASSUME NEW t, GetKeyPair(t) PROVE IdInv'
  BY <1>7, UnchangedIdInv DEF GetKeyPair, Begin
<1>8. ASSUME NEW t \in Threads, ConfigGet(t) PROVE IdInv'
  <2>1. snap' = [snap EXCEPT ![t] = cfg] /\ UNCHANGED <<file, cfg, crashes>>
    BY <1>8 DEF ConfigGet
  <2>2. DOMAIN snap' = Threads
    BY <2>1 DEF IdInv
  <2>3. \A t2 \in Threads : snap'[t2] = cfg \/ snap'[t2] = snap[t2]
    BY <2>1 DEF IdInv
  <2>. QED  BY <2>1, <2>2, <2>3 DEF IdInv, OnDiskIdEmpty
<1>9. ASSUME NEW t \in Threads, ConfigSet(t) PROVE IdInv'
  <2>1. UNCHANGED <<snap, crashes>>
    BY <1>9 DEF ConfigSet
  <2>2. CASE snap[t] = cfg
    BY <1>9, <2>1, <2>2, UnchangedIdInv DEF ConfigSet
  <2>3. CASE snap[t] # cfg
    <3>1. cfg' = snap[t] /\ file' = Store(snap[t])
      BY <1>9, <2>3 DEF ConfigSet
    <3>2. DOMAIN cfg' = {"id", "salt", "keyPair"} /\ cfg'.id \notin Long
      BY <3>1 DEF IdInv
    <3>. QED  BY <2>1, <3>1, <3>2, StoreIdInv
  <2>. QED  BY <2>2, <2>3
<1>10. ASSUME NEW k, SpawnedWrite(k) PROVE IdInv'
  <2>1. cfg' = [cfg EXCEPT !.keyPair = k] /\ file' = Store(cfg') /\ UNCHANGED <<snap, crashes>>
    BY <1>10 DEF SpawnedWrite
  <2>2. DOMAIN cfg' = {"id", "salt", "keyPair"} /\ cfg'.id = cfg.id
    BY <2>1 DEF IdInv
  <2>. QED  BY <2>1, <2>2, StoreIdInv DEF IdInv
<1>11. CASE Restart
  <2>1. PICK g \in GenChoices : cfg' = Load(file, g).cfg /\ file' = Load(file, g).file
    BY <1>11 DEF Restart
  <2>2. file.id = "" /\ file.id \notin Long
    BY CodecAssumption DEF IdInv, OnDiskIdEmpty
  <2>3. /\ file'.id = "" /\ cfg'.id \notin Long
        /\ DecryptStr(file'.encId).encrypted => DecryptStr(file'.encId).plain \notin Long
        /\ cfg'.id # "" => DecryptStr(file'.encId).encrypted
                           /\ DecryptStr(file'.encId).plain = cfg'.id
    BY <2>1, <2>2, LoadKeepsId DEF IdInv
  <2>4. DOMAIN cfg' = {"id", "salt", "keyPair"}
    BY <2>1 DEF Load
  <2>5. crashes' = crashes + 1 /\ snap' = snap
    BY <1>11 DEF Restart
  <2>6. crashes \in Nat
    BY DEF IdInv
  <2>7. crashes' \in Nat
    BY <2>5, <2>6
  <2>. QED  BY <2>3, <2>4, <2>5, <2>7 DEF IdInv, OnDiskIdEmpty
<1>12. CASE Terminating \/ UNCHANGED vars
  BY <1>12, UnchangedIdInv DEF Terminating, vars
<1>. QED  BY <1>1, <1>2, <1>3, <1>4, <1>5, <1>6, <1>7, <1>8, <1>9, <1>10, <1>11, <1>12 DEF Next

(* Only Restart counts a crash.                                            *)
LEMMA OnlyRestartCrashes ==
    ASSUME [Next]_vars, ~Restart
    PROVE  crashes' = crashes
BY DEF Next, vars, GetIdRead, IdGen, UpdateSet, SetId, GetSaltRead, SaltGen,
       GetKeyPair, ConfigGet, ConfigSet, SpawnedWrite, Terminating

(* Under IdInv, a restart loads back a non-empty id: enc_id decrypts to it. *)
LEMMA RestartKeepsId ==
    ASSUME Ids \cap Long = {}, IdInv, Restart, cfg.id # ""
    PROVE  cfg'.id = cfg.id
<1>1. PICK g \in GenChoices : cfg' = Load(file, g).cfg
  BY DEF Restart
<1>2. file.id = "" /\ file.id \notin Long
      /\ DecryptStr(file.encId).encrypted /\ DecryptStr(file.encId).plain = cfg.id
  BY CodecAssumption DEF IdInv, OnDiskIdEmpty
<1>3. DecryptStr(file.encId).plain \notin Long
  BY <1>2 DEF IdInv
<1>. QED  BY <1>1, <1>2, <1>3, LoadKeepsId

(* Each step of Next, under IdInv, is an IdSurvivesRestartStep.           *)
LEMMA GreaterDiffers ==
    ASSUME NEW x \in Nat, NEW y, y > x
    PROVE  y # x
OBVIOUS

LEMMA NextRestartStep ==
    ASSUME Ids \cap Long = {}
    PROVE  IdInv /\ [Next]_vars => IdSurvivesRestartStep
<1> SUFFICES ASSUME IdInv, [Next]_vars PROVE IdSurvivesRestartStep
  OBVIOUS
<1>1. crashes \in Nat
  BY DEF IdInv
<1>. QED  BY <1>1, GreaterDiffers, OnlyRestartCrashes, RestartKeepsId DEF IdSurvivesRestartStep

(* From a first file as FirstFileOK says, Spec keeps IdInv.                *)
THEOREM IdInvariant ==
    ASSUME FirstFileOK
    PROVE  Spec => []IdInv
<1>1. IdInv /\ [Next]_vars => IdInv'
  BY NextIdInv DEF FirstFileOK
<1>2. Init => IdInv
  BY InitIdInv
<1>. QED  BY <1>1, <1>2, PTL DEF Spec

(* Spec 3 (ii): after every load and store the id field of <app>.toml is   *)
(* empty, for every id, salt and key-pair set, any number of threads and   *)
(* restarts, when the first file has a blank id or no enc_id.              *)
THEOREM OnDiskIdEmptyInvariant ==
    ASSUME FirstFileOK
    PROVE  Spec => []OnDiskIdEmpty
BY IdInvariant, PTL DEF IdInv

(* A restart keeps the device id: Config::load recovers from enc_id the id *)
(* CONFIG held when the process died, under the same conditions.           *)
THEOREM IdSurvivesRestartProperty ==
    ASSUME FirstFileOK
    PROVE  Spec => IdSurvivesRestart
<1>1. IdInv /\ [Next]_vars => [IdSurvivesRestartStep]_vars
  BY NextRestartStep DEF FirstFileOK
<1>2. Spec => []IdInv
  BY IdInvariant
<1>3. Spec => [][Next]_vars
  BY DEF Spec
<1>. QED  BY <1>1, <1>2, <1>3, PTL DEF IdSurvivesRestart
====
