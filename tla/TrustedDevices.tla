--------------------------- MODULE TrustedDevices ---------------------------
(***************************************************************************)
(* The trusted-devices list of the network record and the permanent        *)
(* password of the identity record whose change clears it              *)
(* (src/src/config.rs, Config::get/set/add/remove/clear_trusted_devices,   *)
(* Config::set_permanent_password, TrustedDevice::outdate).               *)
(*                                                                         *)
(* Shared state:                                                           *)
(*   blob     CONFIG2.trusted_devices: the encrypted JSON list, or NoBlob  *)
(*            while it is empty or does not decrypt;                       *)
(*   cache    TRUSTED_DEVICES: (list, synced), read without CONFIG2;       *)
(*   password CONFIG.password.                                             *)
(* Every write of blob or password stores its record to disk inside the   *)
(* same write guard, so the file equals the singleton at every step        *)
(* boundary and a crash loses only the in-memory cache and in-flight       *)
(* calls.  A list is modelled as a set of records: order is never read.    *)
(* set_trusted_devices prunes, serialises and checks the size with no      *)
(* guard held, then stores under CONFIG2.write(): two steps, between which *)
(* the clock may pass an expiry and other threads may write.               *)
(*                                                                         *)
(* Each thread runs one public call at a time; its steps are cut where the *)
(* code releases a guard.  The field ep of a device and the variable epoch *)
(* are auxiliary: the number of password changes when the add that wrote  *)
(* the device read the list it pushed it onto, and so far.                 *)
(***************************************************************************)
EXTENDS Naturals, FiniteSets

CONSTANTS
    Threads,       \* threads calling the config API
    Hwids,         \* hardware ids of remote devices
    Passwords,     \* permanent passwords a caller may set
    HardPassword,  \* HARD_SETTINGS["password"], or NoPassword
    NoPassword,    \* HARD_SETTINGS has no "password"
    NoBlob,        \* trusted_devices that does not decrypt (e.g. "")
    NoThread,      \* CONFIG write guard not held across steps
    Expiry,        \* DAYS_90, in clock ticks
    MaxTime,       \* bound on the clock
    MaxTrusted,    \* list size above which the 1 MiB check refuses it
    MaxOps,        \* bound on public calls per thread
    MaxCrashes,    \* bound on process crashes
    Config2Setters \* threads that call Config2::get/Config2::set

ASSUME ConstantsAssumption ==
    /\ NoThread \notin Threads
    /\ Config2Setters \subseteq Threads
    /\ HardPassword \in Passwords \cup {NoPassword}
    /\ NoPassword \notin Passwords
    /\ Hwids # {} /\ Passwords # {}
    /\ Expiry \in Nat /\ MaxTime \in Nat /\ MaxTrusted \in Nat
    /\ MaxOps \in Nat /\ MaxCrashes \in Nat

VARIABLES
    password,   \* CONFIG.password (memory = disk)
    epoch,      \* auxiliary: number of password changes so far
    blob,       \* CONFIG2.trusted_devices (memory = disk)
    cache,      \* TRUSTED_DEVICES
    now,        \* crate::get_time()
    pc,         \* per thread: where its current call is
    op,         \* per thread: the public call it runs
    arg,        \* per thread: the device (dev), hwids (hws) or password
                \* (pw) passed in; only the field of op is read
    got,        \* per thread: devices computed by get_trusted_devices
    snap,       \* per thread: trusted_devices of the Config2::get() clone
    loc,        \* per thread: the list handed to set_trusted_devices
    nested,     \* per thread: set_trusted_devices called from get
    cfgHolder,  \* thread holding the CONFIG write guard across steps
    opsLeft,    \* per thread: calls it may still start
    crashes     \* crashes so far

vars == <<password, epoch, blob, cache, now, pc, op, arg, got, snap, loc, nested,
          cfgHolder, opsLeft, crashes>>

DeviceT == [hwid : Hwids, time : Nat, ep : Nat]

(* The arguments of a public call.                                        *)
ArgT == [dev : DeviceT, hws : SUBSET Hwids, pw : Passwords]

PCs == {"idle", "get_cache", "get_config2", "get_fill", "set_write",
        "set_lock", "pw_lock", "cfg2_set"}

Ops == {"get", "add", "remove", "clear", "setpw", "cfg2set"}

(* The list as stored: what a decryption of blob yields.                   *)
Stored == IF blob = NoBlob THEN {} ELSE blob

(* TrustedDevice::outdate: time + DAYS_90 < get_time().                    *)
Outdated(d) == d.time + Expiry < now

(* devices.retain(|d| !d.outdate())                                        *)
Fresh(S) == {d \in S : ~Outdated(d)}

DupFree(S) == \A d1, d2 \in S : d1.hwid = d2.hwid => d1 = d2

TypeOK ==
    /\ password \in Passwords
    /\ epoch \in Nat
    /\ blob \in {NoBlob} \cup SUBSET DeviceT
    /\ cache \in [devs : SUBSET DeviceT, synced : BOOLEAN]
    /\ now \in 0..MaxTime
    /\ pc \in [Threads -> PCs]
    /\ op \in [Threads -> Ops]
    /\ arg \in [Threads -> ArgT]
    /\ got \in [Threads -> SUBSET DeviceT]
    /\ snap \in [Threads -> {NoBlob} \cup SUBSET DeviceT]
    /\ loc \in [Threads -> SUBSET DeviceT]
    /\ nested \in [Threads -> BOOLEAN]
    /\ cfgHolder \in Threads \cup {NoThread}
    /\ opsLeft \in [Threads -> 0..MaxOps]
    /\ crashes \in 0..MaxCrashes

(* A process starts with the files of an earlier run: any password and any *)
(* list the code could have stored, and an empty cache.                    *)
Init ==
    /\ password \in Passwords
    /\ epoch = 0
    /\ blob \in {NoBlob} \cup {S \in SUBSET [hwid : Hwids, time : {0}, ep : {0}] :
                                 DupFree(S)}
    /\ cache = [devs |-> {}, synced |-> FALSE]
    /\ now = 0
    /\ pc = [t \in Threads |-> "idle"]
    /\ op = [t \in Threads |-> "get"]
    /\ arg = [t \in Threads |-> [dev |-> [hwid |-> CHOOSE h \in Hwids : TRUE,
                                           time |-> 0, ep |-> 0],
                                  hws |-> {},
                                  pw |-> CHOOSE p \in Passwords : TRUE]]
    /\ got = [t \in Threads |-> {}]
    /\ snap = [t \in Threads |-> NoBlob]
    /\ loc = [t \in Threads |-> {}]
    /\ nested = [t \in Threads |-> FALSE]
    /\ cfgHolder = NoThread
    /\ opsLeft = [t \in Threads |-> MaxOps]
    /\ crashes = 0

-----------------------------------------------------------------------------
(* Starting a public call.                                                 *)

Begin(t, o, p) ==
    /\ pc[t] = "idle"
    /\ opsLeft[t] > 0
    /\ opsLeft' = [opsLeft EXCEPT ![t] = @ - 1]
    /\ op' = [op EXCEPT ![t] = o]
    /\ pc' = [pc EXCEPT ![t] = p]

StartGetTrustedDevices(t) ==
    /\ Begin(t, "get", "get_cache")
    /\ UNCHANGED <<password, epoch, blob, cache, now, arg, got, snap, loc, nested,
                   cfgHolder, crashes>>

(* The caller builds the TrustedDevice with the current time (ep is set    *)
(* when get_trusted_devices returns, see Stamp).                           *)
StartAddTrustedDevice(t, h) ==
    /\ Begin(t, "add", "get_cache")
    /\ arg' = [arg EXCEPT ![t].dev = [hwid |-> h, time |-> now, ep |-> 0]]
    /\ UNCHANGED <<password, epoch, blob, cache, now, got, snap, loc, nested,
                   cfgHolder, crashes>>

StartRemoveTrustedDevices(t, H) ==
    /\ Begin(t, "remove", "get_cache")
    /\ arg' = [arg EXCEPT ![t].hws = H]
    /\ UNCHANGED <<password, epoch, blob, cache, now, got, snap, loc, nested,
                   cfgHolder, crashes>>

(* clear_trusted_devices: set_trusted_devices(Default::default()).         *)
StartClearTrustedDevices(t) ==
    /\ Begin(t, "clear", "set_write")
    /\ loc' = [loc EXCEPT ![t] = {}]
    /\ nested' = [nested EXCEPT ![t] = FALSE]
    /\ UNCHANGED <<password, epoch, blob, cache, now, arg, got, snap, cfgHolder,
                   crashes>>

(* set_permanent_password: the HARD_SETTINGS check, before any guard.      *)
StartSetPermanentPassword(t, p) ==
    /\ \/ /\ p = HardPassword
          /\ Begin(t, "setpw", "idle")
       \/ /\ p # HardPassword
          /\ Begin(t, "setpw", "pw_lock")
    /\ arg' = [arg EXCEPT ![t].pw = p]
    /\ UNCHANGED <<password, epoch, blob, cache, now, got, snap, loc, nested,
                   cfgHolder, crashes>>

(* A caller of Config2::get(): CONFIG2.read().clone(), trusted_devices    *)
(* and all, to hand back later to Config2::set.                            *)
StartConfig2Set(t) ==
    /\ t \in Config2Setters
    /\ Begin(t, "cfg2set", "cfg2_set")
    /\ snap' = [snap EXCEPT ![t] = blob]
    /\ UNCHANGED <<password, epoch, blob, cache, now, arg, got, loc, nested,
                   cfgHolder, crashes>>

-----------------------------------------------------------------------------
(* Returning from the internal calls.                                      *)

(* The device an add pushes, stamped with the password epoch of the moment *)
(* its get_trusted_devices returned the list.                              *)
Stamp(t) == [arg[t].dev EXCEPT !.ep = epoch]

(* Mutant of GetReturn: add_trusted_device pushes without first dropping  *)
(* the entry of the same hwid.                                             *)
GetReturnNoRetain(t, L) ==
    \/ /\ op[t] = "get"
       /\ pc' = [pc EXCEPT ![t] = "idle"]
       /\ UNCHANGED loc
    \/ /\ op[t] = "add"
       /\ loc' = [loc EXCEPT ![t] = L \cup {Stamp(t)}]
       /\ pc' = [pc EXCEPT ![t] = "set_write"]
    \/ /\ op[t] = "remove"
       /\ loc' = [loc EXCEPT ![t] = {d \in L : d.hwid \notin arg[t].hws}]
       /\ pc' = [pc EXCEPT ![t] = "set_write"]

(* get_trusted_devices has returned L to the public call of t.             *)
GetReturn(t, L) ==
    \/ /\ op[t] = "get"
       /\ pc' = [pc EXCEPT ![t] = "idle"]
       /\ UNCHANGED loc
    \/ /\ op[t] = "add"
       /\ loc' = [loc EXCEPT ![t] = {d \in L : d.hwid # arg[t].dev.hwid} \cup {Stamp(t)}]
       /\ pc' = [pc EXCEPT ![t] = "set_write"]
    \/ /\ op[t] = "remove"
       /\ loc' = [loc EXCEPT ![t] = {d \in L : d.hwid \notin arg[t].hws}]
       /\ pc' = [pc EXCEPT ![t] = "set_write"]

(* set_trusted_devices has returned: back into get_trusted_devices, or out *)
(* of the public call, dropping the CONFIG guard of set_permanent_password.*)
SetReturn(t) ==
    \/ /\ nested[t]
       /\ pc' = [pc EXCEPT ![t] = "get_fill"]
       /\ nested' = [nested EXCEPT ![t] = FALSE]
       /\ UNCHANGED cfgHolder
    \/ /\ ~nested[t]
       /\ pc' = [pc EXCEPT ![t] = "idle"]
       /\ cfgHolder' = IF cfgHolder = t THEN NoThread ELSE cfgHolder
       /\ UNCHANGED nested

-----------------------------------------------------------------------------
(* get_trusted_devices.                                                    *)

(* TRUSTED_DEVICES.read().clone(): a synced cache is returned as it is.    *)
GetReadCache(t) ==
    /\ pc[t] = "get_cache"
    /\ \/ /\ cache.synced
          /\ GetReturn(t, cache.devs)
       \/ /\ ~cache.synced
          /\ pc' = [pc EXCEPT ![t] = "get_config2"]
          /\ UNCHANGED loc
    /\ UNCHANGED <<password, epoch, blob, cache, now, op, arg, got, snap, nested,
                   cfgHolder, opsLeft, crashes>>

(* CONFIG2.read(), decrypt, parse and prune.  A list that does not decrypt *)
(* yields an empty one and leaves the cache alone; a pruned list is        *)
(* written back through set_trusted_devices before the cache is filled.    *)
GetReadConfig2(t) ==
    /\ pc[t] = "get_config2"
    /\ \/ /\ blob = NoBlob
          /\ GetReturn(t, {})
          /\ UNCHANGED <<got, nested>>
       \/ /\ blob # NoBlob
          /\ Fresh(blob) = blob
          /\ got' = [got EXCEPT ![t] = blob]
          /\ pc' = [pc EXCEPT ![t] = "get_fill"]
          /\ UNCHANGED <<loc, nested>>
       \/ /\ blob # NoBlob
          /\ Fresh(blob) # blob
          /\ got' = [got EXCEPT ![t] = Fresh(blob)]
          /\ loc' = [loc EXCEPT ![t] = Fresh(blob)]
          /\ nested' = [nested EXCEPT ![t] = TRUE]
          /\ pc' = [pc EXCEPT ![t] = "set_write"]
    /\ UNCHANGED <<password, epoch, blob, cache, now, op, arg, snap,
                   cfgHolder, opsLeft, crashes>>

(* *TRUSTED_DEVICES.write() = (devices, true), with no CONFIG2 guard.      *)
GetFillCache(t) ==
    /\ pc[t] = "get_fill"
    /\ cache' = [devs |-> got[t], synced |-> TRUE]
    /\ GetReturn(t, got[t])
    /\ UNCHANGED <<password, epoch, blob, now, op, arg, got, snap, nested,
                   cfgHolder, opsLeft, crashes>>

-----------------------------------------------------------------------------
(* set_trusted_devices.                                                    *)

(* retain(!outdate) and the 1 MiB check, with no guard held: a list too   *)
(* large returns, having stored nothing.                                   *)
SetTooLarge(t) ==
    /\ pc[t] = "set_write"
    /\ Cardinality(Fresh(loc[t])) > MaxTrusted
    /\ SetReturn(t)
    /\ UNCHANGED <<password, epoch, blob, cache, now, op, arg, got, snap, loc,
                   opsLeft, crashes>>

(* retain(!outdate), serialise and encrypt a list within the limit, with   *)
(* no guard held; the store waits for CONFIG2.write().                     *)
SetPrune(t) ==
    /\ pc[t] = "set_write"
    /\ Cardinality(Fresh(loc[t])) <= MaxTrusted
    /\ loc' = [loc EXCEPT ![t] = Fresh(loc[t])]
    /\ pc' = [pc EXCEPT ![t] = "set_lock"]
    /\ UNCHANGED <<password, epoch, blob, cache, now, op, arg, got, snap,
                   nested, cfgHolder, opsLeft, crashes>>

(* Under CONFIG2.write(): store the list pruned before, and, still inside  *)
(* the guard, fill TRUSTED_DEVICES with it.                                *)
SetWriteConfig2(t) ==
    /\ pc[t] = "set_lock"
    /\ blob' = loc[t]
    /\ cache' = [devs |-> loc[t], synced |-> TRUE]
    /\ SetReturn(t)
    /\ UNCHANGED <<password, epoch, now, op, arg, got, snap, loc, opsLeft,
                   crashes>>

-----------------------------------------------------------------------------
(* set_permanent_password under CONFIG.write(): an unchanged password      *)
(* returns; a new one is stored and, with the guard still held, the        *)
(* trusted devices are cleared.                                            *)
SetPermanentPassword(t) ==
    /\ pc[t] = "pw_lock"
    /\ cfgHolder = NoThread
    /\ \/ /\ arg[t].pw = password
          /\ pc' = [pc EXCEPT ![t] = "idle"]
          /\ UNCHANGED <<password, epoch, loc, nested, cfgHolder>>
       \/ /\ arg[t].pw # password
          /\ password' = arg[t].pw
          /\ epoch' = epoch + 1
          /\ cfgHolder' = t
          /\ loc' = [loc EXCEPT ![t] = {}]
          /\ nested' = [nested EXCEPT ![t] = FALSE]
          /\ pc' = [pc EXCEPT ![t] = "set_write"]
    /\ UNCHANGED <<blob, cache, now, op, arg, got, snap, opsLeft, crashes>>

(* Config2::set(cfg) under CONFIG2.write(): the whole record, its         *)
(* trusted_devices the snapshot's, replaces the singleton and is stored    *)
(* (the equality test only skips a store of what is already there).        *)
(* TRUSTED_DEVICES is left as it is.                                       *)
Config2Set(t) ==
    /\ pc[t] = "cfg2_set"
    /\ blob' = snap[t]
    /\ pc' = [pc EXCEPT ![t] = "idle"]
    /\ UNCHANGED <<password, epoch, cache, now, op, arg, got, snap, loc,
                   nested, cfgHolder, opsLeft, crashes>>

-----------------------------------------------------------------------------
(* The environment: the clock, and a crash with a restart that reloads     *)
(* both records from disk and starts with an empty cache.                  *)

Tick ==
    /\ now < MaxTime
    /\ now' = now + 1
    /\ UNCHANGED <<password, epoch, blob, cache, pc, op, arg, got, snap, loc, nested,
                   cfgHolder, opsLeft, crashes>>

Crash ==
    /\ crashes < MaxCrashes
    /\ crashes' = crashes + 1
    /\ cache' = [devs |-> {}, synced |-> FALSE]
    /\ pc' = [t \in Threads |-> "idle"]
    /\ got' = [t \in Threads |-> {}]
    /\ loc' = [t \in Threads |-> {}]
    /\ nested' = [t \in Threads |-> FALSE]
    /\ cfgHolder' = NoThread
    /\ UNCHANGED <<password, epoch, blob, now, op, arg, snap, opsLeft>>

(* Every thread has made its last call and returned: the run is over.     *)
Terminating ==
    /\ \A t \in Threads : pc[t] = "idle" /\ opsLeft[t] = 0
    /\ UNCHANGED vars

(* A step of a call already under way.                                     *)
Step(t) ==
    \/ GetReadCache(t)
    \/ GetReadConfig2(t)
    \/ GetFillCache(t)
    \/ SetTooLarge(t)
    \/ SetPrune(t)
    \/ SetWriteConfig2(t)
    \/ SetPermanentPassword(t)
    \/ Config2Set(t)

Next ==
    \/ \E t \in Threads :
          \/ StartGetTrustedDevices(t)
          \/ \E h \in Hwids : StartAddTrustedDevice(t, h)
          \/ \E H \in SUBSET Hwids : StartRemoveTrustedDevices(t, H)
          \/ StartClearTrustedDevices(t)
          \/ \E p \in Passwords : StartSetPermanentPassword(t, p)
          \/ StartConfig2Set(t)
          \/ Step(t)
    \/ Tick
    \/ Crash
    \/ Terminating

Spec == Init /\ [][Next]_vars

-----------------------------------------------------------------------------
(* Properties.                                                             *)

(* No list anywhere (file, cache, or a thread's copy) holds two entries    *)
(* with one hardware id: add_trusted_device drops the old entry of the     *)
(* hwid before pushing the new one, and every other list is a sublist.    *)
NoDuplicateHwid ==
    /\ DupFree(Stored)
    /\ DupFree(cache.devs)
    /\ \A t \in Threads : DupFree(got[t]) /\ DupFree(loc[t])
    /\ \A t \in Threads : snap[t] # NoBlob => DupFree(snap[t])

(* Once a change of the permanent password has returned, every trusted    *)
(* device was pushed by an add that read the list after the change: none   *)
(* of the devices trusted under the earlier password, nor one added onto   *)
(* a list read before the change, survives it (spec 4.6: clearing occurs   *)
(* when the permanent password changes).                                   *)
TrustRevokedOnPasswordChange ==
    cfgHolder = NoThread => \A d \in Stored : d.ep = epoch

(* When no call is under way, a synced cache holds what the file holds     *)
(* (spec 5: readers never observe a value less current than the file).     *)
CacheCoherent ==
    (\A t \in Threads : pc[t] = "idle") /\ cache.synced => cache.devs = Stored

=============================================================================
