------------------------ MODULE TrustedDevicesProofs ------------------------
(***************************************************************************)
(* Proofs about the trusted-devices model, for every value of the          *)
(* constants that ConstantsAssumption allows.                              *)
(***************************************************************************)
EXTENDS TrustedDevices, TLAPS

USE ConstantsAssumption

-----------------------------------------------------------------------------
(* Lemmas on the list operators.                                           *)

(* Pruning returns a sublist.                                              *)
LEMMA FreshSubset ==
    ASSUME NEW S
    PROVE  Fresh(S) \subseteq S
BY DEF Fresh

(* A sublist of a list without two entries of one hwid has none either.   *)
LEMMA DupFreeSubset ==
    ASSUME NEW S, NEW T, T \subseteq S, DupFree(S)
    PROVE  DupFree(T)
BY DEF DupFree

(* add_trusted_device's retain-then-push keeps a list free of duplicate    *)
(* hwids.                                                                  *)
LEMMA DupFreeReplace ==
    ASSUME NEW S, NEW x, DupFree(S)
    PROVE  DupFree({d \in S : d.hwid # x.hwid} \cup {x})
BY DEF DupFree

-----------------------------------------------------------------------------
(* Type correctness.                                                       *)

LEMMA InitTypeOK == Init => TypeOK
<1> SUFFICES ASSUME Init PROVE TypeOK
    OBVIOUS
<1>1. (CHOOSE h \in Hwids : TRUE) \in Hwids /\ (CHOOSE p \in Passwords : TRUE) \in Passwords
    OBVIOUS
<1>2. blob \in {NoBlob} \cup SUBSET DeviceT
    BY DEF Init, DeviceT
<1>3. QED
    BY <1>1, <1>2 DEF Init, TypeOK, DeviceT, ArgT, PCs, Ops

(* The list every step hands back to a call is a set of devices.           *)
LEMMA GetReturnTypeOK ==
    ASSUME TypeOK, NEW t \in Threads, NEW L \in SUBSET DeviceT, GetReturn(t, L)
    PROVE  /\ pc' \in [Threads -> PCs]
           /\ loc' \in [Threads -> SUBSET DeviceT]
<1>1. Stamp(t) \in DeviceT
    BY DEF TypeOK, ArgT, Stamp, DeviceT
<1>2. CASE op[t] = "get"
    BY <1>2 DEF GetReturn, TypeOK, PCs
<1>3. CASE op[t] = "add"
    <2>1. {d \in L : d.hwid # arg[t].dev.hwid} \cup {Stamp(t)} \in SUBSET DeviceT
        BY <1>1
    <2>2. /\ loc' = [loc EXCEPT ![t] = {d \in L : d.hwid # arg[t].dev.hwid} \cup {Stamp(t)}]
          /\ pc' = [pc EXCEPT ![t] = "set_write"]
        BY <1>3 DEF GetReturn
    <2>3. QED
        BY <2>1, <2>2 DEF TypeOK, PCs
<1>4. CASE op[t] = "remove"
    BY <1>4 DEF GetReturn, TypeOK, PCs
<1>5. QED
    BY <1>2, <1>3, <1>4 DEF GetReturn

LEMMA SetReturnTypeOK ==
    ASSUME TypeOK, NEW t \in Threads, SetReturn(t)
    PROVE  /\ pc' \in [Threads -> PCs]
           /\ nested' \in [Threads -> BOOLEAN]
           /\ cfgHolder' \in Threads \cup {NoThread}
BY DEF SetReturn, TypeOK, PCs

LEMMA StepTypeOK ==
    ASSUME TypeOK, NEW t \in Threads, Step(t)
    PROVE  TypeOK'
<1>1. CASE GetReadCache(t)
    <2>1. cache.devs \in SUBSET DeviceT
        BY DEF TypeOK
    <2>2. CASE cache.synced
        BY <1>1, <2>1, <2>2, GetReturnTypeOK DEF GetReadCache, TypeOK
    <2>3. CASE ~cache.synced
        BY <1>1, <2>3 DEF GetReadCache, TypeOK, PCs
    <2>4. QED
        BY <2>2, <2>3
<1>2. CASE GetReadConfig2(t)
    <2>1. CASE blob = NoBlob
        BY <1>2, <2>1, GetReturnTypeOK DEF GetReadConfig2, TypeOK
    <2>2. CASE blob # NoBlob
        <3>1. blob \in SUBSET DeviceT /\ Fresh(blob) \in SUBSET DeviceT
            BY <2>2, FreshSubset DEF TypeOK
        <3>2. CASE Fresh(blob) = blob
            BY <1>2, <2>2, <3>1, <3>2 DEF GetReadConfig2, TypeOK, PCs
        <3>3. CASE Fresh(blob) # blob
            <4>1. /\ got' = [got EXCEPT ![t] = Fresh(blob)]
                  /\ loc' = [loc EXCEPT ![t] = Fresh(blob)]
                  /\ nested' = [nested EXCEPT ![t] = TRUE]
                  /\ pc' = [pc EXCEPT ![t] = "set_write"]
                  /\ UNCHANGED <<password, epoch, blob, cache, now, op, arg,
                                 snap, cfgHolder, opsLeft, crashes>>
                BY <1>2, <2>2, <3>3 DEF GetReadConfig2
            <4>2. QED
                BY <3>1, <4>1 DEF TypeOK, PCs
        <3>4. QED
            BY <3>2, <3>3
    <2>3. QED
        BY <2>1, <2>2
<1>3. CASE GetFillCache(t)
    BY <1>3, GetReturnTypeOK DEF GetFillCache, TypeOK
<1>4. CASE SetTooLarge(t)
    BY <1>4, SetReturnTypeOK DEF SetTooLarge, TypeOK
<1>5. CASE SetPrune(t)
    <2>1. Fresh(loc[t]) \in SUBSET DeviceT
        BY FreshSubset DEF TypeOK
    <2>2. QED
        BY <1>5, <2>1 DEF SetPrune, TypeOK, PCs
<1>9. CASE SetWriteConfig2(t)
    BY <1>9, SetReturnTypeOK DEF SetWriteConfig2, TypeOK
<1>6. CASE SetPermanentPassword(t)
    <2>1. arg[t].pw \in Passwords /\ epoch + 1 \in Nat
        BY DEF TypeOK, ArgT
    <2>2. CASE arg[t].pw = password
        BY <1>6, <2>2 DEF SetPermanentPassword, TypeOK, PCs
    <2>3. CASE arg[t].pw # password
        BY <1>6, <2>1, <2>3 DEF SetPermanentPassword, TypeOK, PCs
    <2>4. QED
        BY <2>2, <2>3
<1>7. CASE Config2Set(t)
    BY <1>7 DEF Config2Set, TypeOK, PCs
<1>8. QED
    BY <1>1, <1>2, <1>3, <1>4, <1>5, <1>6, <1>7, <1>9 DEF Step

LEMMA StartTypeOK ==
    ASSUME TypeOK, NEW t \in Threads,
           \/ StartGetTrustedDevices(t)
           \/ \E h \in Hwids : StartAddTrustedDevice(t, h)
           \/ \E H \in SUBSET Hwids : StartRemoveTrustedDevices(t, H)
           \/ StartClearTrustedDevices(t)
           \/ \E p \in Passwords : StartSetPermanentPassword(t, p)
           \/ StartConfig2Set(t)
    PROVE  TypeOK'
<1>1. CASE StartGetTrustedDevices(t)
    BY <1>1 DEF StartGetTrustedDevices, Begin, TypeOK, PCs, Ops
<1>2. CASE \E h \in Hwids : StartAddTrustedDevice(t, h)
    <2>1. PICK h \in Hwids : StartAddTrustedDevice(t, h)
        BY <1>2
    <2>2. [hwid |-> h, time |-> now, ep |-> 0] \in DeviceT
        BY DEF TypeOK, DeviceT
    <2>3. arg' \in [Threads -> ArgT]
        <3>1. arg' = [arg EXCEPT ![t].dev = [hwid |-> h, time |-> now, ep |-> 0]]
            BY <2>1 DEF StartAddTrustedDevice
        <3>2. arg[t] \in ArgT /\ arg \in [Threads -> ArgT]
            BY DEF TypeOK
        <3>3. QED
            BY <2>2, <3>1, <3>2 DEF ArgT
    <2>4. QED
        BY <2>1, <2>3 DEF StartAddTrustedDevice, Begin, TypeOK, PCs, Ops
<1>3. CASE \E H \in SUBSET Hwids : StartRemoveTrustedDevices(t, H)
    <2>1. PICK H \in SUBSET Hwids : StartRemoveTrustedDevices(t, H)
        BY <1>3
    <2>2. arg' \in [Threads -> ArgT]
        <3>1. arg' = [arg EXCEPT ![t].hws = H]
            BY <2>1 DEF StartRemoveTrustedDevices
        <3>2. arg[t] \in ArgT /\ arg \in [Threads -> ArgT]
            BY DEF TypeOK
        <3>3. QED
            BY <3>1, <3>2 DEF ArgT
    <2>3. QED
        BY <2>1, <2>2 DEF StartRemoveTrustedDevices, Begin, TypeOK, PCs, Ops
<1>4. CASE StartClearTrustedDevices(t)
    BY <1>4 DEF StartClearTrustedDevices, Begin, TypeOK, PCs, Ops
<1>5. CASE \E p \in Passwords : StartSetPermanentPassword(t, p)
    <2>1. PICK p \in Passwords : StartSetPermanentPassword(t, p)
        BY <1>5
    <2>2. arg' \in [Threads -> ArgT]
        <3>1. arg' = [arg EXCEPT ![t].pw = p]
            BY <2>1 DEF StartSetPermanentPassword
        <3>2. arg[t] \in ArgT /\ arg \in [Threads -> ArgT]
            BY DEF TypeOK
        <3>3. QED
            BY <3>1, <3>2 DEF ArgT
    <2>3. /\ opsLeft' = [opsLeft EXCEPT ![t] = @ - 1]
          /\ op' = [op EXCEPT ![t] = "setpw"]
          /\ pc' \in {[pc EXCEPT ![t] = "idle"], [pc EXCEPT ![t] = "pw_lock"]}
          /\ opsLeft[t] > 0
          /\ UNCHANGED <<password, epoch, blob, cache, now, got, snap, loc,
                         nested, cfgHolder, crashes>>
        BY <2>1 DEF StartSetPermanentPassword, Begin
    <2>4. QED
        BY <2>2, <2>3 DEF TypeOK, PCs, Ops
<1>6. CASE StartConfig2Set(t)
    BY <1>6 DEF StartConfig2Set, Begin, TypeOK, PCs, Ops
<1>7. QED
    BY <1>1, <1>2, <1>3, <1>4, <1>5, <1>6

LEMMA NextTypeOK == TypeOK /\ [Next]_vars => TypeOK'
<1> SUFFICES ASSUME TypeOK, [Next]_vars PROVE TypeOK'
    OBVIOUS
<1>1. ASSUME NEW t \in Threads,
             \/ StartGetTrustedDevices(t)
             \/ \E h \in Hwids : StartAddTrustedDevice(t, h)
             \/ \E H \in SUBSET Hwids : StartRemoveTrustedDevices(t, H)
             \/ StartClearTrustedDevices(t)
             \/ \E p \in Passwords : StartSetPermanentPassword(t, p)
             \/ StartConfig2Set(t)
      PROVE  TypeOK'
    BY <1>1, StartTypeOK
<1>2. ASSUME NEW t \in Threads, Step(t) PROVE TypeOK'
    BY <1>2, StepTypeOK
<1>3. CASE Tick
    BY <1>3 DEF Tick, TypeOK
<1>4. CASE Crash
    BY <1>4 DEF Crash, TypeOK, PCs
<1>5. CASE Terminating \/ UNCHANGED vars
    BY <1>5 DEF Terminating, vars, TypeOK
<1>6. QED
    BY <1>1, <1>2, <1>3, <1>4, <1>5 DEF Next

(* Every reachable state is well typed: every list in the file, the cache  *)
(* and the threads' locals is a set of devices, and the CONFIG guard is    *)
(* held by at most one thread.                                             *)
THEOREM TypeCorrect == Spec => []TypeOK
BY InitTypeOK, NextTypeOK, PTL DEF Spec

-----------------------------------------------------------------------------
(* No duplicate hardware ids.  NoDuplicateHwid is inductive together with *)
(* TypeOK: it already constrains the threads' copies got and loc, from     *)
(* which every later write of the file and the cache is taken.             *)

IInv == TypeOK /\ NoDuplicateHwid

LEMMA InitIInv == Init => IInv
<1> SUFFICES ASSUME Init PROVE NoDuplicateHwid
    BY InitTypeOK DEF IInv
<1>1. DupFree(Stored)
    BY DEF Init, Stored, DupFree
<1>2. QED
    BY <1>1 DEF Init, NoDuplicateHwid, DupFree

(* After get_trusted_devices hands a duplicate-free list back, every       *)
(* thread's list to store is still duplicate-free.                         *)
LEMMA GetReturnDupFree ==
    ASSUME TypeOK, NEW t \in Threads, NEW L, DupFree(L), GetReturn(t, L),
           \A u \in Threads : DupFree(loc[u])
    PROVE  \A u \in Threads : DupFree(loc'[u])
<1>1. CASE op[t] = "get"
    BY <1>1 DEF GetReturn
<1>2. CASE op[t] = "add"
    <2>0. Stamp(t).hwid = arg[t].dev.hwid
        BY DEF Stamp, TypeOK, ArgT, DeviceT
    <2>1. DupFree({d \in L : d.hwid # arg[t].dev.hwid} \cup {Stamp(t)})
        BY <2>0, DupFreeReplace
    <2>2. loc' = [loc EXCEPT ![t] = {d \in L : d.hwid # arg[t].dev.hwid} \cup {Stamp(t)}]
        BY <1>2 DEF GetReturn
    <2>3. QED
        BY <2>1, <2>2 DEF TypeOK
<1>3. CASE op[t] = "remove"
    <2>1. DupFree({d \in L : d.hwid \notin arg[t].hws})
        BY DupFreeSubset
    <2>2. loc' = [loc EXCEPT ![t] = {d \in L : d.hwid \notin arg[t].hws}]
        BY <1>3 DEF GetReturn
    <2>3. QED
        BY <2>1, <2>2 DEF TypeOK
<1>4. QED
    BY <1>1, <1>2, <1>3 DEF GetReturn

(* Writing a list makes it the stored one.                                 *)
LEMMA StoredDupFree ==
    ASSUME NEW S, DupFree(S), blob' = S
    PROVE  DupFree(Stored')
BY DEF Stored, DupFree

LEMMA StepNoDup ==
    ASSUME IInv, NEW t \in Threads, Step(t)
    PROVE  NoDuplicateHwid'
<1> USE DEF IInv
<1>0. /\ DupFree(Stored) /\ DupFree(cache.devs)
      /\ \A u \in Threads : DupFree(got[u]) /\ DupFree(loc[u])
      /\ \A u \in Threads : snap[u] # NoBlob => DupFree(snap[u])
    BY DEF NoDuplicateHwid
<1>1. CASE GetReadCache(t)
    <2>1. \A u \in Threads : DupFree(loc'[u])
        <3>1. CASE cache.synced
            BY <1>0, <1>1, <3>1, GetReturnDupFree DEF GetReadCache
        <3>2. CASE ~cache.synced
            BY <1>0, <1>1, <3>2 DEF GetReadCache
        <3>3. QED
            BY <3>1, <3>2
    <2>2. QED
        BY <1>0, <1>1, <2>1 DEF GetReadCache, NoDuplicateHwid, Stored
<1>2. CASE GetReadConfig2(t)
    <2>1. CASE blob = NoBlob
        <3>1. DupFree({})
            BY DEF DupFree
        <3>2. \A u \in Threads : DupFree(loc'[u])
            BY <1>0, <1>2, <2>1, <3>1, GetReturnDupFree DEF GetReadConfig2
        <3>3. QED
            BY <1>0, <1>2, <2>1, <3>2 DEF GetReadConfig2, NoDuplicateHwid, Stored
    <2>2. CASE blob # NoBlob
        <3>1. DupFree(blob) /\ DupFree(Fresh(blob))
            BY <1>0, <2>2, FreshSubset, DupFreeSubset DEF Stored
        <3>2. /\ got' = [got EXCEPT ![t] = blob] \/ got' = [got EXCEPT ![t] = Fresh(blob)]
              /\ loc' = loc \/ loc' = [loc EXCEPT ![t] = Fresh(blob)]
              /\ UNCHANGED <<blob, cache, snap>>
            BY <1>2, <2>2 DEF GetReadConfig2
        <3>3. QED
            BY <1>0, <3>1, <3>2 DEF NoDuplicateHwid, Stored, TypeOK
    <2>3. QED
        BY <2>1, <2>2
<1>3. CASE GetFillCache(t)
    <2>1. \A u \in Threads : DupFree(loc'[u])
        BY <1>0, <1>3, GetReturnDupFree DEF GetFillCache
    <2>2. QED
        BY <1>0, <1>3, <2>1 DEF GetFillCache, NoDuplicateHwid, Stored
<1>4. CASE SetTooLarge(t)
    BY <1>0, <1>4 DEF SetTooLarge, NoDuplicateHwid, Stored
<1>5. CASE SetPrune(t)
    <2>1. DupFree(Fresh(loc[t]))
        BY <1>0, FreshSubset, DupFreeSubset
    <2>2. QED
        BY <1>0, <1>5, <2>1 DEF SetPrune, NoDuplicateHwid, Stored, TypeOK
<1>9. CASE SetWriteConfig2(t)
    <2>1. DupFree(Stored')
        BY <1>0, <1>9, StoredDupFree DEF SetWriteConfig2
    <2>2. QED
        BY <1>0, <1>9, <2>1 DEF SetWriteConfig2, NoDuplicateHwid, TypeOK
<1>6. CASE SetPermanentPassword(t)
    <2>1. DupFree({})
        BY DEF DupFree
    <2>2. QED
        BY <1>0, <1>6, <2>1 DEF SetPermanentPassword, NoDuplicateHwid, Stored, TypeOK
<1>7. CASE Config2Set(t)
    <2>1. DupFree(Stored')
        BY <1>0, <1>7 DEF Config2Set, Stored, DupFree
    <2>2. QED
        BY <1>0, <1>7, <2>1 DEF Config2Set, NoDuplicateHwid
<1>8. QED
    BY <1>1, <1>2, <1>3, <1>4, <1>5, <1>6, <1>7, <1>9 DEF Step

LEMMA NextIInv == IInv /\ [Next]_vars => IInv'
<1> SUFFICES ASSUME IInv, [Next]_vars PROVE IInv'
    OBVIOUS
<1>0. /\ TypeOK'
      /\ DupFree(Stored) /\ DupFree(cache.devs)
      /\ \A u \in Threads : DupFree(got[u]) /\ DupFree(loc[u])
      /\ \A u \in Threads : snap[u] # NoBlob => DupFree(snap[u])
      /\ DupFree({})
    BY NextTypeOK DEF IInv, NoDuplicateHwid, DupFree
<1>1. ASSUME NEW t \in Threads,
             \/ StartGetTrustedDevices(t)
             \/ \E h \in Hwids : StartAddTrustedDevice(t, h)
             \/ \E H \in SUBSET Hwids : StartRemoveTrustedDevices(t, H)
             \/ StartClearTrustedDevices(t)
             \/ \E p \in Passwords : StartSetPermanentPassword(t, p)
      PROVE  IInv'
    <2>1. /\ UNCHANGED <<blob, cache, got, snap>>
          /\ loc' = loc \/ loc' = [loc EXCEPT ![t] = {}]
        BY <1>1 DEF StartGetTrustedDevices, StartAddTrustedDevice,
                    StartRemoveTrustedDevices, StartClearTrustedDevices,
                    StartSetPermanentPassword
    <2>2. QED
        BY <1>0, <2>1 DEF IInv, NoDuplicateHwid, Stored, TypeOK
<1>7. ASSUME NEW t \in Threads, StartConfig2Set(t) PROVE IInv'
    <2>1. blob # NoBlob => DupFree(blob)
        BY <1>0 DEF Stored
    <2>2. QED
        BY <1>0, <1>7, <2>1 DEF StartConfig2Set, IInv, NoDuplicateHwid,
                                Stored, TypeOK
<1>2. ASSUME NEW t \in Threads, Step(t) PROVE IInv'
    BY <1>0, <1>2, StepNoDup DEF IInv
<1>3. CASE Tick
    BY <1>0, <1>3 DEF Tick, IInv, NoDuplicateHwid, Stored
<1>4. CASE Crash
    BY <1>0, <1>4 DEF Crash, IInv, NoDuplicateHwid, Stored
<1>5. CASE Terminating \/ UNCHANGED vars
    BY <1>0, <1>5 DEF Terminating, vars, IInv, NoDuplicateHwid, Stored
<1>6. QED
    BY <1>1, <1>2, <1>3, <1>4, <1>5, <1>7 DEF Next

(* No list of trusted devices, in the file, in TRUSTED_DEVICES or in a     *)
(* call under way, ever holds two entries with one hardware id, however    *)
(* add_trusted_device, remove_trusted_devices, get_trusted_devices'        *)
(* write-back, set_permanent_password and crashes interleave.              *)
THEOREM NoDuplicateHwidInvariant == Spec => []NoDuplicateHwid
<1>1. IInv => NoDuplicateHwid
    BY DEF IInv
<1>2. QED
    BY InitIInv, NextIInv, <1>1, PTL DEF Spec

====
