---------------------------- MODULE NetworkProofs ----------------------------
(* Proofs about the network record: whatever file an older version or     *)
(* another machine left, the PIN and the socks password are never short    *)
(* plaintext on disk, and a restart gives back the record the process had. *)
EXTENDS Network, TLAPS

(* decrypt_str_or_original undoes encrypt_str_or_original, for every text  *)
(* (a text that did not decrypt at load included).                         *)
LEMMA DecryptEncrypt ==
    ASSUME NEW s
    PROVE  DecryptStr(EncryptStr(s)).plain = s
BY DEF DecryptStr, EncryptStr, Plain, Cipher

(* What encrypt_str_or_original stores is a sealed field.                  *)
LEMMA EncryptSealed ==
    ASSUME NEW s \in Strings \cup {NoPlain}
    PROVE  EncryptStr(s) \in Field /\ Sealed(EncryptStr(s))
BY CodecAssumption DEF EncryptStr, Plain, Cipher, Field, Sealed, Current

(* A field that asks for no rewrite is sealed already, and what a field    *)
(* decrypts to is a text or the unreadable ciphertext.                     *)
LEMMA DecryptField ==
    ASSUME NEW x \in Field
    PROVE  /\ DecryptStr(x).plain \in Strings \cup {NoPlain}
           /\ ~DecryptStr(x).rewrite => Sealed(x)
<1>1. CASE x \in [kind : {"plain"}, v : Strings]
  <2>1. DecryptStr(x).plain \in Strings \cup {NoPlain}
    BY <1>1 DEF DecryptStr
  <2>2. ASSUME ~DecryptStr(x).rewrite PROVE Sealed(x)
    <3>1. x = Plain("")
      BY <1>1, <2>2 DEF DecryptStr
    <3>2. x.kind = "plain" /\ x.v = ""
      BY <3>1 DEF Plain
    <3>3. QED
      BY <3>2 DEF Sealed
  <2>3. QED
    BY <2>1, <2>2
<1>2. CASE x \in [kind : {"ct"}, v : Strings \cup {NoPlain}, ver : {Current, "other"}]
  <2>1. x.kind # "plain"
    BY <1>2
  <2>2. DecryptStr(x).plain = x.v \/ DecryptStr(x).plain = NoPlain
    BY <1>2 DEF DecryptStr
  <2>3. QED
    BY <1>2, <2>1, <2>2 DEF Sealed
<1>3. QED
  BY <1>1, <1>2 DEF Field

(* What Config2::load puts in memory, field by field.                       *)
LEMMA LoadMem ==
    ASSUME NEW f
    PROVE  Load2(f).mem =
             [socks |-> IF f.socks = NoSocks THEN NoSocks
                        ELSE [f.socks EXCEPT !.password = DecryptStr(f.socks.password).plain],
              pin   |-> DecryptStr(f.pin).plain,
              nat   |-> f.nat]
BY DEF Load2

(* Config2::store of any record writes a well-typed, sealed file from      *)
(* which Config2::load reads the record back.                              *)
LEMMA StoreThenLoad ==
    ASSUME NEW c \in Config2
    PROVE  /\ Store2(c) \in FileT
           /\ SealedFile(Store2(c))
           /\ Load2(Store2(c)).mem = c
<1>1. CASE c.socks = NoSocks
  <2>1. EncryptStr(c.pin) \in Field /\ Sealed(EncryptStr(c.pin))
    BY EncryptSealed DEF Config2
  <2>2. DecryptStr(EncryptStr(c.pin)).plain = c.pin
    BY DecryptEncrypt
  <2>3. QED
    BY <1>1, <2>1, <2>2 DEF Store2, Load2, FileT, SealedFile, Config2
<1>2. CASE c.socks # NoSocks
  <2>1. c.socks \in SocksT(Strings \cup {NoPlain})
    BY <1>2 DEF Config2
  <2>2. EncryptStr(c.socks.password) \in Field /\ Sealed(EncryptStr(c.socks.password))
    BY <2>1, EncryptSealed DEF SocksT
  <2>3. EncryptStr(c.pin) \in Field /\ Sealed(EncryptStr(c.pin))
    BY EncryptSealed DEF Config2
  <2> DEFINE s == [c.socks EXCEPT !.password = EncryptStr(c.socks.password)]
  <2>4. s \in SocksT(Field) /\ s # NoSocks /\ s.password = EncryptStr(c.socks.password)
    BY <2>1, <2>2, NoSocksAssumption DEF SocksT
  <2>5. [s EXCEPT !.password = DecryptStr(s.password).plain] = c.socks
    BY <2>1, <2>4, DecryptEncrypt DEF SocksT
  <2>6. Store2(c) = [socks |-> s, pin |-> EncryptStr(c.pin), nat |-> c.nat]
    BY <1>2 DEF Store2
  <2>7. Store2(c) \in FileT /\ SealedFile(Store2(c))
    <3>1. c.nat \in NatTypes
      BY DEF Config2
    <3>2. Store2(c) \in FileT
      <4>1. s \in SocksT(Field) \cup {NoSocks}
        BY <2>4
      <4>2. [socks |-> s, pin |-> EncryptStr(c.pin), nat |-> c.nat] \in FileT
        BY <2>3, <3>1, <4>1 DEF FileT
      <4>3. QED
        BY <2>6, <4>2
    <3>3. SealedFile(Store2(c))
      <4>1. Store2(c).pin = EncryptStr(c.pin) /\ Store2(c).socks = s
        BY <2>6
      <4>2. Sealed(Store2(c).pin)
        BY <2>3, <4>1
      <4>3. Sealed(Store2(c).socks.password)
        BY <2>2, <2>4, <4>1
      <4>4. QED
        BY <4>2, <4>3, Zenon DEF SealedFile
    <3>4. QED
      BY <3>2, <3>3
  <2>8. Load2(Store2(c)).mem = [socks |-> c.socks, pin |-> c.pin, nat |-> c.nat]
    <3>1. Store2(c).socks = s /\ Store2(c).pin = EncryptStr(c.pin) /\ Store2(c).nat = c.nat
      BY <2>6
    <3>2. DecryptStr(EncryptStr(c.pin)).plain = c.pin
      BY DecryptEncrypt
    <3>3. Load2(Store2(c)).mem =
            [socks |-> [s EXCEPT !.password = DecryptStr(s.password).plain],
             pin   |-> DecryptStr(EncryptStr(c.pin)).plain,
             nat   |-> c.nat]
      BY <2>4, <3>1, LoadMem
    <3>4. QED
      BY <2>5, <3>2, <3>3
  <2>9. c = [socks |-> c.socks, pin |-> c.pin, nat |-> c.nat]
    BY DEF Config2
  <2>10. QED
    BY <2>7, <2>8, <2>9
<1>3. QED
  BY <1>1, <1>2

(* Config2::load's write-back: the file is stored again exactly when one   *)
(* of the two fields asked for a rewrite.                                  *)
LEMMA LoadFile ==
    ASSUME NEW f
    PROVE  Load2(f).file =
             IF (f.socks # NoSocks /\ DecryptStr(f.socks.password).rewrite) \/ DecryptStr(f.pin).rewrite
             THEN Store2(Load2(f).mem) ELSE f
BY DEF Load2

(* Config2::load of any well-typed file gives a record of Config2 and a    *)
(* sealed file, and loading that file again gives the same record: the    *)
(* write-back of a legacy plaintext PIN or password changes nothing a     *)
(* later load reads.                                                        *)
LEMMA LoadOK ==
    ASSUME NEW f \in FileT
    PROVE  /\ Load2(f).mem \in Config2
           /\ Load2(f).file \in FileT
           /\ SealedFile(Load2(f).file)
           /\ Load2(Load2(f).file).mem = Load2(f).mem
<1> DEFINE m == Load2(f).mem
           dp == DecryptStr(f.socks.password)
           dn == DecryptStr(f.pin)
<1>1. f.pin \in Field /\ f.nat \in NatTypes /\ (f.socks = NoSocks \/ f.socks \in SocksT(Field))
  BY DEF FileT
<1>2. dn.plain \in Strings \cup {NoPlain} /\ (~dn.rewrite => Sealed(f.pin))
  BY <1>1, DecryptField
<1>3. m \in Config2
  <2>1. CASE f.socks = NoSocks
    <3>1. m = [socks |-> NoSocks, pin |-> dn.plain, nat |-> f.nat]
      BY <2>1, LoadMem
    <3>2. QED
      BY <1>1, <1>2, <3>1 DEF Config2
  <2>2. CASE f.socks # NoSocks
    <3>1. f.socks \in SocksT(Field)
      BY <1>1, <2>2
    <3>2. dp.plain \in Strings \cup {NoPlain}
      BY <3>1, DecryptField DEF SocksT
    <3>3. [f.socks EXCEPT !.password = dp.plain] \in SocksT(Strings \cup {NoPlain})
      BY <3>1, <3>2 DEF SocksT
    <3>4. m = [socks |-> [f.socks EXCEPT !.password = dp.plain], pin |-> dn.plain, nat |-> f.nat]
      BY <2>2, LoadMem
    <3>5. QED
      BY <1>1, <1>2, <3>3, <3>4 DEF Config2
  <2>3. QED
    BY <2>1, <2>2
<1>4. CASE (f.socks # NoSocks /\ dp.rewrite) \/ dn.rewrite
  <2>1. Load2(f).file = Store2(m)
    BY <1>4, LoadFile
  <2>2. QED
    BY <1>3, <2>1, StoreThenLoad
<1>5. CASE ~((f.socks # NoSocks /\ dp.rewrite) \/ dn.rewrite)
  <2>1. Load2(f).file = f
    BY <1>5, LoadFile
  <2>2. Sealed(f.pin)
    BY <1>2, <1>5
  <2>3. f.socks # NoSocks => Sealed(f.socks.password)
    BY <1>1, <1>5, DecryptField DEF SocksT
  <2>4. SealedFile(f)
    BY <2>2, <2>3, Zenon DEF SealedFile
  <2>5. QED
    BY <1>3, <2>1, <2>4
<1>6. QED
  BY <1>4, <1>5

-----------------------------------------------------------------------------
(* The disk and memory agree: the file is well typed and sealed, and       *)
(* loading it gives CONFIG2.  Every writer keeps this by storing under     *)
(* its write guard; Restart needs it, because it replaces CONFIG2 by what  *)
(* Config2::load reads from the file.                                       *)
Disk == file \in FileT /\ SealedFile(file) /\ Load2(file).mem = mem

IInv == TypeOK /\ Disk

(* Config2::store of a record of Config2 leaves the disk agreeing with it. *)
LEMMA WriteDisk ==
    ASSUME NEW c \in Config2, Write(c)
    PROVE  Disk'
BY StoreThenLoad DEF Write, Disk

(* A step that writes neither CONFIG2 nor the file keeps the agreement.    *)
LEMMA KeepDisk ==
    ASSUME Disk, UNCHANGED <<mem, file>>
    PROVE  Disk'
BY DEF Disk

(* The initial CONFIG2 is what Config2::load made of a well-typed file.   *)
LEMMA InitIInv == Init => IInv
<1> SUFFICES ASSUME Init PROVE IInv
  OBVIOUS
<1>1. PICK f0 \in InitFiles : mem = Load2(f0).mem /\ file = Load2(f0).file
  BY DEF Init
<1>2. f0 \in FileT
  BY <1>1, InitFilesAssumption
<1>3. Disk
  BY <1>1, <1>2, LoadOK DEF Disk
<1>4. TypeOK
  BY <1>1, <1>2, LoadOK, NetworkAssumption DEF Init, TypeOK
<1>5. QED
  BY <1>3, <1>4 DEF IInv

(* Every step of Next (and a stutter) keeps the inductive invariant.       *)
LEMMA NextIInv == IInv /\ [Next]_vars => IInv'
<1> SUFFICES ASSUME IInv, [Next]_vars PROVE IInv'
  OBVIOUS
<1>0. TypeOK /\ Disk
  BY DEF IInv
<1>1. ASSUME NEW s \in Socks \cup {NoSocks}, SetSocks(s) PROVE IInv'
  <2>1. [mem EXCEPT !.socks = s] \in Config2
    BY <1>0, NetworkAssumption DEF TypeOK, Config2, Socks, SocksT
  <2>2. Disk' /\ mem' \in Config2
    <3>1. CASE OverwriteProxy.url # Absent \/ mem.socks = s \/ (mem.socks = NoSocks /\ EqualToDefault(s))
      BY <1>0, <1>1, <3>1, KeepDisk DEF SetSocks, TypeOK
    <3>2. CASE ~(OverwriteProxy.url # Absent \/ mem.socks = s \/ (mem.socks = NoSocks /\ EqualToDefault(s)))
      BY <1>1, <2>1, <3>2, WriteDisk DEF SetSocks, Write
    <3>3. QED
      BY <3>1, <3>2
  <2>3. QED
    BY <1>0, <1>1, <2>2 DEF SetSocks, Call, IInv, TypeOK, Disk
<1>2. ASSUME NEW p \in Pins, SetUnlockPin(p) PROVE IInv'
  <2>1. [mem EXCEPT !.pin = p] \in Config2
    BY <1>0, NetworkAssumption DEF TypeOK, Config2
  <2>2. Disk' /\ mem' \in Config2
    <3>1. CASE mem.pin = p
      BY <1>0, <1>2, <3>1, KeepDisk DEF SetUnlockPin, TypeOK
    <3>2. CASE mem.pin # p
      BY <1>2, <2>1, <3>2, WriteDisk DEF SetUnlockPin, Write
    <3>3. QED
      BY <3>1, <3>2
  <2>3. QED
    BY <1>0, <1>2, <2>2 DEF SetUnlockPin, Call, IInv, TypeOK, Disk
<1>3. ASSUME NEW n \in NatTypes, SetNatType(n) PROVE IInv'
  <2>1. [mem EXCEPT !.nat = n] \in Config2
    BY <1>0 DEF TypeOK, Config2
  <2>2. Disk' /\ mem' \in Config2
    <3>1. CASE mem.nat = n
      BY <1>0, <1>3, <3>1, KeepDisk DEF SetNatType, TypeOK
    <3>2. CASE mem.nat # n
      BY <1>3, <2>1, <3>2, WriteDisk DEF SetNatType, Write
    <3>3. QED
      BY <3>1, <3>2
  <2>3. QED
    BY <1>0, <1>3, <2>2 DEF SetNatType, Call, IInv, TypeOK, Disk
<1>4. ASSUME NEW t \in Setters, ConfigGet(t) PROVE IInv'
  <2>1. PICK n \in NatTypes : snap' = [snap EXCEPT ![t] = [mem EXCEPT !.nat = n]]
    BY <1>4 DEF ConfigGet
  <2>2. [mem EXCEPT !.nat = n] \in Config2
    BY <1>0 DEF TypeOK, Config2
  <2>3. Disk'
    BY <1>0, <1>4, KeepDisk DEF ConfigGet
  <2>4. QED
    BY <1>0, <1>4, <2>1, <2>2, <2>3 DEF ConfigGet, Call, IInv, TypeOK
<1>5. ASSUME NEW t \in Setters, ConfigSet(t) PROVE IInv'
  <2>1. snap[t] \in Config2
    BY <1>0 DEF TypeOK
  <2>2. Disk' /\ mem' \in Config2
    <3>1. CASE mem = snap[t]
      BY <1>0, <1>5, <3>1, KeepDisk DEF ConfigSet, TypeOK
    <3>2. CASE mem # snap[t]
      BY <1>5, <2>1, <3>2, WriteDisk DEF ConfigSet, Write
    <3>3. QED
      BY <3>1, <3>2
  <2>3. QED
    BY <1>0, <1>5, <2>2 DEF ConfigSet, IInv, TypeOK, Disk
<1>6. ASSUME Restart PROVE IInv'
  <2>1. file' = Load2(file).file /\ mem' = Load2(file).mem
    BY <1>6 DEF Restart
  <2>2. Disk'
    BY <1>0, <2>1, LoadOK DEF TypeOK, Disk
  <2>3. mem' \in Config2
    BY <1>0, <2>1, LoadOK DEF TypeOK
  <2>4. QED
    BY <1>0, <1>6, <2>2, <2>3 DEF Restart, IInv, TypeOK, Disk
<1>7. CASE Terminating \/ UNCHANGED vars
  BY <1>0, <1>7 DEF Terminating, vars, IInv, TypeOK, Disk
<1>8. QED
  BY <1>1, <1>2, <1>3, <1>4, <1>5, <1>6, <1>7 DEF Next

(* The invariant holds in every reachable state.                           *)
LEMMA IInvInvariant == Spec => []IInv
BY InitIInv, NextIInv, PTL DEF Spec

(* SecretsEncryptedOnDisk for every instance: whatever file an older       *)
(* version or a foreign machine left, after Config2::load and any run of   *)
(* set_socks, set_unlock_pin, set_nat_type, Config2::set and restarts, the *)
(* PIN and the socks password on disk are "", too long, or ciphertext.     *)
THEOREM SecretsEncryptedInvariant == Spec => []SecretsEncryptedOnDisk
<1>1. IInv => SecretsEncryptedOnDisk
  BY DEF IInv, Disk, SecretsEncryptedOnDisk
<1>2. QED
  BY <1>1, IInvInvariant, PTL

(* A restart changes no field of CONFIG2: what Config2::load reads back is *)
(* what the last store wrote.  Every other step leaves restarts alone.     *)
LEMMA RestartStep == IInv /\ [Next]_vars => [restarts' > restarts => mem' = mem]_vars
<1> SUFFICES ASSUME IInv, [Next]_vars, restarts' > restarts PROVE mem' = mem
  OBVIOUS
<1>1. restarts \in Nat
  BY DEF IInv, TypeOK
<1>2. ~(restarts' = restarts)
  BY <1>1
<1>3. Restart
  <2>1. ASSUME ~Restart PROVE restarts' = restarts
    <3>1. CASE \E s \in Socks \cup {NoSocks} : SetSocks(s)
      BY <3>1 DEF SetSocks
    <3>2. CASE \E p \in Pins : SetUnlockPin(p)
      BY <3>2 DEF SetUnlockPin
    <3>3. CASE \E n \in NatTypes : SetNatType(n)
      BY <3>3 DEF SetNatType
    <3>4. CASE \E t \in Setters : ConfigGet(t) \/ ConfigSet(t)
      BY <3>4 DEF ConfigGet, ConfigSet
    <3>5. CASE Terminating \/ UNCHANGED vars
      BY <3>5 DEF Terminating, vars
    <3>6. QED
      BY <2>1, <3>1, <3>2, <3>3, <3>4, <3>5 DEF Next
  <2>2. QED
    BY <1>2, <2>1
<1>4. QED
  BY <1>3 DEF Restart, IInv, Disk

(* RestartKeepsNetwork for every instance: Config2::store followed by     *)
(* Config2::load at the next start gives back CONFIG2, the socks password  *)
(* and PIN included, whatever codec version the file was first read with. *)
THEOREM RestartKeepsNetworkProperty == Spec => RestartKeepsNetwork
<1>1. [][IInv /\ [Next]_vars]_vars => [][restarts' > restarts => mem' = mem]_vars
  BY RestartStep, PTL
<1>2. QED
  BY IInvInvariant, <1>1, PTL DEF Spec, RestartKeepsNetwork

-----------------------------------------------------------------------------
(* What set_socks(Some s) leaves behind, until Config2::set writes the     *)
(* record: with no OVERWRITE proxy, CONFIG2.socks is s, or it is None and  *)
(* s is DEFAULT_SETTINGS' proxy (the early return of set_socks).           *)
SocksInv ==
    /\ last.op = "socks" => last.v \in Socks \cup {NoSocks}
    /\ (last.op = "socks" /\ last.v # NoSocks /\ OverwriteProxy.url = Absent)
          => \/ mem.socks = last.v
             \/ mem.socks = NoSocks /\ EqualToDefault(last.v)

LEMMA InitSocksInv == Init => SocksInv
BY DEF Init, SocksInv

LEMMA NextSocksInv == IInv /\ SocksInv /\ [Next]_vars => SocksInv'
<1> SUFFICES ASSUME IInv, SocksInv, [Next]_vars PROVE SocksInv'
  OBVIOUS
<1>0. mem \in Config2
  BY DEF IInv, TypeOK
<1>1. ASSUME NEW s \in Socks \cup {NoSocks}, SetSocks(s) PROVE SocksInv'
  <2>1. last' = [op |-> "socks", v |-> s]
    BY <1>1 DEF SetSocks
  <2>2. CASE s = NoSocks \/ OverwriteProxy.url # Absent
    BY <1>1, <2>1, <2>2 DEF SocksInv
  <2>3. CASE s # NoSocks /\ OverwriteProxy.url = Absent /\ mem.socks = s
    BY <1>1, <2>1, <2>3 DEF SetSocks, SocksInv
  <2>4. CASE s # NoSocks /\ OverwriteProxy.url = Absent /\ mem.socks = NoSocks /\ EqualToDefault(s)
    BY <1>1, <2>1, <2>4 DEF SetSocks, SocksInv
  <2>5. CASE ~(OverwriteProxy.url # Absent \/ mem.socks = s \/ (mem.socks = NoSocks /\ EqualToDefault(s)))
    <3>1. mem' = [mem EXCEPT !.socks = s]
      BY <1>1, <2>5 DEF SetSocks, Write
    <3>2. mem'.socks = s
      BY <1>0, <3>1 DEF Config2
    <3>3. QED
      BY <1>1, <2>1, <3>2 DEF SocksInv
  <2>6. QED
    BY <2>2, <2>3, <2>4, <2>5
<1>2. ASSUME NEW p \in Pins, SetUnlockPin(p) PROVE SocksInv'
  <2>1. mem'.socks = mem.socks
    BY <1>0, <1>2 DEF SetUnlockPin, Write, Config2
  <2>2. QED
    BY <1>2, <2>1 DEF SetUnlockPin, SocksInv
<1>3. ASSUME NEW n \in NatTypes, SetNatType(n) PROVE SocksInv'
  <2>1. mem'.socks = mem.socks
    BY <1>0, <1>3 DEF SetNatType, Write, Config2
  <2>2. QED
    BY <1>3, <2>1 DEF SetNatType, SocksInv
<1>4. ASSUME NEW t \in Setters, ConfigGet(t) PROVE SocksInv'
  BY <1>4 DEF ConfigGet, SocksInv
<1>5. ASSUME NEW t \in Setters, ConfigSet(t) PROVE SocksInv'
  <2>1. CASE mem = snap[t]
    BY <1>5, <2>1 DEF ConfigSet, SocksInv
  <2>2. CASE mem # snap[t]
    BY <1>5, <2>2 DEF ConfigSet, SocksInv
  <2>3. QED
    BY <2>1, <2>2
<1>6. ASSUME Restart PROVE SocksInv'
  <2>1. mem' = mem
    BY <1>6 DEF Restart, IInv, Disk
  <2>2. QED
    BY <1>6, <2>1 DEF Restart, SocksInv
<1>7. CASE Terminating \/ UNCHANGED vars
  BY <1>7 DEF Terminating, vars, SocksInv
<1>8. QED
  BY <1>1, <1>2, <1>3, <1>4, <1>5, <1>6, <1>7 DEF Next

(* get_socks_from_custom_client_advanced_settings on a DEFAULT proxy that  *)
(* set_socks found equal to s gives s back: every key is present, since    *)
(* a missing key never equals a field of s.                                 *)
LEMMA DefaultGivesBack ==
    ASSUME NEW s \in Socks, EqualToDefault(s)
    PROVE  FromSettings(DefaultProxy) = s /\ s # NoSocks
<1>1. s # NoSocks
  BY NoSocksAssumption, NetworkAssumption DEF Socks, SocksT
<1>2. DefaultProxy.url = s.proxy /\ DefaultProxy.username = s.username
      /\ DefaultProxy.password = s.password
  BY <1>1 DEF EqualToDefault
<1>3. DefaultProxy.url # Absent /\ DefaultProxy.username # Absent /\ DefaultProxy.password # Absent
  BY <1>2, NetworkAssumption DEF Socks, SocksT
<1>4. FromSettings(DefaultProxy) = [proxy |-> s.proxy, username |-> s.username, password |-> s.password]
  BY <1>2, <1>3 DEF FromSettings
<1>5. s = [proxy |-> s.proxy, username |-> s.username, password |-> s.password]
  BY DEF Socks, SocksT
<1>6. QED
  BY <1>1, <1>4, <1>5

LEMMA SocksInvGet == IInv /\ SocksInv => SocksSetThenGet
<1> SUFFICES ASSUME IInv, SocksInv, last.op = "socks", last.v # NoSocks, OverwriteProxy.url = Absent
             PROVE  GetSocks = last.v
  BY DEF SocksSetThenGet
<1>1. last.v \in Socks
  BY DEF SocksInv
<1>2. FromSettings(OverwriteProxy) = NoSocks
  BY DEF FromSettings
<1>3. CASE mem.socks = last.v
  BY <1>2, <1>3 DEF GetSocks
<1>4. CASE mem.socks = NoSocks /\ EqualToDefault(last.v)
  <2>1. FromSettings(DefaultProxy) = last.v
    BY <1>1, <1>4, DefaultGivesBack
  <2>2. QED
    BY <1>2, <1>4, <2>1 DEF GetSocks
<1>5. QED
  BY <1>3, <1>4 DEF SocksInv

(* SocksSetThenGet for every instance: after set_socks(Some s) with no     *)
(* OVERWRITE proxy, get_socks returns s, through set_unlock_pin,           *)
(* set_nat_type, Config2::get and restarts, until Config2::set writes a    *)
(* record, including when set_socks returned early because DEFAULT's       *)
(* proxy is s.                                                              *)
THEOREM SocksSetThenGetInvariant == Spec => []SocksSetThenGet
<1>1. Init => IInv /\ SocksInv
  BY InitIInv, InitSocksInv
<1>2. IInv /\ SocksInv /\ [Next]_vars => (IInv /\ SocksInv)'
  BY NextIInv, NextSocksInv
<1>3. QED
  BY <1>1, <1>2, SocksInvGet, PTL DEF Spec
====
