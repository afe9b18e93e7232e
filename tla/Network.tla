------------------------------ MODULE Network ------------------------------
(***************************************************************************)
(* The secret-bearing fields of CONFIG2 in src/config.rs: socks (with its  *)
(* password) and unlock_pin, with nat_type beside them, under             *)
(* Config2::load and store, set_socks, get_socks, set_unlock_pin,          *)
(* set_nat_type, Config2::get/set, and a restart.  The proxy keys of       *)
(* OVERWRITE_SETTINGS and DEFAULT_SETTINGS are constants (filled before    *)
(* any call).  Each writer stores under CONFIG2.write(), so a call is one  *)
(* step.                                                                   *)
(***************************************************************************)
EXTENDS Codec, Naturals

CONSTANTS
    Proxies, Users, ProxyPwds, Pins, NatTypes,
    NoSocks,            \* None
    Absent,             \* a key missing from a settings map
    OverwriteProxy,     \* OVERWRITE_SETTINGS on proxy-url, proxy-username, proxy-password
    DefaultProxy,       \* DEFAULT_SETTINGS on the same keys
    InitFiles,          \* <app>2.toml at the first start
    Setters,            \* callers of Config2::get then Config2::set
    MaxOps, MaxRestarts

ProxyMap == [url : Proxies \cup {Absent}, username : Users \cup {Absent}, password : ProxyPwds \cup {Absent}]

(* Socks5Server, with its password of type P.                              *)
SocksT(P) == [proxy : Proxies, username : Users, password : P]

Socks == SocksT(ProxyPwds)

(* <app>2.toml as the models see it: the stored socks and PIN fields.      *)
FileT == [socks : SocksT(Field) \cup {NoSocks}, pin : Field, nat : NatTypes]

ASSUME NetworkAssumption ==
    /\ "" \in Users /\ "" \in ProxyPwds /\ "" \in Pins
    /\ ProxyPwds \cup Pins \subseteq Strings
    /\ OverwriteProxy \in ProxyMap /\ DefaultProxy \in ProxyMap
    /\ Absent \notin Proxies \cup Users \cup ProxyPwds
    /\ MaxOps \in Nat /\ MaxRestarts \in Nat

(* None is no Socks5Server, whatever its password field holds.            *)
ASSUME NoSocksAssumption == NoSocks \notin SocksT(Field \cup Strings \cup {NoPlain})

ASSUME InitFilesAssumption == InitFiles \subseteq FileT

VARIABLES
    file,       \* <app>2.toml: socks (password as stored), unlock_pin as stored, nat_type
    mem,        \* CONFIG2
    snap, pc,   \* per setter: the Config2::get snapshot, and whether a set is due
    last,       \* history: the last call
    opsLeft, restarts

vars == <<file, mem, snap, pc, last, opsLeft, restarts>>

(* Config2::store: socks.password and unlock_pin through the codec.        *)
Store2(c) ==
    [socks |-> IF c.socks = NoSocks THEN NoSocks ELSE [c.socks EXCEPT !.password = EncryptStr(@)],
     pin   |-> EncryptStr(c.pin),
     nat   |-> c.nat]

(* Mutant: a load that never stores the fields it had to rewrite.        *)
LoadNoRewrite(f) ==
    LET dp == IF f.socks = NoSocks THEN DecryptStr(Plain("")) ELSE DecryptStr(f.socks.password)
        dn == DecryptStr(f.pin)
    IN  [mem |-> [socks |-> IF f.socks = NoSocks THEN NoSocks ELSE [f.socks EXCEPT !.password = dp.plain],
                  pin |-> dn.plain, nat |-> f.nat],
         file |-> f]

(* Mutant: a load that trusts the PIN only when it decrypted (as         *)
(* Config::load does for the id).                                          *)
LoadPinIfEncrypted(f) ==
    LET dp == IF f.socks = NoSocks THEN DecryptStr(Plain("")) ELSE DecryptStr(f.socks.password)
        dn == DecryptStr(f.pin)
        c  == [socks |-> IF f.socks = NoSocks THEN NoSocks ELSE [f.socks EXCEPT !.password = dp.plain],
               pin   |-> IF dn.encrypted THEN dn.plain ELSE "",
               nat   |-> f.nat]
    IN  [mem |-> c, file |-> IF (f.socks # NoSocks /\ dp.rewrite) \/ dn.rewrite THEN Store2(c) ELSE f]

(* Config2::load: decrypt the two fields; store again when either asked.   *)
Load2(f) ==
    LET dp == IF f.socks = NoSocks THEN DecryptStr(Plain("")) ELSE DecryptStr(f.socks.password)
        dn == DecryptStr(f.pin)
        c  == [socks |-> IF f.socks = NoSocks THEN NoSocks ELSE [f.socks EXCEPT !.password = dp.plain],
               pin   |-> dn.plain,
               nat   |-> f.nat]
    IN  [mem |-> c, file |-> IF (f.socks # NoSocks /\ dp.rewrite) \/ dn.rewrite THEN Store2(c) ELSE f]

(* get_socks_from_custom_client_advanced_settings.                        *)
FromSettings(m) ==
    IF m.url = Absent THEN NoSocks
    ELSE [proxy    |-> m.url,
          username |-> IF m.username = Absent THEN "" ELSE m.username,
          password |-> IF m.password = Absent THEN "" ELSE m.password]

(* Config::get_socks: OVERWRITE, then CONFIG2.socks, then DEFAULT.         *)
GetSocks ==
    IF FromSettings(OverwriteProxy) # NoSocks THEN FromSettings(OverwriteProxy)
    ELSE IF mem.socks # NoSocks THEN mem.socks
    ELSE FromSettings(DefaultProxy)

(* Mutant: the default comparison without the password.                   *)
EqualToDefaultNoPwd(s) ==
    LET v == IF s = NoSocks THEN [proxy |-> "", username |-> "", password |-> ""] ELSE s
    IN  DefaultProxy.url # Absent /\ DefaultProxy.url = v.proxy /\ DefaultProxy.username = v.username

(* set_socks' refusal of a first proxy equal to the default one: every     *)
(* field equal to a DEFAULT entry that exists (None reads as all "").      *)
EqualToDefault(s) ==
    LET v == IF s = NoSocks THEN [proxy |-> "", username |-> "", password |-> ""] ELSE s
    IN  /\ DefaultProxy.url # Absent /\ DefaultProxy.url = v.proxy
        /\ DefaultProxy.username = v.username /\ DefaultProxy.password = v.password

Init ==
    /\ \E f0 \in InitFiles : mem = Load2(f0).mem /\ file = Load2(f0).file
    /\ snap = [t \in Setters |-> mem] /\ pc = [t \in Setters |-> "idle"]
    /\ last = [op |-> "none"]
    /\ opsLeft = MaxOps /\ restarts = 0

Write(c) == mem' = c /\ file' = Store2(c)

Call == opsLeft > 0 /\ opsLeft' = opsLeft - 1

(* Config::set_socks(s): nothing under an OVERWRITE proxy, nothing when   *)
(* unchanged, nothing for a first proxy equal to DEFAULT's; else store.   *)
SetSocks(s) ==
    /\ Call
    /\ IF OverwriteProxy.url # Absent \/ mem.socks = s \/ (mem.socks = NoSocks /\ EqualToDefault(s))
       THEN UNCHANGED <<mem, file>>
       ELSE Write([mem EXCEPT !.socks = s])
    /\ last' = [op |-> "socks", v |-> s]
    /\ UNCHANGED <<snap, pc, restarts>>

(* Config::set_unlock_pin(p).                                              *)
SetUnlockPin(p) ==
    /\ Call
    /\ IF mem.pin = p THEN UNCHANGED <<mem, file>> ELSE Write([mem EXCEPT !.pin = p])
    /\ UNCHANGED <<snap, pc, last, restarts>>

(* Config::set_nat_type(n).                                                *)
SetNatType(n) ==
    /\ Call
    /\ IF mem.nat = n THEN UNCHANGED <<mem, file>> ELSE Write([mem EXCEPT !.nat = n])
    /\ UNCHANGED <<snap, pc, last, restarts>>

(* Config2::get: a clone under the read guard; the caller edits it.        *)
ConfigGet(t) ==
    /\ pc[t] = "idle" /\ Call
    /\ \E n \in NatTypes : snap' = [snap EXCEPT ![t] = [mem EXCEPT !.nat = n]]
    /\ pc' = [pc EXCEPT ![t] = "set"]
    /\ UNCHANGED <<mem, file, last, restarts>>

(* Config2::set(cfg): store it unless equal to CONFIG2.                    *)
ConfigSet(t) ==
    /\ pc[t] = "set"
    /\ IF mem = snap[t] THEN UNCHANGED <<mem, file, last>>
       ELSE Write(snap[t]) /\ last' = [op |-> "set"]
    /\ pc' = [pc EXCEPT ![t] = "idle"]
    /\ UNCHANGED <<snap, opsLeft, restarts>>

(* The process restarts between calls: CONFIG2 is Config2::load().        *)
Restart ==
    /\ restarts < MaxRestarts /\ \A t \in Setters : pc[t] = "idle"
    /\ restarts' = restarts + 1
    /\ mem' = Load2(file).mem /\ file' = Load2(file).file
    /\ UNCHANGED <<snap, pc, last, opsLeft>>

Terminating ==
    /\ opsLeft = 0 /\ \A t \in Setters : pc[t] = "idle"
    /\ UNCHANGED vars

Next ==
    \/ \E s \in Socks \cup {NoSocks} : SetSocks(s)
    \/ \E p \in Pins : SetUnlockPin(p)
    \/ \E n \in NatTypes : SetNatType(n)
    \/ \E t \in Setters : ConfigGet(t) \/ ConfigSet(t)
    \/ Restart
    \/ Terminating

Spec == Init /\ [][Next]_vars

-----------------------------------------------------------------------------
(* Config2 in memory: a secret that did not decrypt is kept as it was read. *)
Config2 == [socks : SocksT(Strings \cup {NoPlain}) \cup {NoSocks}, pin : Strings \cup {NoPlain}, nat : NatTypes]

TypeOK ==
    /\ file \in FileT /\ mem \in Config2 /\ snap \in [Setters -> Config2]
    /\ pc \in [Setters -> {"idle", "set"}]
    /\ opsLeft \in Nat /\ restarts \in Nat

(* A stored secret field is plain text only when it is "" or too long.     *)
Sealed(x) == x.kind = "plain" => x.v = "" \/ x.v \in Long

SealedFile(f) == Sealed(f.pin) /\ (f.socks # NoSocks => Sealed(f.socks.password))

(* Spec 4.2 and 7: on disk, the unlock PIN and the socks password are      *)
(* never a short non-empty plaintext, whatever file an older version left  *)
(* and whatever sequence of setters, Config2::set and restarts follows.    *)
SecretsEncryptedOnDisk == SealedFile(file)

(* Spec 4.2 round trip: a restart (Config2::store then Config2::load)      *)
(* gives back the CONFIG2 the process had, socks password and PIN included. *)
RestartKeepsNetwork == [][restarts' > restarts => mem' = mem]_vars

(* After set_socks(Some s) with no OVERWRITE proxy, get_socks returns s    *)
(* until Config2::set writes the record, even when set_socks declined to   *)
(* store s because DEFAULT_SETTINGS already names it, and across restarts. *)
SocksSetThenGet ==
    (last.op = "socks" /\ last.v # NoSocks /\ OverwriteProxy.url = Absent) => GetSocks = last.v
====
