# Formal models of the configuration store (`src/config.rs`)

This directory holds TLA+ models of the configuration store in
`src/config.rs`, TLC configurations that model-check them on small
instances, and TLAPS proofs of their main safety properties for all sizes.
`PROJECT.json` lists:

- the components;
- the runs, with the mutants that show each passing property can fail;
- the map from every TLA+ definition to the source lines it translates;
- the findings;
- the hazards;
- the theorems.

## 1. The system

`config.rs` keeps every durable setting of the application in process-wide
singletons (`lazy_static`). Each singleton sits behind a lock, and each has a
TOML file under the config directory:

| singleton | lock | file | content |
|---|---|---|---|
| `CONFIG` | RwLock | `<app>.toml` | identity: id/enc_id, permanent password, salt, key pair |
| `CONFIG2` | RwLock | `<app>2.toml` | network: rendezvous server, NAT type, serial, socks, unlock PIN, options, `trusted_devices` |
| `LOCAL_CONFIG` | RwLock | `<app>_local.toml` | UI state, local options |
| `STATUS` | RwLock | `<app>_status.toml` | transient status map |
| `TRUSTED_DEVICES` | RwLock | — | cache of the decrypted trusted-devices list plus a *synced* flag |
| `ONLINE` | Mutex | — | latency per rendezvous host |
| `KEY_PAIR` | Mutex | — | key pair slot, filled once per process |
| `USER_DEFAULT_CONFIG` | RwLock | `<app>_default.toml` | display defaults, with the time of the last read |
| `NEW_STORED_PEER_CONFIG` | Mutex | — | ids stored during this run |

Other files:

- Peer records (`PeerConfig`) live one file per peer under `peers/`.
- The address book and group book (`Ab`, `Group`) are compressed and
  encrypted blobs.
- `LanPeers` is a plain file.

**Interactions.** Every mutation takes the singleton's write guard, changes
it, and calls `store()` before the guard drops. The file therefore equals the
singleton at every point where another thread can look; the spec (§5) only
asks that stores happen without the lock, so the code is stricter than the
spec here. The public calls compose singletons without a common lock:

- `set_permanent_password` holds `CONFIG.write()` while it clears the trusted
  devices in `CONFIG2`.
- `get_rendezvous_server` reads `EXE_RENDEZVOUS_SERVER`, then `CONFIG2`'s
  options, then `PROD_RENDEZVOUS_SERVER`, then `CONFIG2` again.
- `update_latency` moves from `ONLINE` to `CONFIG2`.
- `get_key_pair` holds `KEY_PAIR` and hands the write of `CONFIG` to a new
  thread.

### Hard behaviours of this code

These are listed with their lines in `PROJECT.json` under `hazards`:

- **Read-modify-write without a lock held across.** Affects
  `add_trusted_device` and `remove_trusted_devices`, `get_id` and `get_salt`
  on first use, `update_latency`, and `Config::set`/`Config2::set` from a
  snapshot.
- **A cache filled after its guard was dropped.** `get_trusted_devices` does
  this with `TRUSTED_DEVICES`. `USER_DEFAULT_CONFIG` serves a copy up to 1 s
  old.
- **Two files written one after the other.** The password is stored, then
  the trusted devices are cleared, so a crash in between matters.
- **Encoding round trips.** Peer ids are base64-encoded in file names; option
  maps drop defaults and empty values; a peer file skips empty display
  strings, which load replaces by the user's current default.
- **One bad field, whole record lost.** Two peer-field decoders propagate a
  type error with `?`, so a single malformed field makes `PeerConfig::load`
  return the default record.

### Correctness properties, by component

- **Trusted devices:**
  - no duplicate hwid in any list;
  - a synced cache equals the file;
  - a password change revokes every earlier trust (spec §4.6).
- **Option resolver:**
  - precedence OVERWRITE > stored > DEFAULT (spec §3, invariant vii);
  - set-then-get (spec §8);
  - purify leaves nothing a single `set_option` would refuse.
- **Rendezvous selection:** the stored host is the one with the least
  positive latency once measurements stop; lookup order (spec §4.7).
- **Identity:**
  - one key pair per process, and the stored one equals the one handed out;
  - one salt and one id, whichever caller was first;
  - the on-disk `id` is empty after load (spec §3, invariant ii).
- **Peer store:** the listing recovers every stored id (spec §8 scenario 5);
  only stale peers are deleted; once no call is under way, each peer file
  holds what the last store or remove of it left.
- **Network record:** the unlock PIN and the socks password are never short
  plaintext on disk (spec §4.2); a restart gives back the record; `get_socks`
  reads back `set_socks`.
- **Peer decode:** a loaded trackpad speed and custom quality are in range
  (spec §3 iv); load(store(v)) = v up to defaults (spec §8); a malformed
  field yields that field's default (spec §4.1).
- **Address book:** a load returns what the last completed store left
  (spec §4.4, §5, §7.3).
- **Status:** `Status::set` is linearizable and returns.

## 2. Modules

Each component has a module with its state as `VARIABLES`, `Init`, one
action per operation (cut where the code drops a guard), `Next` and `Spec`;
an `MC...` module gives its constants values for TLC. Proofs live in
`...Proofs` modules, or in a last section of `PeerDecode` and `Identity`.

| module | models (lines of `src/config.rs`) |
|---|---|
| `Codec` | `encrypt_str_or_original` / `decrypt_str_or_original` (not under `src/`; from spec §4.2): a field is `Plain(s)` or `Cipher(s, ver)`; `""` and text over 128 bytes stay plain; a ciphertext of another machine does not decrypt and comes back unchanged, asking for a rewrite |
| `TrustedDevices` | `get/set/add/remove/clear_trusted_devices`, `TrustedDevice::outdate`, `set_permanent_password`, `Config2::get/set`, crash and restart (719-733, 1307-1323, 1470-1522, 2524-2537) |
| `Identity` | `Config::load` (808-851) and `store`, `get_id` / `set_id` / `update_id`, `get_salt` / `set_salt`, `get_key_pair` with `KEY_PAIR` and its spawned write, `Config::get/set`, restart |
| `Network` | `Config2::load/store` (680-715), `Config2::get/set`, `set_socks` / `get_socks` (1353-1424), `set_unlock_pin`, `set_nat_type`, restart |
| `Resolver` | the option resolver shared by every family: `get_or`, `is_option_can_save`, insert-or-remove, `option2bool` |
| `Options` | `CONFIG2.options`: `get_option`, `get_options`, `set_option`, `set_options` with `purify_options` |
| `LocalConfig` | `LOCAL_CONFIG`: remote id, keyboard layout, `set_size` (300 limit), favourites, local options, flutter UI map |
| `UserDefaultConfig` | `USER_DEFAULT_CONFIG`: the one-second copy, `read`, `get` with its validation, `set` |
| `PeerDecode` | PeerConfig's `Deserialize` for one field of each decoder kind (421-460, 515-523, 608-615), the default functions that read `USER_DEFAULT_CONFIG` (1781-1865, 283-303), `PeerConfig::default` (560-599), `load` (1552-1583) and `store` with `skip_serializing_if` (1587-1605); it extends `UserDefaultConfig` |
| `StatusSpec`, `Status` | the atomic map `Status` promises, and `Status::get/set` with its check under the read guard and write under the write guard; `Status` refines `StatusSpec` |
| `Latency` | `ONLINE`, `update_latency`, `reset_online`, `set_serial`, `get_rendezvous_server(s)` |
| `PeerStore` | `PeerConfig::path` (base64 of ids with forbidden characters), `load` (password upgrade), `store`, `remove`, the directory listing and `batch_peers` with its delete of empty-platform peers |
| `AddressBook` | `Ab::store` (create, 64 MiB check, write), `Ab::load` (remove on any failure), `Ab::remove`; `Group` is the same code |
| `TrustedDevicesProofs`, `OptionsProofs`, `NetworkProofs` | TLAPS proofs (section 5); `OptionsProofs` also proves the `Status` refinement, of a named instance `St == INSTANCE Status`; `PeerDecode` and `Identity` end with their own |

### How state and actions correspond to the code

**Persistence.** Every writer changes the singleton under its write guard and
calls `store()` before the guard drops. So the models keep one variable for
memory and disk where they agree at every step boundary (`Options`,
`LocalConfig`, `Status`, `Latency`). They keep two (`file` and `mem`/`cfg`)
where a load transforms what it reads (`Identity`, `Network`) or where a
crash or another process can separate them (`TrustedDevices`,
`UserDefaultConfig`, `AddressBook`, `PeerStore`).

**Peer decode.** `PeerDecode` composes one peer file (`peerFile`) and the
session's `PeerConfig` (`mem`) with `UserDefaultConfig`'s file and copy.
- A file field is a value, `Missing` or `Bad` (another TOML type). Five
  fields stand for the five decoder kinds: `view` for the
  `serde_field_string!` fields, `cursor` for the `serde_field_bool!`
  wrappers, `track` and `qual` for the two range-checked numbers, and
  `platform` for `info.platform`.
- `LoadPeer` is the whole of `PeerConfig::load`. It reloads the copy if it
  is due (every default function calls `read`), returns `DefaultPeer` when
  the file is absent or `DecodeFails` (a `Bad` number), and otherwise
  applies each field's decoder.
- `StorePeer(e)` applies one session edit (or none) and writes `Serialize`,
  which drops an empty string and an empty list, as `skip_serializing_if`
  does.
- `src` and `stored` are history variables that the properties read.

**Identity.**
- `Load` translates `Config::load`: decrypt `enc_id`; else trust a legacy
  plain `id` and store; else `gen_id`, storing only if it succeeded.
- `Store` blanks `id` and encrypts `enc_id`.
- `GetIdRead`/`IdGen` split `get_id` where it drops the read guard and
  generates with no guard held. `GetSaltRead`/`SaltGen` do the same for
  `get_salt`.
- `GetKeyPair` is one step under `KEY_PAIR`: it reads the *file* (`load_`)
  and hands out a new pair. `SpawnedWrite` is the spawned thread's
  `Config::set_key_pair`.
- `ConfigGet`/`ConfigSet` are a snapshot and a whole-record write.
- `Restart` loses memory, the slot and pending spawned writes, then loads.
- `GenMayFail` says that `gen_id` can fail on desktop (no MAC address yet).
  On mobile it always succeeds, which makes `get_id`'s generate branch
  unreachable there.

**Network.**
- `Load2`/`Store2` translate `Config2::load/store` over the codec.
- `SetSocks` keeps all three early returns of `set_socks`:
  - an OVERWRITE proxy;
  - the value is unchanged;
  - a first proxy equal to DEFAULT's.
- `GetSocks` is OVERWRITE, then `CONFIG2.socks`, then DEFAULT.
- `ConfigGet` takes a snapshot that the caller edits; `ConfigSet` writes it
  back unless it is equal.

**PeerStore.**
- The directory is a map from file names (`Name(id)`) to contents.
- `Listed` says which files the scan sees: none in a subdirectory, none
  named `.toml`. `DecodeName` says which id it recovers from a stem.
- `List` reads the directory and takes `batch_peers`' range.
- `PeerConfig::load` is two steps: `LoadPeer` reads the file, and when the
  record needs a rewrite (a password upgrade, or an empty platform over
  a known one) `LoadRewrite` stores the record it read (1570), after
  whatever other callers did in between. `ld` holds the pending record.
- `BatchLoad` loads one entry the same way (`BatchRewrite` is its store).
  `BatchRemove` deletes the *listed* path of an entry whose platform was
  empty. Stores, loads and removes from connection threads fall in
  between, because no lock is held across a listing.
- `last` is a history variable: per file name, what the last store or
  remove left.

**AddressBook.**
- `StoreCreate` truncates the file (a new inode if it was missing) and stops
  there for an oversize blob.
- `StoreWrite` writes through the handle from offset 0. The blob is lost if
  the inode was unlinked meanwhile (POSIX). Over what another handle wrote
  (`Overwrite`), a blob of the same or greater length replaces it; a
  shorter one leaves a torn file, which the model calls `Empty` (it loads
  as nothing valid).
- `LoadRead` reads; a missing file, or one that does not decode, sends the
  load on to `LoadRemove`, the two halves of `Ab::load`.
- A crash is added only by `MCAddressBook` (`NextWithCrash`).

**TrustedDevices.** See the state table in `TrustedDevices.tla`'s header.
`GetReadCache`, `GetReadConfig2` and `GetFillCache` are the three guarded
parts of `get_trusted_devices`. `set_trusted_devices` is `SetPrune` (the
size check and the prune, no guard held) and `SetWriteConfig2` (the store
and the cache fill under `CONFIG2.write()`). An add's device is stamped
with the password epoch `ep` when its `get_trusted_devices` returns, the
moment the add has read the list it will write back. `SetPermanentPassword` stores the password and clears the list
with `CONFIG.write()` held. `Crash` keeps the files and loses the rest.

## 3. Runs

`PROJECT.json` lists twelve runs: six passing runs and six violation runs.
The other counterexamples have a configuration each (section 4). Every
passing run fires every action and every disjunct of its module's `Next`,
and checks deadlock.

| run | cfg | checks | what it shows |
|---|---|---|---|
| `td_safety` | `MCTrustedDevices_safety` | `NoDuplicateHwid` | Two threads run every trusted-devices call, `Config2::set`, password changes (one of them the hard password, which returns early), the clock past one expiry, the 1 MiB refusal (`MaxTrusted = 1`) and a crash. No list (file, cache, or any thread's copy) ever holds two entries of one hwid, although an add's read, retain and push and a set's prune and store interleave with every other call. |
| `td_revoke_race` | `MCTrustedDevices_revoke_race` | `TrustRevokedOnPasswordChange` (violation) | An add reads the list and pushes a device before a password change; the change clears the list; the add's store writes the pre-change device back. |
| `opt_safety` | `MCOptions_safety` | `StoredPurified`, `RoundTrip` | Any mix of `set_option` and `set_options` leaves no entry that `set_option` would refuse. `set_options(get_options())` changes no `get_option`. |
| `local_setget` | `MCLocalConfig_setget` (run) | `LocalSetThenGet` (violation) | `set_option("lang", "default")` stores `""`, so `get_option` does not return what was set. |
| `display_peer_decode` | `MCPeerDecode` | `PeerNumbersValid`, `RoundTrip` | `UserDefaultConfig::set` (with out-of-range values), reads through the copy or a reload, and load/store of a peer file that starts absent, good, or with an empty view, a `Bad` flag and out-of-range numbers, edited between stores. A loaded trackpad speed and custom quality are in range. Loading what `store` wrote gives back every field except those that load replaces by its default. |
| `status_refines` | `MCStatus` | `AbsFairSpec` | `Status::set` with its two guards implements the atomic map under fair scheduling: each call takes effect once and returns. |
| `id_safety` | `MCIdentity_safety` | `OnDiskIdEmpty`, `IdSurvivesRestart` | From a fresh, legacy, current or foreign `<app>.toml`, through every identity call and a restart: the on-disk `id` stays blank and a restart keeps the id. |
| `peer_rewrite` | `MCPeerStore_rewrite` | `LastWriteWins` (violation) | A `PeerConfig::load` that must rewrite the record stores what it read after a concurrent `store`: the newer record is lost. |
| `ab_writes` | `MCAddressBook_writes` | `AbKept` (violation) | Two `Ab::store` calls write through two handles of one inode; the shorter blob, written last, leaves a torn file that the next load deletes. |
| `ab_race` | `MCAddressBook_race` | `AbKept` (violation) | A load between a store's create and its write deletes the file; the write goes to the unlinked inode. |
| `lat_race` | `MCLatency_race` (run) | `BestStoredWhenQuiet` (violation) | Two overlapping `update_latency` calls: the one that scanned first writes last, and a worse host stays stored. |
| `net_safety` | `MCNetwork_safety` | `SecretsEncryptedOnDisk`, `SocksSetThenGet`, `RestartKeepsNetwork` | From no file, an older plaintext file, a current one or one encrypted on another machine, through every network setter, `Config2::get/set` and a restart: the PIN and socks password are never short plaintext on disk, a restart gives back `CONFIG2`, and `get_socks` returns what `set_socks` was given, even when `set_socks` declined to store a default proxy. |

**Mutants.** `PROJECT.json` names, for each property of a passing run, a
plausible bug in one mapped definition that makes TLC find the property
violated under the run's own configuration:

- an add that does not drop the old entry of the same hwid;
- `purify_options` keeping every entry;
- `get_options` merging the defaults last;
- a trackpad-speed decoder without the lower bound;
- `store` skipping a `false` flag;
- `Status::set`'s check inverted;
- `Config::load` keeping the legacy id field;
- `Config::store` writing the id in plain;
- `Config2::load` not storing what it had to rewrite;
- `Config2::load` trusting the PIN only when it decrypted (as `Config::load`
  does for the id);
- `set_socks` comparing with the default without the password.

**Bounds.**

- Every counterexample in this project needs at most two threads and three
  calls. The bounds (`MaxOps`, `MaxCrashes`, `MaxRestarts`) allow exactly
  that.
- Value sets have two elements where a property compares values, plus `""`
  where `""` is special: the codec, `set_option`, the platform of a peer.
- The codec's `Long` set holds one value over 128 bytes where the run is
  about the length rule.
- `MCPeerStore` lists with every `from`/`to` up to the length of the
  listing, so empty, partial and full batches all happen.
- `MCPeerDecode` gives each numeric key one user value just outside its
  range ("9", "4096"), and the peer file values 5, 100 and 1001 and the lists
  `<<>>`, `<<5>>` and `<<50>>`. Every range check is crossed on both sides,
  and every skip rule of `store` fires. One value per key keeps the composed
  state space near 400 000 states.
- Views drop the locals of idle callers, which every call writes before it
  reads them.
- Symmetry is used only in `td_safety`, and only over interchangeable
  threads and hwids.
- Bounded runs end in a `Terminating` step. It only stutters once the
  operation budget is spent and every call has returned, so a caller stuck
  mid-call is still reported as a deadlock.

**Fairness.** Only `status_refines` assumes fairness: weak fairness of each
thread's next step inside a call. The OS scheduler runs every runnable
thread, and no guard in these paths is held forever, so each such step is
eventually taken while it stays enabled. The start of a call is never
fair: callers may stop calling.

## 4. Findings

Each row below is a counterexample that TLC finds for a property stating
what the spec (or a comment) says of the code. `PROJECT.json` gives the line
and the full explanation. Reproduce one with
`tlc -workers 2 -config <cfg> <MC module>`.

| cfg | property | what the code does |
|---|---|---|
| `MCTrustedDevices_revoke_race` (run) | `TrustRevokedOnPasswordChange` | An add that read the list before a password change writes a pre-change device into the cleared list (1508). |
| `MCTrustedDevices_revoke_crash` | `TrustRevokedOnPasswordChange` | A crash between the password store and the clear keeps the old trust (1321). |
| `MCTrustedDevices_config2_revives` | `TrustRevokedOnPasswordChange` | A `Config2::get/set` pair spanning a password change restores the cleared list (730). |
| `MCTrustedDevices_cache_race` | `CacheCoherent` | The cache is filled from a read made before a concurrent clear, flagged synced, and never re-read (1485). |
| `MCOptions_setget` | `SetThenGet` | `set_option(k, "")` removes `k`, so `get_option` returns the default, not `""` (1287; spec gap). |
| `MCLocalConfig_setget` (run) | `LocalSetThenGet` | `set_option("lang", "default")` stores `""` (2064). |
| `MCLatency_race` (run) | `BestStoredWhenQuiet` | Overlapping `update_latency` calls: the first to scan writes last, so a worse host stays stored (1054). |
| `MCLatency_lookup` | `LookupOrder` | With `serial > SERIAL`, the fallback is the option's first entry, not the first built-in server (1001). |
| `MCIdentity_idclobber` | `IdAgreed` | `get_id` generates with no guard held, then overwrites a concurrent `set_id` / `update_id` (1231). |
| `MCIdentity_salt` | `SaltAgreed` | Two first `get_salt` callers each return their own salt; only one is stored (1348). |
| `MCIdentity_kpcrash` | `KeyPairStable` | A restart before the spawned key-pair write: the pair handed out is never stored (1207). |
| `MCIdentity_kpsnap` | `KeyPairStable` | A `Config::set` snapshot from before the spawned write drops the key pair (1533). |
| `MCIdentity_longid` | `IdSurvivesRestart` | An id over 128 bytes is stored plain in `enc_id`, then discarded and regenerated at the next start (817). |
| `MCPeerStore_race` | `PeerKept` | A store between `batch_peers`' load and its delete is deleted (1768). |
| `MCPeerStore_prefix` | `PeerKept` | An id starting with `base64_` is decoded to another id, loads as empty, and its file is deleted (1662). |
| `MCPeerStore_slash` | `EveryPeerListable` | A standard-alphabet base64 name with `/` puts the file in a subdirectory that the scan skips (1617). |
| `MCAddressBook_truncate` | `AbKept` | `Ab::store` truncates before the 64 MiB check and before the write. A refused store, or a crash in between, leaves an empty file that the next load deletes (2365). TLC reports the refusal, the shorter path. |
| `MCPeerDecode_malformed` | `TolerantDecode` | A `trackpad-speed` of another TOML type fails the whole decode (`?` at 1858, also 1823). `load` returns `PeerConfig::default()`, so the platform is lost and `batch_peers` would delete the peer (spec §4.1). |
| `MCAddressBook_race` (run) | `AbKept` | A load between a store's create and its write removes the file, and the write goes to the unlinked inode. A load whose open failed on a missing file removes one a store has just created the same way (2380-2390). |
| `MCAddressBook_writes` (run) | `AbKept` | Two stores write through two handles from offset 0; a shorter blob over a longer one leaves a torn file that the next load deletes (2374). |
| `MCPeerStore_rewrite` (run) | `LastWriteWins` | `PeerConfig::load` stores the record it read when it must rewrite it; a `store` in between is overwritten (1570). |

## 5. Proofs

Five modules hold TLAPS proofs, valid for every value of the constants
that the module's `ASSUME` allows (and, where a theorem says so, its own
hypotheses). `PeerDecode` and `Identity` hold theirs in a last section of
the component module itself. Each inductive invariant was first checked by
TLC as an invariant of the corresponding run.

**`TrustedDevicesProofs`:**
- `TypeCorrect`: `Spec => []TypeOK`.
- `NoDuplicateHwidInvariant`: `Spec => []NoDuplicateHwid`.
  - The inductive invariant is `TypeOK /\ NoDuplicateHwid`.
  - `NoDuplicateHwid` already covers every thread's copy (`got`, `loc`,
    `snap`). These copies are what the file and the cache are later
    written from, so only the types must be added to make it inductive.
  - Three lemmas on the list operators carry the argument:
    - pruning yields a subset;
    - a subset of a duplicate-free list is duplicate-free;
    - retain-then-push keeps the list duplicate-free.
  - `SetPrune` only filters a list, and `SetWriteConfig2` stores the
    pruned list; an add's store writes a list whose pushed entry is
    `Stamp(t)`, of the same hwid as the device it was given.

**`OptionsProofs`:**
- `StoredPurifiedInvariant`: the inductive invariant is
  `TypeOK /\ StoredPurified`.
  - Lemma `PurifyOptionsPurified`: `purify_options` returns a purified map.
  - `set_option` inserts only what `is_option_can_save` allows, and removes
    otherwise.
- `RoundTripProperty`: `set_options(get_options())` leaves every
  `get_option` unchanged.
  - It rests on `StoredPurified`: a purified stored map merged with the
    defaults and overwrites purifies back to itself, key by key (lemma
    `RoundTripKey`).

**`OptionsProofs`, `Status` part:** stated of `St == INSTANCE Status`,
whose constants and variables `OptionsProofs` declares. `Status`'s `ASSUME`
(`NoReq`, the empty call slot, is no call) is each theorem's hypothesis
`StatusNoReq`. TLC evaluates the `ASSUME` itself on `MCStatus`.
- `StatusTypeCorrect`.
- `StatusImplementsSpec`: `St!Spec => St!Abs!Spec`, with
  `values <- [k |-> Get(k)]` and `pend <- req`.
  - Every step maps to an abstract step or a stutter. The early return and
    the write are the two points where a call takes effect.
  - An absent key and `""` read the same, which is why the early return
    refines an abstract write.

**`NetworkProofs`:** from `CodecAssumption`, `NetworkAssumption`,
`NoSocksAssumption` (None is no socks record) and `InitFilesAssumption`
(the first file is well typed; its fields may be plaintext, current or
foreign ciphertext).
- Codec lemmas:
  - `DecryptEncrypt`: decrypting what was encrypted gives the text back,
    for every text (the unreadable `NoPlain` included);
  - `EncryptSealed`: what is encrypted is sealed;
  - `DecryptField`: a field that asks for no rewrite is sealed already.
- `StoreThenLoad`: `Config2::store` of any record of `Config2` writes a
  well-typed sealed file, and `Config2::load` of it gives the record back.
- `LoadOK`: `Config2::load` of any well-typed file gives a record of
  `Config2` and a sealed file, and loading that file again gives the same
  record. The write-back either stores the loaded record (then
  `StoreThenLoad` applies) or leaves a file that asked for no rewrite
  (then `DecryptField` makes it sealed).
- The inductive invariant is `IInv == TypeOK /\ Disk`, where
  `Disk == file \in FileT /\ SealedFile(file) /\ Load2(file).mem = mem`.
  - `SecretsEncryptedOnDisk` alone is not inductive: `Restart` replaces
    `CONFIG2` by `Config2::load` of the file, and its effect is known only
    when loading the file is known to give `CONFIG2`.
  - Each writer stores under `CONFIG2.write()`, so `Write` keeps `Disk`
    by `StoreThenLoad`. `Restart` keeps it by `LoadOK`.
  - `NextIInv` has one step per action.
- `SecretsEncryptedInvariant`: `Spec => []SecretsEncryptedOnDisk`.
- `RestartKeepsNetworkProperty`: `Spec => RestartKeepsNetwork`. A step
  that increases `restarts` is a `Restart`, and `Disk` gives
  `Load2(file).mem = mem`.
- `SocksSetThenGetInvariant`: `Spec => []SocksSetThenGet`.
  - The strengthening `SocksInv` says that after `set_socks(Some s)` with
    no OVERWRITE proxy, `CONFIG2.socks` is `s`, or it is None and `s`
    equals DEFAULT's proxy (the early return). This lasts until
    `Config2::set` writes a record.
  - `Restart` keeps it only through `Disk`, so `IInv` is part of the
    argument.
  - Lemma `DefaultGivesBack`: a DEFAULT proxy that `set_socks` found equal
    to `s` has every key present, so `get_socks` rebuilds `s` from it.

**`PeerDecode`** (its last section)**:** from `ResolverAssumption`,
`UserDefaultConfigAssumption` (a numeric key has integer bounds, and its
default lies within them; `ParseNum` undoes `ShowNum`) and
`PeerKeysAssumption` (the code's bounds, 2201 and 2204).
- `PeerNumbersValidInvariant`: `PeerSpec => []PeerNumbersValid`.
  - It rests on the inductive invariant `IInv`: the file and the copy are
    option maps, every `UserDefaultConfig::get` result is valid
    (`ReadValid`), and the property itself. The map types are needed because
    `get_after` of an option map is a value or `Absent`, and only then does
    `ParseNum` apply.
  - Lemma `NumStringValid`: `get_num_string` returns the text of a number
    within `[min, max]`, whether it came from the option or from the
    default.
  - Lemma `DefaultsInRange`: the default functions of the two numbers
    never reach their own fallbacks (100 and 50), and they land in range.
  - Lemma `LoadInRange`: each decoder's out-of-range branch falls back on
    those defaults, and its other branch is the range check itself.
    `PeerConfig::default()` uses the same defaults.
  - A load is the only step that sets `fromLoad`; a store clears it.
- `RoundTripInvariant`: `PeerSpec => []RoundTrip`, with `PeerTypeCorrect`
  (`PeerSpec => []PeerTypeOK`) on the way. Two more assumptions are used:
  `MarkerAssumption` (`Missing` and `Bad` are distinct and are no integer
  or integer list; no file is `NoPeerFile`) and `EditsAssumption` (an edit
  sets a field to a value of that field's type).
  - The inductive invariant is `RInv == PeerTypeOK /\ RoundTrip`.
    `RoundTrip` alone is not inductive: a load must read a file of
    `PeerFileT`, and the `stored` config it compares with must be a
    `PeerT`. TLC checked `RInv` on the `display_peer_decode` instance
    (401,586 states) before it was proved.
  - Lemma `GetType`: `UserDefaultConfig::get` of an option map returns a
    value, for each kind of key. Lemma `DefaultPeerType` builds on it:
    `PeerConfig::default()` is well typed.
  - Lemmas `LoadType`, `SerializeType` and `EditType`: load, store and an
    edit keep the types.
  - Lemma `RoundTripLoad` is the heart of the proof. The file `store`
    writes never fails to decode, because `Bad` is no integer. A field
    comes back unchanged unless `Substituted` holds for it, because
    `Missing` and `Bad` are values of no field's type.
    - A skipped empty view comes back as the default, and so does a
      skipped empty quality list.
    - A flag is always written, so it comes back as stored.
  - A load either reads exactly what `stored` serialises to, and
    `RoundTripLoad` applies, or it leaves the premise false. A store
    clears `fromLoad`.

**`Identity`** (its last section)**:** from `CodecAssumption` (which
includes that `""` is not over 128 bytes) and `IdentityAssumption`. Both
theorems take the hypothesis `FirstFileOK`: no id of the system is over
128 bytes, and every first file has a blank id or no `enc_id`. The
`id_safety` instance satisfies it (TLC checked it as an invariant). It
cannot be dropped:
- A first file with a plain id beside a current `enc_id` loads without a
  store (`store2` is false), so its plain id stays on disk.
- An over-long id is written to `enc_id` in clear and is not trusted by
  the next load (`MCIdentity_longid.cfg`, section 4).

The results:
- `OnDiskIdEmptyInvariant`: `Spec => []OnDiskIdEmpty`.
- `IdSurvivesRestartProperty`: `Spec => IdSurvivesRestart`, an action
  property.
- Both rest on `IdInv`: `CONFIG`'s id and every `Config::get` snapshot's
  are not over-long, and a non-empty `CONFIG` id is what `enc_id`
  decrypts to. The record shape of `CONFIG` and the crash count's type
  are added so that an `EXCEPT` on the salt provably keeps the id.
  - Lemma `StoreBlanksId`: `Config::store` blanks the id and encrypts a
    non-empty one.
  - Lemma `LoadKeepsId`: `Config::load` of such a file leaves a blank id
    on disk and an id that `enc_id` decrypts to. It keeps the id a
    current `enc_id` holds. Its four cases follow the code's: ciphertext,
    legacy plain id, generated id, and no id.
  - `SetFieldIdInv` and `StoreIdInv` cover every step that changes
    `CONFIG`: each one stores it.
  - A restart is `LoadKeepsId` applied to the file on disk
    (`RestartKeepsId`).
- The SMT backend cannot take the empty-string literal. The steps that
  mention `""` are therefore split so that Zenon proves them, and
  arithmetic is kept in steps of its own (`GreaterDiffers`).

**Only model-checked:**
- the fairness in `AbsFairSpec`, since `ENABLED` and liveness are beyond
  the prover;
- `PeerStore`'s `EveryPeerListable` and `LastWriteWins`. `PeerStore` uses
  `SequencesExt` (the listing's sort), which reaches a `RECURSIVE`
  operator. Both are violated by the code (section 4).
- `IdAgreed`, `SaltAgreed`, `KeyPairStable` (`Identity`), `LookupOrder`
  and `BestStoredWhenQuiet` (`Latency`), `AbKept` (`AddressBook`),
  `TrustRevokedOnPasswordChange` and `CacheCoherent` (`TrustedDevices`) and
  `LocalSetThenGet` are not proved because the code violates them
  (section 4).

## 6. Not modelled

See `components` in `PROJECT.json`:

- **The path layer:** pure path arithmetic.
- **Generic persistence:** confy/TOML I/O and serialisation. The models
  assume a store writes the whole file, as `confy::store_path` does after
  creating the directory.
- **`LanPeers`:** a whole-list read or write with no state between calls.
- **The remaining serde decoders:** the twins of each kind `PeerDecode`
  keeps (five more strings, thirteen more flags) share its code. The size,
  map and list decoders (`deserialize_default!` with `unwrap_or_default`)
  hold data that no property reads. Fractional `custom_image_quality`
  defaults are not enumerated: the parse tables hold integers.
- **`get_network_type` / `is_proxy`:** a pure read of the three sources
  `get_socks` reads.
- **`set_key_confirmed`, `set_host_key_confirmed`:** flags with no reader
  that any property involves.
- **The codec:** its internals (key derivation, cipher) are not modelled.
  Only its observable contract is, from spec §4.2.

Two further notes:

- The source file repeats several `const` definitions (`REG_INTERVAL`,
  `COMPRESS_LEVEL`, `SERIAL`, `PASSWORD_ENC_VERSION`, `ENCRYPT_MAX_LEN`,
  lines 55-79). As written it does not compile. The models take the values,
  which agree.
- `HARD_SETTINGS["password"]` is treated as in the code: setting it returns
  before any change, so it never clears the list (spec §9 leaves this open).
