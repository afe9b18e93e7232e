----------------------------- MODULE PeerStore -----------------------------
(***************************************************************************)
(* The per-peer files of src/config.rs: PeerConfig::path (an id with a     *)
(* forbidden character becomes "base64_" + base64(id)), load (decrypt, and *)
(* rewrite the file when a field needed it), store, remove, and the        *)
(* listing (get_vec_id_modified_time_path, then batch_peers) that loads    *)
(* every listed id again and deletes the listed file when its platform is  *)
(* empty.  No lock is held across a listing, and load and store take only  *)
(* CONFIG.read(), which excludes no other reader: a load reads the file in *)
(* one step and, when a field asked for it, rewrites it in another; a      *)
(* listing's delete is a third.  Stores and removes from other threads     *)
(* fall between any two of them.                                           *)
(***************************************************************************)
EXTENDS Codec, Naturals, SequencesExt

CONSTANTS
    Listers,        \* threads that list peers
    Conns,          \* connection threads that load a peer
    Ids,            \* peer ids
    Forbidden,      \* ids with one of < > : / \ | ? *
    SlashEncoded,   \* those whose base64 text holds a '/'
    HasSlash,       \* ids that hold a '/'
    Prefixed,       \* ids without a forbidden char that start with "base64_" (longer than 7)
    PrefixDecode,   \* what decoding the rest of such an id yields ("": an id with no file)
    Platforms,      \* info.platform values, "" among them
    Pwds,           \* plain passwords
    Filters,        \* the id_filters a caller passes, NoFilter for None
    NoFilter, NoTo, \* None
    MaxFrom, MaxTo, \* the from / to arguments of batch_peers a caller passes
    BATCH_LOADING_COUNT,
    InitDisks,      \* the peers directory at start
    NoFile, MaxOps

(* The constants are meant as: Forbidden and Prefixed disjoint sets of     *)
(* ids, SlashEncoded and HasSlash subsets of Forbidden, "" a platform,      *)
(* Pwds strings, NoFilter among the Filters, Listers and Conns disjoint,    *)
(* BATCH_LOADING_COUNT positive.                                           *)

(* PeerConfig::path, as the file name under peers/.                        *)
Name(id) == IF id \in Forbidden THEN [kind |-> "b64", id |-> id] ELSE [kind |-> "raw", id |-> id]

Names == {Name(id) : id \in Ids \cup {""}}

Content == [platform : Platforms, pwd : Field, mtime : Nat]

(* The listing keeps files directly under peers/ named <stem>.toml: a '/'  *)
(* in the name puts the file in a sub-directory, and "" gives ".toml",     *)
(* which has no extension.                                                 *)
Listed(n) ==
    /\ n.id # ""
    /\ IF n.kind = "raw" THEN n.id \notin HasSlash ELSE n.id \notin SlashEncoded

(* The id the listing recovers from a file stem: a stem starting with      *)
(* "base64_" (and longer) is decoded, any other is the id.                 *)
DecodeName(n) ==
    CASE n.kind = "b64"     -> n.id
      [] n.id \in Prefixed  -> PrefixDecode[n.id]
      [] OTHER              -> n.id

VARIABLES
    disk,       \* the peers directory: name -> content or NoFile
    clock,      \* modification times
    newStored,  \* NEW_STORED_PEER_CONFIG
    pc, all, cur, hi, got,   \* per lister: position, listing, index, bound, results
    ld,         \* per loading thread: the record a load read and will write
                \* back (store_ at the end of PeerConfig::load), or NoLoad
    live,       \* history: ids last stored with a platform and not removed since
    last,       \* history: per file, the record the last store, remove or
                \* listing delete left (NoFile when none)
    opsLeft

vars == <<disk, clock, newStored, pc, all, cur, hi, got, ld, live, last, opsLeft>>

NoLoad == [id |-> "", platform |-> "", pwd |-> ""]

(* A file as the program sees it: the platform and the plain password.     *)
View(f) == IF f = NoFile THEN NoFile ELSE [platform |-> f.platform, pwd |-> DecryptStr(f.pwd).plain]

(* PeerConfig::store_: encrypt the password, write the file, record id.    *)
StoreFile(id, plat, plain) ==
    /\ disk' = [disk EXCEPT ![Name(id)] = [platform |-> plat, pwd |-> EncryptStr(plain), mtime |-> clock]]
    /\ clock' = clock + 1
    /\ newStored' = newStored \cup {id}

(* PeerConfig::load(id): the default record when there is no file; else    *)
(* the password decrypted, and the file rewritten when it asked for it.    *)
Loaded(id) ==
    IF disk[Name(id)] = NoFile THEN [platform |-> "", pwd |-> ""]
    ELSE [platform |-> disk[Name(id)].platform, pwd |-> DecryptStr(disk[Name(id)].pwd).plain]

(* A field of the file needs re-encrypting: load will call store_.       *)
NeedsRewrite(id) == disk[Name(id)] # NoFile /\ DecryptStr(disk[Name(id)].pwd).rewrite

(* The start of PeerConfig::load by thread t: read and decrypt the file,   *)
(* and keep the record to write back when a field asked for it.            *)
LoadRead(t, id) ==
    ld' = [ld EXCEPT ![t] = IF NeedsRewrite(id)
                            THEN [id |-> id] @@ Loaded(id) ELSE NoLoad]

(* batch_peers' range: empty from from >= len, else [from, min(to, len))  *)
(* with to defaulting to from + BATCH_LOADING_COUNT, empty when to <= from. *)
BatchRange(len, from, to) ==
    LET t == IF to = NoTo THEN Min({from + BATCH_LOADING_COUNT, len}) ELSE Min({to, len})
    IN  IF from >= len \/ t <= from THEN [lo |-> 0, hi |-> 0] ELSE [lo |-> from, hi |-> t]

(* get_vec_id_modified_time_path: the listed files, their ids, filtered,   *)
(* newest first.                                                           *)
Listing(filter) ==
    SetToSortSeq({[id |-> DecodeName(n), name |-> n, mt |-> disk[n].mtime] :
                     n \in {m \in Names : disk[m] # NoFile /\ Listed(m)
                                          /\ (filter = NoFilter \/ DecodeName(m) \in filter)}},
                 LAMBDA a, b : a.mt > b.mt)

Init ==
    /\ disk \in InitDisks
    /\ clock = 1 + Max({disk[n].mtime : n \in {m \in Names : disk[m] # NoFile}} \cup {0})
    /\ newStored = {}
    /\ pc = [t \in Listers |-> "idle"] /\ all = [t \in Listers |-> <<>>]
    /\ cur = [t \in Listers |-> 0] /\ hi = [t \in Listers |-> 0] /\ got = [t \in Listers |-> <<>>]
    /\ ld = [t \in Listers \cup Conns |-> NoLoad]
    /\ live = {id \in Ids : disk[Name(id)] # NoFile /\ disk[Name(id)].platform # ""}
    /\ last = [n \in Names |-> View(disk[n])]
    /\ opsLeft = MaxOps

(* PeerConfig::store(id) of a record with platform plat, from any thread. *)
StorePeer(id, plat, plain) ==
    /\ opsLeft > 0 /\ opsLeft' = opsLeft - 1
    /\ StoreFile(id, plat, plain)
    /\ live' = IF plat # "" THEN live \cup {id} ELSE live \ {id}
    /\ last' = [last EXCEPT ![Name(id)] = [platform |-> plat, pwd |-> plain]]
    /\ UNCHANGED <<pc, all, cur, hi, got, ld>>

(* PeerConfig::load(id) from connection c: the read.                      *)
LoadPeer(c, id) ==
    /\ ld[c] = NoLoad /\ opsLeft > 0 /\ opsLeft' = opsLeft - 1
    /\ LoadRead(c, id)
    /\ UNCHANGED <<disk, clock, newStored, pc, all, cur, hi, got, live, last>>

(* The end of PeerConfig::load: config.store_(id) of the record read.     *)
LoadRewrite(c) ==
    /\ ld[c] # NoLoad
    /\ StoreFile(ld[c].id, ld[c].platform, ld[c].pwd)
    /\ ld' = [ld EXCEPT ![c] = NoLoad]
    /\ UNCHANGED <<pc, all, cur, hi, got, live, last, opsLeft>>

(* PeerConfig::remove(id).                                                 *)
RemovePeer(id) ==
    /\ opsLeft > 0 /\ opsLeft' = opsLeft - 1
    /\ disk' = [disk EXCEPT ![Name(id)] = NoFile]
    /\ live' = live \ {id}
    /\ last' = [last EXCEPT ![Name(id)] = NoFile]
    /\ UNCHANGED <<clock, newStored, pc, all, cur, hi, got, ld>>

(* peers(filter) or batch_peers(all, from, to): read the directory, then   *)
(* take the range; an empty range returns at once.                         *)
List(t) ==
    /\ pc[t] = "idle" /\ opsLeft > 0 /\ opsLeft' = opsLeft - 1
    /\ \E filter \in Filters, from \in 0..MaxFrom, to \in (0..MaxTo) \cup {NoTo} :
          LET l == Listing(filter)
              r == BatchRange(Len(l), from, to)
          IN  /\ all' = [all EXCEPT ![t] = l]
              /\ cur' = [cur EXCEPT ![t] = r.lo + 1]
              /\ hi' = [hi EXCEPT ![t] = r.hi]
              /\ pc' = [pc EXCEPT ![t] = IF r.lo < r.hi THEN "load" ELSE "idle"]
    /\ got' = [got EXCEPT ![t] = <<>>]
    /\ UNCHANGED <<disk, clock, newStored, ld, live, last>>

(* After batch_peers' load of the current entry: an empty platform sends  *)
(* the entry to the delete, any other is kept.                             *)
BatchAfterLoad(t, plat) ==
    IF plat = ""
    THEN pc' = [pc EXCEPT ![t] = "remove"] /\ UNCHANGED <<cur, got>>
    ELSE /\ got' = [got EXCEPT ![t] = Append(@, [id |-> all[t][cur[t]].id,
                                                   name |-> all[t][cur[t]].name])]
         /\ cur' = [cur EXCEPT ![t] = @ + 1]
         /\ pc' = [pc EXCEPT ![t] = IF cur[t] + 1 <= hi[t] THEN "load" ELSE "idle"]

(* batch_peers, one entry: PeerConfig::load of the recovered id, its read; *)
(* a file that asks for a rewrite goes on to it first.                     *)
BatchLoad(t) ==
    /\ pc[t] = "load"
    /\ LET id == all[t][cur[t]].id IN
          /\ LoadRead(t, id)
          /\ IF NeedsRewrite(id)
             THEN pc' = [pc EXCEPT ![t] = "rewrite"] /\ UNCHANGED <<cur, got>>
             ELSE BatchAfterLoad(t, Loaded(id).platform)
    /\ UNCHANGED <<disk, clock, newStored, all, hi, live, last, opsLeft>>

(* batch_peers, the end of that load: store_ of the record it read.        *)
BatchRewrite(t) ==
    /\ pc[t] = "rewrite"
    /\ StoreFile(ld[t].id, ld[t].platform, ld[t].pwd)
    /\ ld' = [ld EXCEPT ![t] = NoLoad]
    /\ BatchAfterLoad(t, ld[t].platform)
    /\ UNCHANGED <<all, hi, live, last, opsLeft>>

(* batch_peers, the delete: fs::remove_file of the LISTED path.            *)
BatchRemove(t) ==
    /\ pc[t] = "remove"
    /\ disk' = [disk EXCEPT ![all[t][cur[t]].name] = NoFile]
    /\ last' = [last EXCEPT ![all[t][cur[t]].name] = NoFile]
    /\ cur' = [cur EXCEPT ![t] = @ + 1]
    /\ pc' = [pc EXCEPT ![t] = IF cur[t] + 1 <= hi[t] THEN "load" ELSE "idle"]
    /\ UNCHANGED <<clock, newStored, all, hi, got, ld, live, opsLeft>>

(* Every caller is done.                                                   *)
Terminating ==
    /\ opsLeft = 0 /\ \A t \in Listers : pc[t] = "idle"
    /\ \A c \in Conns : ld[c] = NoLoad
    /\ UNCHANGED vars

Next ==
    \/ \E id \in Ids, plat \in Platforms, plain \in Pwds : StorePeer(id, plat, plain)
    \/ \E id \in Ids : RemovePeer(id)
    \/ \E c \in Conns : LoadRewrite(c) \/ \E id \in Ids : LoadPeer(c, id)
    \/ \E t \in Listers : List(t) \/ BatchLoad(t) \/ BatchRewrite(t) \/ BatchRemove(t)
    \/ Terminating

Spec == Init /\ [][Next]_vars

-----------------------------------------------------------------------------
TypeOK ==
    /\ disk \in [Names -> Content \cup {NoFile}]
    /\ pc \in [Listers -> {"idle", "load", "rewrite", "remove"}]
    /\ newStored \subseteq Ids /\ live \subseteq Ids

(* Spec 8, scenario 5: a listing recovers every stored peer.  The file of *)
(* every peer stored with a platform, while it exists, is one the          *)
(* directory scan sees, and its stem decodes to the peer's id.             *)
EveryPeerListable ==
    \A id \in live : disk[Name(id)] # NoFile => Listed(Name(id)) /\ DecodeName(Name(id)) = id

(* batch_peers deletes only stale files (spec 3 iii): a peer stored with   *)
(* a platform, and not removed since, keeps its file however listings,    *)
(* loads and stores interleave.                                            *)
PeerKept == \A id \in live : disk[Name(id)] # NoFile

(* Spec 5 (every file write replaces the whole record, the last write      *)
(* wins) and 7.2 (a load's rewrite-on-migrate is silent): once no load is  *)
(* between its read and its rewrite, every peer file holds what the last   *)
(* store, remove or listing delete of it left.                             *)
LastWriteWins ==
    (\A t \in Listers \cup Conns : ld[t] = NoLoad) =>
        \A n \in Names : View(disk[n]) = last[n]
====
