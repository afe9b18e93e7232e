---------------------------- MODULE MCPeerStore ----------------------------
(* TLC instance of PeerStore.  "a/b:c" is the spec's forbidden id (base64 *)
(* "YS9iOmM="); "pc?q=1" encodes to "cGM/cT0x", with a '/'; "base64_abc"  *)
(* is an id that merely starts with the prefix.  The first start may find  *)
(* a peer file of an older version with a plain password.                  *)
EXTENDS PeerStore, TLC

MCPrefixDecode == [id \in Prefixed |-> ""]

MCInitDisks ==
    LET old(plat) == [platform |-> plat, pwd |-> Plain("pw"), mtime |-> 1]
        new(plat) == [platform |-> plat, pwd |-> Cipher("pw", Current), mtime |-> 0]
    IN  {[n \in Names |-> IF n = Name(id) THEN f ELSE NoFile] :
            id \in Ids, f \in {old("win"), old(""), new("win")}}
====
