----------------------------- MODULE MCIdentity -----------------------------
(* TLC instance of Identity: two ids, two salts, two key pairs.  The first *)
(* start sees no file, a legacy file (plain id, no enc_id), a current file *)
(* or one whose enc_id was encrypted on another machine.                   *)
EXTENDS Identity

MCStrings == {"", "i1", "i2", "s1", "s2"}

MCInitFiles ==
    { [id |-> "", encId |-> Plain(""), salt |-> "", keyPair |-> NoKeyPair],
      [id |-> "i1", encId |-> Plain(""), salt |-> "", keyPair |-> NoKeyPair],
      [id |-> "", encId |-> Cipher("i1", Current), salt |-> "s1", keyPair |-> NoKeyPair],
      [id |-> "", encId |-> Cipher(NoPlain, "other"), salt |-> "", keyPair |-> NoKeyPair] }

(* A view without the per-thread snapshots of threads not in a Config::set *)
(* pair, which are dead.                                                   *)
MCView ==
    <<file, cfg, slot, pending, pc, upd,
      [t \in Threads |-> IF pc[t] = "cfg_set" THEN snap[t] ELSE NoRet],
      ret, epoch, handed, opsLeft, crashes>>
====
