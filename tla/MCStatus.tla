------------------------------ MODULE MCStatus ------------------------------
(* TLC instance of Status: two threads setting two keys to "" or "on".    *)
EXTENDS Status

MCKeyKind == [k \in Keys |-> "other"]
====
