--------------------------- MODULE MCAddressBook ---------------------------
(* TLC instance of AddressBook: the first start finds no file, a good one  *)
(* or a corrupt one.                                                       *)
EXTENDS AddressBook

MCInitFiles == {NoFile, "j1", Empty}

(* The process dies (one of the MaxOps events): the file stays as it is,   *)
(* the calls under way are gone.                                           *)
Crash ==
    /\ opsLeft > 0 /\ opsLeft' = opsLeft - 1
    /\ pc' = [t \in Threads |-> "idle"]
    /\ UNCHANGED <<file, nextIno, h, j, expected>>

NextWithCrash == Next \/ Crash
====
