---------------------------- MODULE AddressBook ----------------------------
(***************************************************************************)
(* The address-book blob of src/config.rs (Ab; Group's code is the same): *)
(* store creates (truncates) the file, refuses a compressed blob over      *)
(* 64 MiB, then writes the encrypted blob; load reads the file and, when   *)
(* decryption, decompression or parsing fails, removes it and returns the  *)
(* default; a file that does not open is "removed" too.  No lock is       *)
(* taken: a store is two steps (create, write) and a failed load two       *)
(* (read, remove), and a crash may fall between.  Writes go through the    *)
(* handle of the inode created, from offset 0, so a file removed in        *)
(* between takes the blob with it (POSIX unlink), and a write over another *)
(* handle's longer one leaves that one's tail behind.  A crash is added by *)
(* MCAddressBook for the run that asks about it.                           *)
(***************************************************************************)
EXTENDS Naturals

CONSTANTS
    Threads,
    Removers,    \* threads that call Ab::remove (logout)
    Loaders,     \* threads that call Ab::load
    Jsons,       \* address books, as JSON texts
    TooLarge,    \* those that compress to more than 64 MiB
    Default,     \* Ab::default()
    Empty,       \* a file with no valid blob (truncated, or cut short)
    NoFile, InitFiles, MaxOps

(* The constants are meant as: Removers and Loaders subsets of Threads,   *)
(* TooLarge a subset of Jsons, Default and Empty not JSON texts, and       *)
(* InitFiles drawn from Jsons, Empty and NoFile.                           *)

(* A file is an inode and its data, a JSON text or Empty; NoFile is none.  *)
FileRec == [ino : Nat, data : Jsons \cup {Empty}]

VARIABLES
    file,       \* <app>_ab: NoFile or [ino, data], data a JSON text or Empty
    nextIno,    \* the inode the next create of a missing file gets
    pc, h, j,   \* per thread: position, the inode a store writes to, its JSON
    expected,   \* history: what the last completed store or remove left
    opsLeft

vars == <<file, nextIno, pc, h, j, expected, opsLeft>>

(* What Ab::load returns for a file, before any remove.                    *)
Read(f) == IF f = NoFile \/ f.data = Empty THEN Default ELSE f.data

Init ==
    /\ \E d \in InitFiles : file = IF d = NoFile THEN NoFile ELSE [ino |-> 0, data |-> d]
    /\ nextIno = 1
    /\ pc = [t \in Threads |-> "idle"] /\ h = [t \in Threads |-> 0] /\ j = [t \in Threads |-> Default]
    /\ expected = Read(file)
    /\ opsLeft = MaxOps

Begin(t) == pc[t] = "idle" /\ opsLeft > 0 /\ opsLeft' = opsLeft - 1

(* Ab::store, first half: File::create truncates the file (or makes a new  *)
(* inode), then a blob over the limit returns with the file left empty.    *)
StoreCreate(t, js) ==
    /\ Begin(t)
    /\ LET ino == IF file = NoFile THEN nextIno ELSE file.ino IN
          /\ file' = [ino |-> ino, data |-> Empty]
          /\ nextIno' = IF file = NoFile THEN nextIno + 1 ELSE nextIno
          /\ h' = [h EXCEPT ![t] = ino]
    /\ j' = [j EXCEPT ![t] = js]
    /\ pc' = [pc EXCEPT ![t] = IF js \in TooLarge THEN "idle" ELSE "write"]
    /\ UNCHANGED <<expected>>

(* What write_all of js from offset 0 leaves over data: js when the file   *)
(* was empty or held the same text, else js or (js shorter than what the   *)
(* other handle wrote) js followed by that one's tail, which is no blob.   *)
Overwrite(data, js) == IF data \in {Empty, js} THEN {js} ELSE {js, Empty}

(* Ab::store, second half: write_all through the handle; lost when the     *)
(* inode is no longer the file.                                            *)
StoreWrite(t) ==
    /\ pc[t] = "write"
    /\ IF file # NoFile /\ file.ino = h[t]
       THEN \E d \in Overwrite(file.data, j[t]) : file' = [file EXCEPT !.data = d]
       ELSE file' = file
    /\ expected' = j[t]
    /\ pc' = [pc EXCEPT ![t] = "idle"]
    /\ UNCHANGED <<nextIno, h, j, opsLeft>>

(* Ab::load, first half: a valid blob is returned; a file that does not   *)
(* open, or holds no valid blob, goes on to remove.                        *)
LoadRead(t) ==
    /\ t \in Loaders /\ Begin(t)
    /\ pc' = [pc EXCEPT ![t] = IF file # NoFile /\ file.data # Empty THEN "idle" ELSE "remove"]
    /\ UNCHANGED <<file, nextIno, h, j, expected>>

(* Ab::load, second half: Self::remove(), then the default.               *)
LoadRemove(t) ==
    /\ pc[t] = "remove"
    /\ file' = NoFile
    /\ pc' = [pc EXCEPT ![t] = "idle"]
    /\ UNCHANGED <<nextIno, h, j, expected, opsLeft>>

(* Ab::remove called by the user (logout).                                 *)
Remove(t) ==
    /\ t \in Removers /\ Begin(t)
    /\ file' = NoFile
    /\ expected' = Default
    /\ UNCHANGED <<nextIno, pc, h, j>>

Terminating ==
    /\ opsLeft = 0 /\ \A t \in Threads : pc[t] = "idle"
    /\ UNCHANGED vars

Next ==
    \/ \E t \in Threads :
          \/ \E js \in Jsons : StoreCreate(t, js)
          \/ StoreWrite(t) \/ LoadRead(t) \/ LoadRemove(t) \/ Remove(t)
    \/ Terminating

Spec == Init /\ [][Next]_vars

-----------------------------------------------------------------------------
TypeOK ==
    /\ file = NoFile \/ file \in [ino : Nat, data : Jsons \cup {Empty}]
    /\ pc \in [Threads -> {"idle", "write", "remove"}]
    /\ expected \in Jsons \cup {Default}

(* Spec 7.3 and 4.4: once no call is under way, a load returns what the   *)
(* last completed store (or remove) left; a refused (oversize) store       *)
(* leaves the prior address book, and a corrupt-file delete never drops    *)
(* a good one.                                                             *)
AbKept == (\A t \in Threads : pc[t] = "idle") => Read(file) = expected
====
