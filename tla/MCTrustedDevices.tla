-------------------------- MODULE MCTrustedDevices --------------------------
(* TrustedDevices instantiated for TLC: threads, hardware ids and          *)
(* passwords are model values given in the .cfg files.                     *)
EXTENDS TrustedDevices, TLC

(* Threads and hardware ids are interchangeable; passwords are not, one of *)
(* them being HardPassword.                                                *)
MCSymmetry == Permutations(Threads) \cup Permutations(Hwids)

(* The locals of an idle thread are dead: each call writes them before it  *)
(* reads them.  TLC identifies states that differ only there.              *)
MCView ==
    <<password, epoch, blob, cache, now, pc, cfgHolder, opsLeft, crashes,
      [t \in Threads |-> IF pc[t] = "idle" THEN <<>>
                         ELSE <<op[t], arg[t], got[t], snap[t], loc[t],
                               nested[t]>>]>>
=============================================================================
