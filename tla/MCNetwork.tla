----------------------------- MODULE MCNetwork -----------------------------
(* TLC instance of Network.  The first start sees no file, a file from an  *)
(* older version (plain password and PIN), a current one, or one whose PIN *)
(* was encrypted on another machine.  "9999" stands for a PIN over the     *)
(* encryption length limit.                                                *)
EXTENDS Network

MCStrings == {"", "pw", "1234", "9999"}

MCInitFiles ==
    { [socks |-> NoSocks, pin |-> Plain(""), nat |-> 0],
      [socks |-> [proxy |-> "p1", username |-> "u", password |-> Plain("pw")], pin |-> Plain("1234"), nat |-> 0],
      [socks |-> [proxy |-> "p2", username |-> "", password |-> Cipher("pw", Current)],
       pin |-> Cipher("1234", Current), nat |-> 1],
      [socks |-> NoSocks, pin |-> Cipher(NoPlain, "other"), nat |-> 0] }

MCDefaultProxy == [url |-> "p1", username |-> "", password |-> "pw"]

MCNoOverwrite == [url |-> Absent, username |-> Absent, password |-> Absent]

MCOverwrite == [url |-> "p2", username |-> Absent, password |-> Absent]

(* The snapshot of a setter not between get and set is dead.               *)
MCView == <<file, mem, [t \in Setters |-> IF pc[t] = "set" THEN snap[t] ELSE 0], pc, last, opsLeft, restarts>>
====
