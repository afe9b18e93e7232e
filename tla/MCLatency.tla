----------------------------- MODULE MCLatency -----------------------------
(* TLC instance of Latency: the hosts are strings, the tasks model values. *)
(* The environment of the lookup is that of a plain install (no override,  *)
(* no custom server, no production name), with the built-in list of this  *)
(* fork and a rendezvous-servers option of one dotted and one bare name.   *)
EXTENDS Latency

MCServersOpt == <<"intranet", "rs.example.org">>

MCDotted == {"rs.example.org", "hbyx.myds.me"}

MCBuiltIn == <<"hbyx.myds.me">>
====
