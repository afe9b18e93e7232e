------------------------------ MODULE Latency ------------------------------
(***************************************************************************)
(* The latency-based choice of the rendezvous server in src/config.rs:     *)
(* ONLINE (host -> latency), Config::update_latency, Config::reset_online  *)
(* and CONFIG2.rendezvous_server.  update_latency takes the ONLINE mutex   *)
(* three times: to insert the measurement, to scan for the host with the   *)
(* least positive latency, and (for logging) inside the CONFIG2 write      *)
(* guard.  Between the scan and the write another measurement can run.    *)
(***************************************************************************)
EXTENDS Integers, Sequences

CONSTANTS
    Threads,     \* tasks that measure and call update_latency
    Hosts,       \* rendezvous hosts (non-empty strings)
    Latencies,   \* the latencies update_latency is called with (0 and < 0 too)
    NoLatency,   \* no entry in ONLINE
    MaxOps,      \* calls per thread
    Serials,     \* the serials set_serial is called with
    Exe,         \* EXE_RENDEZVOUS_SERVER, set by the host process ("" if not)
    Custom,      \* the option custom-rendezvous-server ("" if not)
    Prod,        \* PROD_RENDEZVOUS_SERVER ("" if not)
    ServersOpt,  \* the option rendezvous-servers, as its ','-separated parts
    Dotted,      \* the strings that contain '.'
    Ported,      \* the strings that contain ':'
    BuiltIn      \* RENDEZVOUS_SERVERS

(* The constants are meant as: Latencies a set of integers, NoLatency not *)
(* an integer, "" not a host, MaxOps a natural, ServersOpt and BuiltIn    *)
(* sequences of strings, BuiltIn non-empty.                               *)

(* SERIAL and RENDEZVOUS_PORT.                                             *)
SERIAL == 3
RendezvousPort == 2116

VARIABLES
    online,    \* ONLINE
    rs,        \* CONFIG2.rendezvous_server ("" until chosen)
    pc,        \* per thread: "idle", "scan" or "write"
    host,      \* per thread: the local `host` of update_latency
    opsLeft,   \* per thread: calls it may still make
    serial     \* CONFIG2.serial

vars == <<online, rs, pc, host, opsLeft, serial>>

(* The hosts update_latency's loop may pick: least positive latency; among *)
(* equal ones, whichever the HashMap iterates first.                       *)
Best(m) ==
    {h \in Hosts : m[h] \in Int /\ m[h] > 0
                   /\ \A g \in Hosts : m[g] \in Int /\ m[g] > 0 => m[h] <= m[g]}

(* get_online_state: the greatest latency in ONLINE, or 0.                 *)
OnlineState(m) ==
    IF \E h \in Hosts : m[h] \in Int
    THEN CHOOSE x \in {m[h] : h \in {g \in Hosts : m[g] \in Int}} :
             \A g \in Hosts : m[g] \in Int => m[g] <= x
    ELSE 0

-----------------------------------------------------------------------------
Init ==
    /\ online = [h \in Hosts |-> NoLatency]
    /\ rs = ""
    /\ pc = [t \in Threads |-> "idle"]
    /\ host = [t \in Threads |-> ""]
    /\ opsLeft = [t \in Threads |-> MaxOps]
    /\ serial = 0

(* update_latency(h, l): ONLINE.lock().insert(h, l).                       *)
Insert(t, h, l) ==
    /\ pc[t] = "idle" /\ opsLeft[t] > 0
    /\ online' = [online EXCEPT ![h] = l]
    /\ pc' = [pc EXCEPT ![t] = "scan"]
    /\ opsLeft' = [opsLeft EXCEPT ![t] = @ - 1]
    /\ UNCHANGED <<rs, host, serial>>

(* The loop over ONLINE.lock(); with no positive latency host stays "" and *)
(* the call returns.                                                       *)
Scan(t) ==
    /\ pc[t] = "scan"
    /\ IF Best(online) = {}
       THEN pc' = [pc EXCEPT ![t] = "idle"] /\ UNCHANGED host
       ELSE \E h \in Best(online) : host' = [host EXCEPT ![t] = h]
                                    /\ pc' = [pc EXCEPT ![t] = "write"]
    /\ UNCHANGED <<online, rs, opsLeft, serial>>

(* CONFIG2.write(): store the host if it differs.                          *)
Write(t) ==
    /\ pc[t] = "write"
    /\ rs' = host[t]
    /\ pc' = [pc EXCEPT ![t] = "idle"]
    /\ UNCHANGED <<online, host, opsLeft, serial>>

(* Config::reset_online.                                                   *)
ResetOnline ==
    /\ online' = [h \in Hosts |-> NoLatency]
    /\ UNCHANGED <<rs, pc, host, opsLeft, serial>>

(* Config::set_serial: stored when it changes.                            *)
SetSerial(n) ==
    /\ serial' = n
    /\ UNCHANGED <<online, rs, pc, host, opsLeft>>

(* Config::get_rendezvous_servers.                                         *)
GetRendezvousServers ==
    LET opt == SelectSeq(ServersOpt, LAMBDA x : x \in Dotted) IN
    IF Exe # "" THEN <<Exe>>
    ELSE IF Custom # "" THEN <<Custom>>
    ELSE IF Prod # "" THEN <<Prod>>
    ELSE IF serial > SERIAL /\ opt # <<>> THEN opt
    ELSE BuiltIn

(* The port appended by format! when the name has no ':'.                  *)
WithPort(x) == [name |-> x, port |-> IF x \in Ported THEN "own" ELSE "default"]

(* Config::get_rendezvous_server.                                          *)
GetRendezvousServer ==
    WithPort(IF Exe # "" THEN Exe
             ELSE IF Custom # "" THEN Custom
             ELSE IF Prod # "" THEN Prod
             ELSE IF rs # "" THEN rs
             ELSE IF GetRendezvousServers # <<>> THEN Head(GetRendezvousServers)
             ELSE "")

Next ==
    \/ \E n \in Serials : SetSerial(n)
    \/ \E t \in Threads, h \in Hosts, l \in Latencies : Insert(t, h, l)
    \/ \E t \in Threads : Scan(t) \/ Write(t)
    \/ ResetOnline

Spec == Init /\ [][Next]_vars

-----------------------------------------------------------------------------
TypeOK ==
    /\ online \in [Hosts -> Latencies \cup {NoLatency}]
    /\ rs \in Hosts \cup {""}
    /\ pc \in [Threads -> {"idle", "scan", "write"}]
    /\ host \in [Threads -> Hosts \cup {""}]
    /\ opsLeft \in [Threads -> 0 .. MaxOps]
    /\ serial \in Serials \cup {0}

(* Spec 4.7: the host with the smallest positive latency becomes the       *)
(* preferred rendezvous server.  Whenever no update_latency is under way   *)
(* and ONLINE holds a positive latency, CONFIG2.rendezvous_server is a     *)
(* host with the least positive latency.                                   *)
BestStoredWhenQuiet ==
    (\A t \in Threads : pc[t] = "idle") /\ Best(online) # {} => rs \in Best(online)

(* Spec 4.7: the lookup order of get_rendezvous_server is the executable   *)
(* override, custom-rendezvous-server, the production name, the host       *)
(* chosen by latency, and the first built-in server, with the default     *)
(* port appended to a name without one.                                    *)
LookupOrder ==
    GetRendezvousServer =
        WithPort(IF Exe # "" THEN Exe
                 ELSE IF Custom # "" THEN Custom
                 ELSE IF Prod # "" THEN Prod
                 ELSE IF rs # "" THEN rs
                 ELSE Head(BuiltIn))
====
