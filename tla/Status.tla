------------------------------- MODULE Status -------------------------------
(***************************************************************************)
(* STATUS of src/config.rs (<app>_status.toml).  Status::set(k, v) first   *)
(* calls Status::get(k) under STATUS.read() and returns if it already      *)
(* reads v; only then does it take STATUS.write(), insert v and store.     *)
(* Another thread can run between the two guards.                          *)
(***************************************************************************)
EXTENDS Resolver

CONSTANTS Threads, NoReq

ASSUME StatusAssumption == NoReq \notin [k : Keys, v : Value]

VARIABLES
    values,   \* STATUS.values (memory equals the file)
    pc,       \* per thread: "idle", "check" (get(k) next) or "write"
    req       \* per thread: the key and value of the call under way

vars == <<values, pc, req>>

(* Status::get: the entry, or "" if there is none.                         *)
Get(k) == OrEmpty(values[k])

-----------------------------------------------------------------------------
(* A fresh install: no status file.                                        *)
Init ==
    /\ values = NoMap
    /\ pc = [t \in Threads |-> "idle"]
    /\ req = [t \in Threads |-> NoReq]

Start(t, k, v) ==
    /\ pc[t] = "idle"
    /\ pc' = [pc EXCEPT ![t] = "check"]
    /\ req' = [req EXCEPT ![t] = [k |-> k, v |-> v]]
    /\ UNCHANGED values

(* Mutant: the early return taken when get(k) differs from v.             *)
CheckInverted(t) ==
    /\ pc[t] = "check"
    /\ IF Get(req[t].k) # req[t].v
       THEN pc' = [pc EXCEPT ![t] = "idle"] /\ req' = [req EXCEPT ![t] = NoReq]
       ELSE pc' = [pc EXCEPT ![t] = "write"] /\ UNCHANGED req
    /\ UNCHANGED values

(* if Self::get(k) == v { return; }                                        *)
Check(t) ==
    /\ pc[t] = "check"
    /\ IF Get(req[t].k) = req[t].v
       THEN pc' = [pc EXCEPT ![t] = "idle"] /\ req' = [req EXCEPT ![t] = NoReq]
       ELSE pc' = [pc EXCEPT ![t] = "write"] /\ UNCHANGED req
    /\ UNCHANGED values

(* STATUS.write(), insert (even ""), store.                                *)
Write(t) ==
    /\ pc[t] = "write"
    /\ values' = [values EXCEPT ![req[t].k] = req[t].v]
    /\ pc' = [pc EXCEPT ![t] = "idle"]
    /\ req' = [req EXCEPT ![t] = NoReq]

Next ==
    \/ \E t \in Threads, k \in Keys, v \in Value : Start(t, k, v)
    \/ \E t \in Threads : Check(t) \/ Write(t)

Spec == Init /\ [][Next]_vars

(* The OS runs every runnable thread.                                      *)
FairSpec == Spec /\ \A t \in Threads : WF_vars(Check(t) \/ Write(t))

-----------------------------------------------------------------------------
TypeOK ==
    /\ values \in OptMap
    /\ pc \in [Threads -> {"idle", "check", "write"}]
    /\ req \in [Threads -> [k : Keys, v : Value] \cup {NoReq}]
    /\ \A t \in Threads : pc[t] = "idle" <=> req[t] = NoReq

(* The refinement mapping: get(k) for every key, and the call under way.   *)
Abs == INSTANCE StatusSpec WITH values <- [k \in Keys |-> Get(k)], pend <- req

(* Status::set is linearizable and every call returns: the two-guard       *)
(* implementation, under fair scheduling, implements the atomic map, the   *)
(* early return being the point where the call takes effect.  This needs   *)
(* an absent key and "" to read the same through get.                      *)
AbsFairSpec == Abs!FairSpec
====
