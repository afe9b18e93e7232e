----------------------------- MODULE StatusSpec -----------------------------
(***************************************************************************)
(* What Status::get / Status::set promise: a map from keys to strings in   *)
(* which every key reads "" until set, and each call of set(k, v) takes    *)
(* effect exactly once, atomically, at some point between its call and its *)
(* return.                                                                 *)
(***************************************************************************)
CONSTANTS Threads, Keys, Value, Empty, NoReq

VARIABLES
    values,   \* what Status::get(k) returns, for every k
    pend      \* the set call thread t has under way, or NoReq

vars == <<values, pend>>

Req == [k : Keys, v : Value]

Init ==
    /\ values = [k \in Keys |-> Empty]
    /\ pend = [t \in Threads |-> NoReq]

Call(t, k, v) ==
    /\ pend[t] = NoReq
    /\ pend' = [pend EXCEPT ![t] = [k |-> k, v |-> v]]
    /\ UNCHANGED values

(* The call takes effect and returns.                                      *)
Apply(t) ==
    /\ pend[t] # NoReq
    /\ values' = [values EXCEPT ![pend[t].k] = pend[t].v]
    /\ pend' = [pend EXCEPT ![t] = NoReq]

Next ==
    \/ \E t \in Threads, k \in Keys, v \in Value : Call(t, k, v)
    \/ \E t \in Threads : Apply(t)

Spec == Init /\ [][Next]_vars

(* Every call returns.                                                     *)
FairSpec == Spec /\ \A t \in Threads : WF_vars(Apply(t))
====
