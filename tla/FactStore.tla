----------------------------- MODULE FactStore -----------------------------
(***************************************************************************)
(* What the evaluation ledger promises the drivers that share it: a        *)
(* write-once map from facts to the run that published them.  A fact is    *)
(* published by exactly one run, is never withdrawn or relabelled, and a   *)
(* driver publishes only when it has seen everything published so far.     *)
(* FactLedger implements this over an append-only file.                    *)
(***************************************************************************)

CONSTANTS Drivers, Facts

VARIABLES store,  \* published fact -> the run whose line holds it
          seen    \* driver -> the published facts it knows of

vars == <<store, seen>>

Published == DOMAIN store

Init == /\ store = [f \in {} |-> CHOOSE d \in Drivers : TRUE]
        /\ seen = [d \in Drivers |-> {}]

(* A driver catches up with everything published so far. *)
Learn(d) == /\ seen' = [seen EXCEPT ![d] = Published]
            /\ UNCHANGED store

(* A driver that is up to date publishes one new fact. *)
Publish(d, f) ==
    /\ seen[d] = Published
    /\ f \notin Published
    /\ store' = [g \in Published \cup {f} |-> IF g = f THEN d ELSE store[g]]
    /\ seen' = [seen EXCEPT ![d] = @ \cup {f}]

(* A driver's process ends; what it knew is gone, what it published is not. *)
Forget(d) == /\ seen' = [seen EXCEPT ![d] = {}]
             /\ UNCHANGED store

Next == \E d \in Drivers : \/ Learn(d)
                           \/ Forget(d)
                           \/ \E f \in Facts : Publish(d, f)

Spec == Init /\ [][Next]_vars
=============================================================================
