---------------------------- MODULE MCExperiment ----------------------------
(* Instances of Experiment: two experiments on one workload, and one of them
   in two state directories. *)
EXTENDS Experiment

CONSTANTS d1, d2

TwoExperiments == [d \in {d1, d2} |-> IF d = d1 THEN "A" ELSE "B"]
OneExperiment == [d \in {d1, d2} |-> "A"]
SharedWorkload == [e \in {"A", "B"} |-> 1]
=============================================================================
