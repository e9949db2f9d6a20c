---------------------------- MODULE DreamClaims ----------------------------
(***************************************************************************)
(* What the documentation says of a restarted run and the code does not    *)
(* do: the run claim_close refutes it, and the README tells the trace.     *)
(***************************************************************************)
EXTENDS DreamDriver

(* "stop + resume and crash + resume reproduce the uninterrupted journal"
   (driver.rs:11): an uninterrupted run acts on a close in the batch that
   closes, so no batch of the same level ever follows it. *)
CloseIsActedOn ==
    \A i, k \in BatchIndices :
        i < k /\ Closes(journal[i].verdict, journal[i].streak)
            => \E m \in i..k : journal[m].t = "level_next"
=============================================================================
