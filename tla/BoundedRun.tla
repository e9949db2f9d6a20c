----------------------------- MODULE BoundedRun -----------------------------
(***************************************************************************)
(* One process run under limits: the poll loop of run_bounded (a trial of  *)
(* an experiment, src/crates/emath-tui/src/experiment/process.rs) and of   *)
(* run_cargo_timed (a build, src/crates/emath-build/src/lib.rs), which is  *)
(* the same loop without input, output limit or cancellation.  The child,  *)
(* its descendants, the clock and whoever cancels run beside the loop.     *)
(* An iteration is two steps, as an exit may fall between them: try_wait,  *)
(* and then the pipes with the decision.                                   *)
(*                                                                         *)
(* Output is counted in chunks, and what a chunk holds is left out.        *)
(* Stderr is read as stdout is, past its cap too: the two are one stream   *)
(* here, held while either is and done when both are.                      *)
(***************************************************************************)
EXTENDS Naturals

CONSTANTS OutputLimit,  \* output_limit, in chunks
          MaxOutput     \* bound: chunks a child writes

ASSUME OutputAssumption == OutputLimit \in Nat /\ MaxOutput \in Nat

VARIABLES cancel,  \* the cancel token
          child    \* the process of the run in progress and the loop's locals

Outcomes == {"none", "ok", "bad", "timeout", "cancelled", "overflow", "unstarted"}

(* life is the process itself ("ok" and "bad" are its exit statuses), status
   what the loop has learnt of it, held whether any process still has the
   child's end of the streams, late that elapsed >= timeout, swept that
   kill_tree was called, and waited that the child is reaped. *)
NoChild ==
  [kind |-> "none", pc |-> "done", life |-> "ok", status |-> "none", stdin |-> FALSE,
   held |-> FALSE, unread |-> 0, got |-> 0, drained |-> FALSE, late |-> FALSE,
   swept |-> FALSE, waited |-> FALSE, outcome |-> "none"]

Spawned(kind) ==
  [NoChild EXCEPT !.kind = kind, !.pc = "wait", !.life = "running",
                  !.stdin = (kind = "trial"), !.held = TRUE]

(* Stream pairs or the program itself may be unavailable. *)
Unstarted(kind) == [NoChild EXCEPT !.kind = kind, !.outcome = "unstarted"]

Running == child.pc # "done"

-----------------------------------------------------------------------------
(* Beside the loop *)

ChildWrites ==
  /\ Running /\ child.held
  /\ child.got + child.unread < MaxOutput
  /\ child' = [child EXCEPT !.unread = @ + 1]
  /\ UNCHANGED cancel

(* The child exits.  A descendant may still hold its streams. *)
ChildExits ==
  /\ Running /\ child.life = "running"
  /\ \E code \in {"ok", "bad"}, inherited \in BOOLEAN :
       child' = [child EXCEPT !.life = code, !.held = child.held /\ inherited]
  /\ UNCHANGED cancel

(* The last holder of the streams lets go of them. *)
StreamsClose ==
  /\ Running /\ child.held
  /\ child' = [child EXCEPT !.held = FALSE]
  /\ UNCHANGED cancel

TimePasses ==
  /\ Running /\ ~child.late
  /\ child' = [child EXCEPT !.late = TRUE]
  /\ UNCHANGED cancel

-----------------------------------------------------------------------------
(* The loop *)

(* kill_tree and wait: the child is dead and reaped afterwards. *)
KillAndWait(c) ==
  [c EXCEPT !.swept = TRUE, !.waited = TRUE,
            !.life = IF @ = "running" THEN "bad" ELSE @]

(* try_wait: an exit is learnt, and with it the measured wall time. *)
TryWait ==
  /\ child.pc = "wait"
  /\ child' = [child EXCEPT !.pc = "pipes",
                            !.status = IF child.life = "running" THEN @ ELSE child.life,
                            !.waited = child.life # "running"]
  /\ UNCHANGED cancel

TryWaitFails ==
  /\ child.pc = "wait" /\ child.status = "none"
  /\ child' = [KillAndWait(child) EXCEPT !.pc = "done", !.outcome = "unstarted"]
  /\ UNCHANGED cancel

Overflows(c) == c.kind = "trial" /\ ~c.drained /\ c.unread > 0 /\ c.got = OutputLimit

(* Reading: a chunk, the end of the streams, or nothing yet. *)
Read(c) ==
  IF c.drained THEN c
  ELSE IF c.unread > 0
       THEN [c EXCEPT !.unread = @ - 1, !.got = IF Overflows(c) THEN @ ELSE @ + 1]
       ELSE [c EXCEPT !.drained = ~c.held]

Complete(c) == c.status # "none" /\ c.drained /\ ~c.stdin

(* Mutant: the timeout ends with the child. *)
ReasonUntilExit(c, overflow) ==
  IF c.kind = "trial" /\ cancel THEN "cancelled"
  ELSE IF overflow THEN "overflow"
  ELSE IF Complete(c) THEN c.status
  ELSE IF c.late /\ c.status = "none" THEN "timeout"
  ELSE "none"

(* Why the loop ends in this iteration: cancellation and overflow come
   before completion, completion before the timeout. *)
Reason(c, overflow) ==
  IF c.kind = "trial" /\ cancel THEN "cancelled"
  ELSE IF overflow THEN "overflow"
  ELSE IF Complete(c) THEN c.status
  ELSE IF c.late THEN "timeout"
  ELSE "none"

(* Mutant: every stop sweeps. *)
StoppedAlways(c) == KillAndWait(c)

(* A child whose status is known is reaped and must not be swept: its pid may
   be another process. *)
Stopped(c) == IF c.status = "none" THEN KillAndWait(c) ELSE c

(* Input is written as far as the child takes it, and is over when it has it
   all or has closed its end. *)
PipesAndDecide ==
  /\ child.pc = "pipes"
  /\ \E stdin \in {child.stdin, FALSE} :
       LET c == [Read(child) EXCEPT !.stdin = stdin]
           reason == Reason(c, Overflows(child)) IN
         child' = IF reason = "none" THEN [c EXCEPT !.pc = "wait"]
                  ELSE [Stopped(c) EXCEPT !.pc = "done", !.outcome = reason]
  /\ UNCHANGED cancel

World == ChildWrites \/ ChildExits \/ StreamsClose \/ TimePasses
Poll == TryWait \/ TryWaitFails \/ PipesAndDecide

=============================================================================
