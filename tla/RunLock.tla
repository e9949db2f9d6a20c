------------------------------- MODULE RunLock -------------------------------
(***************************************************************************)
(* driver.lock: how drive() (dream/driver.rs) keeps a second driver off a  *)
(* run directory.  A driver process opens the file by name, creating it    *)
(* when missing, tries the OS lock on what it opened, drives, removes the  *)
(* name, and then lets the lock go.  The name and the file it opened are   *)
(* different things: a lock is on a file (an inode), a removal is of a     *)
(* name.                                                                   *)
(*                                                                         *)
(* The pid written into the file is for viewers and is left out, as is the *)
(* pid check that emath dream resume makes first: it only refuses          *)
(* launches that would be allowed here.                                    *)
(***************************************************************************)
EXTENDS Naturals

CONSTANTS Procs,     \* driver processes (emath dream __drive), one launch each
          MaxInodes  \* bound: files ever created under the name

ASSUME InodesAssumption == MaxInodes \in Nat

VARIABLES pc,        \* "idle", "opened", "driving", "leaving", "done"
          fd,        \* the file a process has open, 0 for none
          path,      \* the file the name driver.lock leads to, 0 for none
          made,      \* files created so far: 1..made
          removed,   \* history: some driver has removed the name
          killed     \* history: the files that killed processes had open

vars == <<pc, fd, path, made, removed, killed>>

Holding == {"driving", "leaving"}
Locked(n) == \E p \in Procs : pc[p] \in Holding /\ fd[p] = n

Init == /\ pc = [p \in Procs |-> "idle"]
        /\ fd = [p \in Procs |-> 0]
        /\ path = 0 /\ made = 0
        /\ removed = FALSE /\ killed = {}

OpenExisting(p) ==
    /\ pc[p] = "idle" /\ path # 0
    /\ fd' = [fd EXCEPT ![p] = path]
    /\ pc' = [pc EXCEPT ![p] = "opened"]
    /\ UNCHANGED <<path, made, removed, killed>>

(* Mutant: the file is created anew and renamed over the name. *)
OpenReplacing(p) ==
    /\ pc[p] = "idle" /\ made < MaxInodes
    /\ made' = made + 1
    /\ path' = made + 1
    /\ fd' = [fd EXCEPT ![p] = made + 1]
    /\ pc' = [pc EXCEPT ![p] = "opened"]
    /\ UNCHANGED <<removed, killed>>

OpenCreating(p) ==
    /\ pc[p] = "idle" /\ path = 0 /\ made < MaxInodes
    /\ made' = made + 1
    /\ path' = made + 1
    /\ fd' = [fd EXCEPT ![p] = made + 1]
    /\ pc' = [pc EXCEPT ![p] = "opened"]
    /\ UNCHANGED <<removed, killed>>

(* try_lock succeeds: open the run and drive it *)
TryLock(p) ==
    /\ pc[p] = "opened" /\ ~Locked(fd[p])
    /\ pc' = [pc EXCEPT ![p] = "driving"]
    /\ UNCHANGED <<fd, path, made, removed, killed>>

(* try_lock would block: dream_run_live *)
Refused(p) ==
    /\ pc[p] = "opened" /\ Locked(fd[p])
    /\ pc' = [pc EXCEPT ![p] = "done"]
    /\ fd' = [fd EXCEPT ![p] = 0]
    /\ UNCHANGED <<path, made, removed, killed>>

(* Mutant: the file is left to a launch that has it open. *)
RemoveUnlessOpen(p) ==
    /\ pc[p] = "driving"
    /\ pc' = [pc EXCEPT ![p] = "leaving"]
    /\ path' = IF \E q \in Procs \ {p} : fd[q] = path THEN path ELSE 0
    /\ removed' = TRUE
    /\ UNCHANGED <<fd, made, killed>>

(* The run is over: remove_file(driver.lock), whatever it names by now *)
RemoveName(p) ==
    /\ pc[p] = "driving"
    /\ pc' = [pc EXCEPT ![p] = "leaving"]
    /\ path' = 0
    /\ removed' = TRUE
    /\ UNCHANGED <<fd, made, killed>>

(* drop(lock) *)
DropLock(p) ==
    /\ pc[p] = "leaving"
    /\ pc' = [pc EXCEPT ![p] = "done"]
    /\ fd' = [fd EXCEPT ![p] = 0]
    /\ UNCHANGED <<path, made, removed, killed>>

(* A process dies at any point; the OS drops its lock and its file. *)
Kill(p) ==
    /\ pc[p] \notin {"idle", "done"}
    /\ pc' = [pc EXCEPT ![p] = "done"]
    /\ fd' = [fd EXCEPT ![p] = 0]
    /\ killed' = killed \cup {fd[p]}
    /\ UNCHANGED <<path, made, removed>>

Next == \E p \in Procs : \/ OpenExisting(p) \/ OpenCreating(p)
                         \/ TryLock(p) \/ Refused(p)
                         \/ RemoveName(p) \/ DropLock(p) \/ Kill(p)

Spec == Init /\ [][Next]_vars
-----------------------------------------------------------------------------
(* The type invariant: files have been made before they are opened or named,
   and a process has one open exactly while its launch is under way. *)
TypeOK == /\ pc \in [Procs -> {"idle", "opened", "driving", "leaving", "done"}]
          /\ made \in 0..MaxInodes /\ path \in 0..made
          /\ fd \in [Procs -> 0..made]
          /\ \A p \in Procs : fd[p] = 0 <=> pc[p] \in {"idle", "done"}
          /\ removed \in BOOLEAN /\ killed \in SUBSET (1..made)

(* "that lock ... refuses a second driver" (CONTRACT.md:331): a run directory
   is driven by at most one process. *)
OneDriver == \A p, q \in Procs : pc[p] = "driving" /\ pc[q] = "driving" => p = q

(* While nobody has removed the name, the lock does keep a second driver
   off, however many drivers were killed: a dead driver neither leaves the
   run locked nor lets two in. *)
OneDriverUntilRemoval == removed \/ OneDriver

(* Once every launch is over the lock file is gone (dream_journal.rs "the
   driver removes its lock on exit"), whichever way the launches raced, or it
   is one that a killed process had open: what a kill leaves behind is its own
   file, and a launch that drives on with it clears it away. *)
LeftByKilled ==
    (\A p \in Procs : pc[p] \in {"idle", "done"}) => path \in {0} \cup killed
=============================================================================
