---------------------------- MODULE RunLockProofs ----------------------------
(***************************************************************************)
(* Theorems of RunLock, for any set of processes and any number of files.  *)
(* The lock keeps a file to one process; until the name is removed there   *)
(* is one file; and a file keeps its name only while somebody who will     *)
(* remove it has it open, or when somebody who was killed had.             *)
(***************************************************************************)
EXTENDS RunLock, TLAPS

(* The OS lock: one holder per file. *)
OneHolder == \A p, q \in Procs :
                 pc[p] \in Holding /\ pc[q] \in Holding /\ fd[p] = fd[q] => p = q

(* Before the first removal there is at most one file, and it has the name. *)
OneFile == ~removed => path = made /\ made <= 1

(* A process that has removed the name has open a file without one. *)
LeavingUnnamed == \A p \in Procs : pc[p] = "leaving" => fd[p] # path

(* A named file nobody was killed with is open in a launch still under way. *)
NamedIsOpen ==
    path \notin {0} \cup killed => \E p \in Procs : pc[p] \in {"opened", "driving"} /\ fd[p] = path

Inv == TypeOK /\ OneHolder /\ OneFile /\ LeavingUnnamed /\ NamedIsOpen

(* No file, no launch under way. *)
LEMMA InitInv == Init => Inv
<1> SUFFICES ASSUME Init PROVE Inv
  OBVIOUS
<1>1. 0 \in 0..MaxInodes /\ 0 \in 0..0
  BY InodesAssumption
<1>2. TypeOK
  BY <1>1 DEF Init, TypeOK
<1>3. OneHolder /\ OneFile /\ LeavingUnnamed /\ NamedIsOpen
  BY DEF Init, OneHolder, OneFile, LeavingUnnamed, NamedIsOpen, Holding
<1> QED
  BY <1>2, <1>3 DEF Inv

(* Opening the file under the name, whether or not it had to be created. *)
LEMMA OpenInv ==
    ASSUME Inv, NEW p \in Procs, OpenExisting(p) \/ OpenCreating(p)
    PROVE  Inv'
<1>0. TypeOK /\ OneHolder /\ OneFile /\ LeavingUnnamed /\ NamedIsOpen
  BY DEF Inv
<1>1. made \in Nat /\ MaxInodes \in Nat /\ path \in Nat /\ \A q \in Procs : fd[q] \in Nat
  BY <1>0, InodesAssumption DEF TypeOK
<1>2. CASE OpenExisting(p)
  <2>1. TypeOK'
    BY <1>0, <1>1, <1>2 DEF OpenExisting, TypeOK
  <2>2. OneHolder' /\ OneFile' /\ LeavingUnnamed'
    BY <1>0, <1>2 DEF OpenExisting, TypeOK, OneHolder, OneFile, LeavingUnnamed, Holding
  <2>3. NamedIsOpen'
    BY <1>0, <1>2 DEF OpenExisting, TypeOK, NamedIsOpen
  <2> QED
    BY <2>1, <2>2, <2>3 DEF Inv
<1>3. CASE OpenCreating(p)
  <2>1. \A q \in Procs : fd[q] <= made
    <3> TAKE q \in Procs
    <3>1. fd[q] \in 0..made
      BY <1>0 DEF TypeOK
    <3> QED
      BY <1>1, <3>1
  <2>2. TypeOK'
    BY <1>0, <1>1, <1>3, <2>1 DEF OpenCreating, TypeOK
  <2>3. OneHolder'
    BY <1>0, <1>3 DEF OpenCreating, TypeOK, OneHolder, Holding
  <2>4. OneFile'
    BY <1>0, <1>1, <1>3 DEF OpenCreating, OneFile
  <2>5. LeavingUnnamed'
    BY <1>0, <1>1, <1>3, <2>1 DEF OpenCreating, TypeOK, LeavingUnnamed
  <2>6. NamedIsOpen'
    BY <1>0, <1>3 DEF OpenCreating, TypeOK, NamedIsOpen
  <2> QED
    BY <2>2, <2>3, <2>4, <2>5, <2>6 DEF Inv
<1> QED
  BY <1>2, <1>3

(* The lock is taken, or the launch turned away. *)
LEMMA TryLockInv ==
    ASSUME Inv, NEW p \in Procs, TryLock(p) \/ Refused(p)
    PROVE  Inv'
<1>0. TypeOK /\ OneHolder /\ OneFile /\ LeavingUnnamed /\ NamedIsOpen
  BY DEF Inv
<1>1. CASE TryLock(p)
  <2>1. TypeOK' /\ OneFile' /\ LeavingUnnamed' /\ NamedIsOpen'
    BY <1>0, <1>1 DEF TryLock, TypeOK, OneFile, LeavingUnnamed, NamedIsOpen
  <2>2. OneHolder'
    BY <1>0, <1>1 DEF TryLock, TypeOK, OneHolder, Locked, Holding
  <2> QED
    BY <2>1, <2>2 DEF Inv
<1>2. CASE Refused(p)
  <2>1. TypeOK'
    BY <1>0, <1>2, InodesAssumption DEF Refused, TypeOK
  <2>2. OneFile' /\ LeavingUnnamed' /\ OneHolder'
    BY <1>0, <1>2 DEF Refused, TypeOK, OneHolder, OneFile, LeavingUnnamed, Holding
  <2>3. NamedIsOpen'
    <3> SUFFICES ASSUME path \notin {0} \cup killed
                 PROVE  \E q \in Procs : pc'[q] \in {"opened", "driving"} /\ fd'[q] = path
      BY <1>2 DEF Refused, NamedIsOpen
    <3>1. PICK r \in Procs : pc[r] \in {"opened", "driving"} /\ fd[r] = path
      BY <1>0 DEF NamedIsOpen
    <3>2. PICK q \in Procs : pc[q] \in Holding /\ fd[q] = fd[p]
      BY <1>2 DEF Refused, Locked
    <3>3. CASE r # p
      BY <1>0, <1>2, <3>1, <3>3 DEF Refused, TypeOK
    <3>4. CASE r = p
      <4>1. pc[q] = "driving" /\ fd[q] = path /\ q # p
        BY <1>0, <1>2, <3>1, <3>2, <3>4 DEF LeavingUnnamed, Holding, Refused
      <4> QED
        BY <1>0, <1>2, <4>1 DEF Refused, TypeOK
    <3> QED
      BY <3>3, <3>4
  <2> QED
    BY <2>1, <2>2, <2>3 DEF Inv
<1> QED
  BY <1>1, <1>2

(* The way out: the name goes first, then the lock; or the process dies. *)
LEMMA LeaveInv ==
    ASSUME Inv, NEW p \in Procs, RemoveName(p) \/ DropLock(p) \/ Kill(p)
    PROVE  Inv'
<1>0. TypeOK /\ OneHolder /\ OneFile /\ LeavingUnnamed /\ NamedIsOpen
  BY DEF Inv
<1>1. made \in Nat /\ 0 \in 0..made
  BY <1>0, InodesAssumption DEF TypeOK
<1>2. CASE RemoveName(p)
  BY <1>0, <1>1, <1>2
     DEF RemoveName, Inv, TypeOK, OneHolder, OneFile, LeavingUnnamed, NamedIsOpen, Holding
<1>3. CASE DropLock(p)
  <2>1. TypeOK' /\ OneHolder' /\ OneFile' /\ LeavingUnnamed'
    BY <1>0, <1>1, <1>3 DEF DropLock, TypeOK, OneHolder, OneFile, LeavingUnnamed, Holding
  <2>2. NamedIsOpen'
    BY <1>0, <1>3 DEF DropLock, TypeOK, NamedIsOpen
  <2> QED
    BY <2>1, <2>2 DEF Inv
<1>4. CASE Kill(p)
  <2>1. fd[p] \in 1..made
    <3>1. fd[p] \in 0..made /\ fd[p] # 0
      BY <1>0, <1>4 DEF Kill, TypeOK
    <3> QED
      BY <1>1, <3>1
  <2>2. TypeOK'
    BY <1>0, <1>1, <1>4, <2>1 DEF Kill, TypeOK
  <2>3. OneHolder' /\ OneFile' /\ LeavingUnnamed'
    BY <1>0, <1>4 DEF Kill, TypeOK, OneHolder, OneFile, LeavingUnnamed, Holding
  <2>4. NamedIsOpen'
    <3> SUFFICES ASSUME path \notin {0} \cup killed \cup {fd[p]}
                 PROVE  \E q \in Procs : pc'[q] \in {"opened", "driving"} /\ fd'[q] = path
      BY <1>4 DEF Kill, NamedIsOpen
    <3>1. PICK r \in Procs : pc[r] \in {"opened", "driving"} /\ fd[r] = path
      BY <1>0 DEF NamedIsOpen
    <3> QED
      BY <1>0, <1>4, <3>1 DEF Kill, TypeOK
  <2> QED
    BY <2>2, <2>3, <2>4 DEF Inv
<1> QED
  BY <1>2, <1>3, <1>4

(* Every step keeps the inductive invariant. *)
LEMMA NextInv == Inv /\ [Next]_vars => Inv'
<1> SUFFICES ASSUME Inv, [Next]_vars PROVE Inv'
  OBVIOUS
<1>1. CASE UNCHANGED vars
  BY <1>1 DEF vars, Inv, TypeOK, OneHolder, OneFile, LeavingUnnamed, NamedIsOpen, Holding
<1>2. CASE Next
  BY <1>2, OpenInv, TryLockInv, LeaveInv DEF Next
<1> QED
  BY <1>1, <1>2

(* The induction. *)
THEOREM Inductive == Spec => []Inv
BY InitInv, NextInv, PTL DEF Spec

(* The variables keep their types, and a process has a file open exactly
   while its launch is under way. *)
THEOREM TypeCorrect == Spec => []TypeOK
<1>1. Inv => TypeOK
  BY DEF Inv
<1> QED
  BY <1>1, Inductive, PTL

(* However many launches race and however many drivers are killed, the run
   has one driver as long as no driver has removed driver.lock. *)
THEOREM LockKeepsSecondDriverOff == Spec => []OneDriverUntilRemoval
<1>1. Inv => OneDriverUntilRemoval
  <2> SUFFICES ASSUME Inv, ~removed, NEW p \in Procs, NEW q \in Procs,
                      pc[p] = "driving", pc[q] = "driving"
               PROVE  p = q
    BY DEF OneDriverUntilRemoval, OneDriver
  <2>1. made \in Nat /\ made <= 1 /\ fd[p] \in 0..made /\ fd[q] \in 0..made
    BY DEF Inv, TypeOK, OneFile
  <2>2. fd[p] # 0 /\ fd[q] # 0
    BY DEF Inv, TypeOK
  <2>3. fd[p] = fd[q]
    BY <2>1, <2>2
  <2> QED
    BY <2>3 DEF Inv, OneHolder, Holding
<1> QED
  BY <1>1, Inductive, PTL

(* Once every launch is over no lock file is left but one that a killed
   process had open. *)
THEOREM LockIsRemoved == Spec => []LeftByKilled
<1>1. Inv => LeftByKilled
  BY DEF Inv, NamedIsOpen, LeftByKilled
<1> QED
  BY <1>1, Inductive, PTL
=============================================================================
