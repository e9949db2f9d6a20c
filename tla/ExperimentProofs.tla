-------------------------- MODULE ExperimentProofs --------------------------
(***************************************************************************)
(* Theorems of Experiment, for any state directories, experiments, limits  *)
(* and budgets, any number of sessions and kills.                          *)
(***************************************************************************)
EXTENDS Experiment, SequenceTheorems, TLAPS

-----------------------------------------------------------------------------
(* One run under limits: what it keeps, for any output limit and any child.  *)

Children ==
  [kind : {"none", "build", "trial"}, pc : {"wait", "pipes", "done"},
   life : {"running", "ok", "bad"}, status : {"none", "ok", "bad"},
   stdin : BOOLEAN, held : BOOLEAN, unread : Nat, got : Nat,
   drained : BOOLEAN, late : BOOLEAN, swept : BOOLEAN, waited : BOOLEAN,
   outcome : Outcomes]

ChildType == child \in Children

(* What the loop knows of its child is so: a status is that of a process that
   is gone and reaped; only a process without one was swept; the end of the
   streams was read where nobody holds them and nothing is left; a trial has
   no more than its limit; and a run is over once it has an outcome. *)
ChildKnown ==
  /\ child.status # "none" => child.life = child.status /\ child.waited
  /\ child.swept => child.status = "none"
  /\ child.drained => ~child.held /\ child.unread = 0
  /\ child.kind = "trial" => child.got <= OutputLimit
  /\ child.pc # "done" => child.outcome = "none" /\ ~child.swept
  /\ child.outcome \in {"none", "unstarted"} \/ (child.waited /\ child.life # "running")
  /\ child.outcome = "ok" => ~child.held /\ child.unread = 0

ChildInv == ChildType /\ ChildKnown

(* Nothing but the pipes is different. *)
SameProcess(c, d) ==
  /\ c.kind = d.kind /\ c.pc = d.pc /\ c.life = d.life /\ c.status = d.status
  /\ c.late = d.late /\ c.swept = d.swept /\ c.waited = d.waited /\ c.outcome = d.outcome

(* No process yet, one that could not be started, and one just spawned. *)
LEMMA SpawnedInv ==
    ASSUME NEW kind \in {"build", "trial"},
           child' \in {NoChild, Unstarted(kind), Spawned(kind)}
    PROVE  ChildInv'
<1> USE OutputAssumption DEF ChildInv, ChildType, ChildKnown, Children, Outcomes
<1>1. CASE child' = NoChild
  BY <1>1 DEF NoChild
<1>2. CASE child' = Unstarted(kind)
  <2>1. child' = [kind |-> kind, pc |-> "done", life |-> "ok", status |-> "none",
                  stdin |-> FALSE, held |-> FALSE, unread |-> 0, got |-> 0,
                  drained |-> FALSE, late |-> FALSE, swept |-> FALSE, waited |-> FALSE,
                  outcome |-> "unstarted"]
    BY <1>2 DEF NoChild, Unstarted
  <2> QED
    BY <2>1
<1>3. CASE child' = Spawned(kind)
  <2>1. (kind = "trial") \in BOOLEAN
    OBVIOUS
  <2>2. child' = [kind |-> kind, pc |-> "wait", life |-> "running", status |-> "none",
                  stdin |-> (kind = "trial"), held |-> TRUE, unread |-> 0, got |-> 0,
                  drained |-> FALSE, late |-> FALSE, swept |-> FALSE, waited |-> FALSE,
                  outcome |-> "none"]
    BY <1>3 DEF NoChild, Spawned
  <2> QED
    BY <2>1, <2>2
<1> QED
  BY <1>1, <1>2, <1>3

(* What the child, its descendants and the clock do. *)
LEMMA WorldInv == ASSUME ChildInv, World PROVE ChildInv'
<1> USE OutputAssumption DEF ChildInv, Children
<1>1. CASE ChildWrites
  BY <1>1 DEF ChildWrites, Running, ChildType, ChildKnown
<1>2. CASE ChildExits
  BY <1>2 DEF ChildExits, Running, ChildType, ChildKnown
<1>3. CASE StreamsClose
  BY <1>3 DEF StreamsClose, Running, ChildType, ChildKnown
<1>4. CASE TimePasses
  BY <1>4 DEF TimePasses, Running, ChildType, ChildKnown
<1> QED
  BY <1>1, <1>2, <1>3, <1>4 DEF World

(* The poll loop. *)
LEMMA PollInv == ASSUME ChildInv, Poll PROVE ChildInv'
<1> USE OutputAssumption DEF ChildInv, Children
<1>1. CASE TryWait
  BY <1>1 DEF TryWait, ChildType, ChildKnown
<1>2. CASE TryWaitFails
  BY <1>2 DEF TryWaitFails, KillAndWait, ChildType, ChildKnown, Outcomes
<1>3. CASE PipesAndDecide
  <2>1. PICK stdin \in {child.stdin, FALSE} :
           LET c == [Read(child) EXCEPT !.stdin = stdin]
               reason == Reason(c, Overflows(child)) IN
             child' = IF reason = "none" THEN [c EXCEPT !.pc = "wait"]
                      ELSE [Stopped(c) EXCEPT !.pc = "done", !.outcome = reason]
    BY <1>3 DEF PipesAndDecide
  <2> DEFINE read == Read(child)
             c == [read EXCEPT !.stdin = stdin]
             reason == Reason(c, Overflows(child))
  <2>2. child.pc = "pipes"
    BY <1>3 DEF PipesAndDecide
  <2>3. /\ read \in Children
        /\ read.drained => ~read.held /\ read.unread = 0
        /\ read.kind = "trial" => read.got <= OutputLimit
        /\ SameProcess(read, child)
    <3>1. CASE child.drained
      BY <3>1 DEF Read, ChildType, ChildKnown, SameProcess
    <3>2. CASE ~child.drained /\ child.unread > 0
      <4> DEFINE got == IF Overflows(child) THEN child.got ELSE child.got + 1
      <4>1. read = [child EXCEPT !.unread = child.unread - 1, !.got = got]
        BY <3>2 DEF Read
      <4>2. child.unread - 1 \in Nat /\ got \in Nat
        BY <3>2 DEF ChildType
      <4>3. child.kind = "trial" => got <= OutputLimit
        BY <3>2 DEF Overflows, ChildType, ChildKnown
      <4> HIDE DEF got
      <4> QED
        BY <3>2, <4>1, <4>2, <4>3 DEF ChildType, SameProcess
    <3>3. CASE ~child.drained /\ ~(child.unread > 0)
      <4>1. read = [child EXCEPT !.drained = ~child.held]
        BY <3>3 DEF Read
      <4>2. child.unread = 0
        BY <3>3 DEF ChildType
      <4>3. CASE child.held
        BY <4>1, <4>2, <4>3 DEF ChildType, ChildKnown, SameProcess
      <4>4. CASE ~child.held
        BY <4>1, <4>2, <4>4 DEF ChildType, ChildKnown, SameProcess
      <4> QED
        BY <4>3, <4>4
    <3> QED
      BY <3>1, <3>2, <3>3
  <2>4. /\ c \in Children
        /\ SameProcess(c, child)
        /\ c.drained = read.drained /\ c.held = read.held
        /\ c.unread = read.unread /\ c.got = read.got
    <3> HIDE DEF read
    <3> QED
      BY <2>1, <2>3 DEF SameProcess, ChildType
  <2>5. reason \in {"none", "cancelled", "overflow", "timeout", "ok", "bad"}
        /\ (reason \in {"ok", "bad"} => c.drained /\ c.status = reason)
    <3> HIDE DEF c
    <3> QED
      BY <2>4 DEF Reason, Complete
  <2>6. CASE reason = "none"
    <3>1. child' = [c EXCEPT !.pc = "wait"]
      BY <2>1, <2>6
    <3> HIDE DEF c, reason
    <3> QED
      BY <2>2, <2>3, <2>4, <3>1 DEF ChildType, ChildKnown, SameProcess
  <2>7. CASE reason # "none"
    <3> DEFINE s == Stopped(c)
    <3>1. /\ s \in Children /\ s.waited /\ s.life # "running"
          /\ s.swept => s.status = "none"
          /\ s.status # "none" => s.life = s.status
          /\ s.kind = c.kind /\ s.status = c.status /\ s.drained = c.drained
          /\ s.held = c.held /\ s.unread = c.unread /\ s.got = c.got
      <4> HIDE DEF c
      <4> QED
        BY <2>2, <2>4 DEF Stopped, KillAndWait, ChildKnown, SameProcess
    <3>2. child' = [s EXCEPT !.pc = "done", !.outcome = reason]
      BY <2>1, <2>7
    <3> HIDE DEF c, reason, s, read
    <3>3. reason \in Outcomes \ {"none", "unstarted"}
      BY <2>5, <2>7 DEF Outcomes
    <3>4. /\ child' \in Children
          /\ child'.waited /\ child'.life = s.life /\ child'.swept = s.swept
          /\ child'.status = s.status /\ child'.pc = "done" /\ child'.outcome = reason
          /\ child'.kind = s.kind /\ child'.drained = s.drained
          /\ child'.held = s.held /\ child'.unread = s.unread /\ child'.got = s.got
      BY <3>1, <3>2, <3>3
    <3>5. c.kind = "trial" => c.got <= OutputLimit
      BY <2>3, <2>4 DEF SameProcess
    <3> QED
      BY <2>3, <2>4, <2>5, <3>1, <3>3, <3>4, <3>5 DEF ChildType, ChildKnown
  <2> QED
    BY <2>6, <2>7
<1> QED
  BY <1>1, <1>2, <1>3 DEF Poll

-----------------------------------------------------------------------------
(* Types.  The sets of lists have names of their own so that a proof about a
   state need not look into them. *)

Kinds == {"none", "experiment_budget", "build_timeout", "build_failed", "invalid_output",
          "timeout", "crash", "output_limit", "spawn_failed", "cancelled", "uncertain"}
Decisions == {"none", "fresh", "used"}

PairRows == [index : Nat, session : Nat, ran : [Arms -> Nat]]
AttemptRows == [index : Nat, session : Nat, status : Kinds]
BuildRows == [arm : Arms, digest : Nat, session : Nat]
LedgerRows == {Row(e, state) : e \in Experiments, state \in {"pending", "consumed"}}

PairLists == Seq(PairRows)
AttemptLists == Seq(AttemptRows)
BuildLists == Seq(BuildRows)
ArmLists == Seq(Arms)
OutputsByArm == [Arms -> Nat]

States ==
  [session : Nat, pending : Nat, elapsed : Nat, pairs : PairLists,
   attempts : AttemptLists, builds : BuildLists, outs : OutputsByArm,
   stable : BOOLEAN, failure : Kinds, decision : Decisions]

Phases == {"idle", "build", "building", "warmup", "trial", "running", "loop",
           "evaluate", "decide", "finish"}

Hosts ==
  [pc : Phases, dir : Dirs \cup {NoSession.dir}, st : States, clock : Nat,
   todo : ArmLists, ran : OutputsByArm, outlook : Decisions]

TypeOK ==
  /\ disk \in [Dirs -> States]
  /\ host \in Hosts
  /\ launched \in [Dirs -> Nat]
  /\ ledger \in Seq(LedgerRows)
  /\ host.pc # "idle" => host.dir \in Dirs

LEMMA EmptyTypes ==
  /\ <<>> \in PairLists /\ <<>> \in AttemptLists /\ <<>> \in BuildLists /\ <<>> \in ArmLists
  /\ [a \in Arms |-> 0] \in OutputsByArm
<1>1. <<>> \in PairLists /\ <<>> \in AttemptLists /\ <<>> \in BuildLists /\ <<>> \in ArmLists
  BY EmptySeq DEF PairLists, AttemptLists, BuildLists, ArmLists
<1>2. [a \in Arms |-> 0] \in OutputsByArm
  BY DEF OutputsByArm
<1> QED
  BY <1>1, <1>2

LEMMA OrderTypes ==
  /\ <<"baseline", "candidate">> \in ArmLists /\ <<"baseline", "candidate">> # <<>>
  /\ <<"candidate", "baseline">> \in ArmLists /\ <<"candidate", "baseline">> # <<>>
<1>1. <<"baseline", "candidate">> \in ArmLists /\ <<"baseline", "candidate">> # <<>>
  BY DEF ArmLists, Arms
<1>2. <<"candidate", "baseline">> \in ArmLists /\ <<"candidate", "baseline">> # <<>>
  BY DEF ArmLists, Arms
<1> QED
  BY <1>1, <1>2

LEMMA FreshType ==
  /\ Fresh \in States /\ Len(Fresh.pairs) = 0 /\ Len(Fresh.attempts) = 0
  /\ Fresh.pending = 0 /\ Fresh.failure = "none" /\ Fresh.decision = "none"
<1> DEFINE zero == [a \in Arms |-> 0]
           empty == <<>>
<1>1. Fresh = [session |-> 0, pending |-> 0, elapsed |-> 0, pairs |-> empty,
               attempts |-> empty, builds |-> empty, outs |-> zero, stable |-> TRUE,
               failure |-> "none", decision |-> "none"]
  BY DEF Fresh
<1>2. empty \in PairLists /\ empty \in AttemptLists /\ empty \in BuildLists
  BY EmptyTypes
<1>3. zero \in OutputsByArm
  BY EmptyTypes
<1>4. Len(empty) = 0
  OBVIOUS
<1> HIDE DEF zero, empty
<1> QED
  BY <1>1, <1>2, <1>3, <1>4 DEF States, Decisions, Kinds

LEMMA NoSessionType ==
  NoSession \in Hosts /\ NoSession.pc = "idle" /\ NoSession.outlook = "none"
<1> DEFINE zero == [a \in Arms |-> 0]
           empty == <<>>
           home == CHOOSE d \in Dirs : TRUE
<1>1. NoSession = [pc |-> "idle", dir |-> home, st |-> Fresh, clock |-> 0, todo |-> empty,
                   ran |-> zero, outlook |-> "none"]
  BY DEF NoSession
<1>2. empty \in ArmLists /\ zero \in OutputsByArm
  BY EmptyTypes
<1> HIDE DEF zero, empty, home
<1> QED
  BY <1>1, <1>2, FreshType DEF Hosts, Phases, Decisions

-----------------------------------------------------------------------------
(* What the helpers of the host return *)

(* Two states with the same measurements and verdict. *)
SameSample(s, t) ==
  /\ s.pairs = t.pairs /\ s.attempts = t.attempts /\ s.pending = t.pending
  /\ s.failure = t.failure /\ s.decision = t.decision

(* A retired pair is an attempt; nothing else is touched. *)
LEMMA RetiredFacts ==
    ASSUME NEW st \in States, NEW status \in Kinds
    PROVE  LET r == Retired(st, status) IN
           /\ r \in States /\ r.pending = 0 /\ r.pairs = st.pairs
           /\ Len(r.attempts) = Len(st.attempts) + (IF st.pending = 0 THEN 0 ELSE 1)
           /\ r.failure = st.failure /\ r.decision = st.decision
<1>1. CASE st.pending = 0
  BY <1>1 DEF Retired, States
<1>2. CASE st.pending # 0
  <2> DEFINE row == [index |-> st.pending, session |-> st.session, status |-> status]
             new == Append(st.attempts, row)
  <2>1. row \in AttemptRows
    BY DEF States, AttemptRows
  <2>2. new \in AttemptLists /\ Len(new) = Len(st.attempts) + 1
    BY <2>1 DEF States, AttemptLists
  <2> DEFINE r == [st EXCEPT !.pending = 0, !.attempts = new]
  <2>3. Retired(st, status) = r
    BY <1>2 DEF Retired
  <2> HIDE DEF row, new
  <2>4. /\ r \in States /\ r.pending = 0 /\ r.attempts = new /\ r.pairs = st.pairs
        /\ r.failure = st.failure /\ r.decision = st.decision
    BY <2>2 DEF States
  <2> QED
    BY <1>2, <2>2, <2>3, <2>4
<1> QED
  BY <1>1, <1>2

(* A commit replaces the checkpoint of one directory by the session's state,
   with its clock. *)
LEMMA CommitFacts ==
    ASSUME NEW h \in Hosts, h.dir \in Dirs, disk \in [Dirs -> States], Commit(h)
    PROVE  /\ disk' \in [Dirs -> States] /\ host' \in Hosts
           /\ \A c \in Dirs : c # h.dir => disk'[c] = disk[c]
           /\ host'.st = disk'[h.dir] /\ SameSample(host'.st, h.st)
           /\ host'.pc = h.pc /\ host'.dir = h.dir /\ host'.outlook = h.outlook
           /\ host'.todo = h.todo
<1> DEFINE st == [h.st EXCEPT !.elapsed = h.clock]
<1>1. h.st \in States /\ h.clock \in Nat
  BY DEF Hosts
<1>2. st \in States /\ SameSample(st, h.st)
  BY <1>1 DEF States, SameSample
<1>3. disk' = [disk EXCEPT ![h.dir] = st] /\ host' = [h EXCEPT !.st = st]
  BY DEF Commit
<1> HIDE DEF st
<1>4. /\ disk' \in [Dirs -> States] /\ disk'[h.dir] = st
      /\ \A c \in Dirs : c # h.dir => disk'[c] = disk[c]
  BY <1>2, <1>3
<1>5. /\ host' \in Hosts /\ host'.st = st /\ host'.pc = h.pc /\ host'.dir = h.dir
      /\ host'.outlook = h.outlook /\ host'.todo = h.todo
  BY <1>2, <1>3 DEF Hosts
<1> QED
  BY <1>2, <1>4, <1>5

(* A session that ends leaves no host behind. *)
LEMMA ReturnFacts ==
    ASSUME Return
    PROVE  host' \in Hosts /\ host'.pc = "idle" /\ child' = NoChild
BY NoSessionType DEF Return

(* A failure is journaled with the attempt it ends. *)
LEMMA FailFacts ==
    ASSUME NEW h \in Hosts, h.dir \in Dirs, disk \in [Dirs -> States],
           NEW kind \in Kinds \ {"none"}, h.st.decision = "none", Fail(h, kind)
    PROVE  /\ disk' \in [Dirs -> States]
           /\ \A c \in Dirs : c # h.dir => disk'[c] = disk[c]
           /\ LET s == disk'[h.dir] IN
              /\ s.pending = 0 /\ s.pairs = h.st.pairs /\ s.decision = "none"
              /\ Len(s.attempts) = Len(h.st.attempts) + (IF h.st.pending = 0 THEN 0 ELSE 1)
           /\ host' \in Hosts /\ host'.pc = "idle" /\ child' = NoChild
           /\ UNCHANGED <<cancel, ledger, starts, kills, launched, lost>>
<1> DEFINE r == Retired(h.st, kind)
           s == [r EXCEPT !.failure = kind, !.elapsed = h.clock]
<1>1. h.st \in States /\ h.clock \in Nat
  BY DEF Hosts
<1>2. /\ r \in States /\ r.pending = 0 /\ r.pairs = h.st.pairs /\ r.decision = "none"
      /\ Len(r.attempts) = Len(h.st.attempts) + (IF h.st.pending = 0 THEN 0 ELSE 1)
  BY <1>1, RetiredFacts
<1>3. disk' = [disk EXCEPT ![h.dir] = s]
  BY DEF Fail
<1> HIDE DEF r
<1>4. /\ s \in States /\ s.pending = 0 /\ s.pairs = h.st.pairs /\ s.decision = "none"
      /\ s.attempts = r.attempts
  BY <1>1, <1>2 DEF States
<1> HIDE DEF s
<1>5. /\ disk' \in [Dirs -> States] /\ disk'[h.dir] = s
      /\ \A c \in Dirs : c # h.dir => disk'[c] = disk[c]
  BY <1>3, <1>4
<1> QED
  BY <1>2, <1>4, <1>5, ReturnFacts DEF Fail

(* Time is a natural number, and only the clock shows it. *)
LEMMA ElapseFacts ==
    ASSUME host \in Hosts, NEW limit \in Nat
    PROVE  LET h == Elapse(host, Took(Least(limit, Remaining(host)))) IN
           /\ h \in Hosts /\ h.st = host.st /\ h.pc = host.pc /\ h.dir = host.dir
           /\ h.todo = host.todo /\ h.ran = host.ran /\ h.outlook = host.outlook
<1>1. Remaining(host) \in Nat
  BY ManifestAssumption DEF Remaining, Hosts
<1>2. Took(Least(limit, Remaining(host))) \in Nat
  BY <1>1 DEF Took, Least
<1> DEFINE t == Took(Least(limit, Remaining(host)))
<1> HIDE DEF t
<1>3. LET h == Elapse(host, t) IN
      /\ h \in Hosts /\ h.st = host.st /\ h.pc = host.pc /\ h.dir = host.dir
      /\ h.todo = host.todo /\ h.ran = host.ran /\ h.outlook = host.outlook
  <2>1. t \in Nat
    BY <1>2 DEF t
  <2> QED
    BY <2>1 DEF Elapse, Hosts
<1> QED
  BY <1>3 DEF t

-----------------------------------------------------------------------------
(* The inductive invariant *)

(* The pairs of a directory, against the n it has launched. *)
Sample(s, n) ==
  /\ Len(s.pairs) <= Pairs
  /\ s.pending # 0 => Len(s.pairs) < Pairs
  /\ n = Len(s.pairs) + Len(s.attempts) + (IF s.pending = 0 THEN 0 ELSE 1)

SamplesHold == \A d \in Dirs : Sample(disk[d], launched[d])

(* Until it only has its ledger row to finish, a session has what the file
   has, and neither has a verdict. *)
SessionHolds ==
  host.pc \notin {"idle", "finish"} =>
    /\ host.st = disk[host.dir]
    /\ host.st.failure = "none" /\ host.st.decision = "none"
    /\ host.pc \notin {"trial", "running"} => host.st.pending = 0
    /\ host.pc = "trial" => host.st.pending # 0
    /\ host.pc \in {"evaluate", "decide"} => Len(host.st.pairs) = Pairs
    /\ host.pc \in {"build", "building", "warmup", "trial", "running"} => host.todo # <<>>

(* e has a row in the ledger; and none of another experiment with its
   workload comes before one of them. *)
Reserved(e) == \E i \in 1..Len(ledger) : ledger[i].experiment = e
Leads(e) ==
  \E i \in 1..Len(ledger) :
    /\ ledger[i].experiment = e
    /\ \A j \in 1..i : ledger[j].audit = WorkloadOf[e] => ledger[j].experiment = e

LedgerHolds ==
  /\ \A d \in Dirs :
       /\ disk[d].decision # "none" => Reserved(Identity[d])
       /\ disk[d].decision = "fresh" => Leads(Identity[d])
  /\ host.pc \in {"decide", "finish"} => Reserved(Identity[host.dir])
  /\ host.pc = "decide" /\ host.outlook = "fresh" => Leads(Identity[host.dir])

IInv == TypeOK /\ SamplesHold /\ SessionHolds /\ LedgerHolds

(* The steps VerdictIsFinal is about. *)
VerdictKept ==
  \A d \in Dirs :
    /\ disk[d].failure # "none" \/ disk[d].decision # "none" => disk'[d] = disk[d]
    /\ disk'[d].decision # disk[d].decision
         => disk'[d].failure = "none" /\ Len(disk'[d].pairs) = Pairs

LEMMA InitInv == Init => IInv
<1> SUFFICES ASSUME Init PROVE IInv
  OBVIOUS
<1>1. /\ disk = [d \in Dirs |-> Fresh] /\ ledger = <<>> /\ host = NoSession
      /\ launched = [d \in Dirs |-> 0]
  BY DEF Init
<1>2. ledger \in Seq(LedgerRows)
  BY <1>1, EmptySeq
<1>3. TypeOK
  BY <1>1, <1>2, FreshType, NoSessionType DEF TypeOK
<1>4. SamplesHold
  <2> SUFFICES ASSUME NEW d \in Dirs PROVE Sample(disk[d], launched[d])
    BY DEF SamplesHold
  <2>1. disk[d] = Fresh /\ launched[d] = 0
    BY <1>1
  <2> QED
    BY <2>1, FreshType, ManifestAssumption DEF Sample
<1>5. SessionHolds
  BY <1>1, NoSessionType DEF SessionHolds
<1>6. LedgerHolds
  BY <1>1, FreshType, NoSessionType DEF LedgerHolds
<1> QED
  BY <1>3, <1>4, <1>5, <1>6 DEF IInv

(* A step that touches one checkpoint at most, and one without a verdict. *)
LEMMA DiskStep ==
    ASSUME SamplesHold, NEW d \in Dirs,
           \A c \in Dirs : c # d => disk'[c] = disk[c] /\ launched'[c] = launched[c],
           Sample(disk'[d], launched'[d]),
           disk[d].failure = "none", disk[d].decision = "none",
           disk'[d].decision # "none"
             => disk'[d].failure = "none" /\ Len(disk'[d].pairs) = Pairs
    PROVE  SamplesHold' /\ VerdictKept
<1>1. SamplesHold'
  <2> SUFFICES ASSUME NEW c \in Dirs PROVE Sample(disk[c], launched[c])'
    BY DEF SamplesHold
  <2>1. CASE c = d
    BY <2>1 DEF Sample
  <2>2. CASE c # d
    BY <2>2 DEF SamplesHold, Sample
  <2> QED
    BY <2>1, <2>2
<1>2. VerdictKept
  BY DEF VerdictKept
<1> QED
  BY <1>1, <1>2

(* Rows of the ledger stay where they are and whose they are. *)
LedgerKept ==
  /\ Len(ledger') >= Len(ledger)
  /\ \A i \in 1..Len(ledger) :
       /\ ledger'[i].experiment = ledger[i].experiment
       /\ ledger'[i].audit = ledger[i].audit

LEMMA LedgerStep ==
    ASSUME ledger \in Seq(LedgerRows), ledger' \in Seq(LedgerRows), LedgerKept, NEW e
    PROVE  /\ Reserved(e) => Reserved(e)'
           /\ Leads(e) => Leads(e)'
<1>1. Len(ledger) \in Nat /\ Len(ledger') \in Nat
  OBVIOUS
<1>2. ASSUME Reserved(e) PROVE Reserved(e)'
  <2>1. PICK i \in 1..Len(ledger) : ledger[i].experiment = e
    BY <1>2 DEF Reserved
  <2>2. i \in 1..Len(ledger') /\ ledger'[i].experiment = e
    BY <1>1, <2>1 DEF LedgerKept
  <2> QED
    BY <2>2 DEF Reserved
<1>3. ASSUME Leads(e) PROVE Leads(e)'
  <2>1. PICK i \in 1..Len(ledger) :
           /\ ledger[i].experiment = e
           /\ \A j \in 1..i : ledger[j].audit = WorkloadOf[e] => ledger[j].experiment = e
    BY <1>3 DEF Leads
  <2>2. i \in 1..Len(ledger') /\ ledger'[i].experiment = e
    BY <1>1, <2>1 DEF LedgerKept
  <2>3. ASSUME NEW j \in 1..i, ledger'[j].audit = WorkloadOf[e]
        PROVE  ledger'[j].experiment = e
    BY <1>1, <2>1, <2>3 DEF LedgerKept
  <2> QED
    BY <2>2, <2>3 DEF Leads
<1> QED
  BY <1>2, <1>3

-----------------------------------------------------------------------------
(* The steps, one lemma each *)

StepHolds == IInv' /\ VerdictKept

(* Steps that leave the files alone; a session may end with them. *)
LEMMA QuietStep ==
    ASSUME IInv, UNCHANGED <<disk, ledger, launched>>, host' \in Hosts,
           host'.dir = host.dir \/ host'.pc = "idle",
           host'.pc # "idle" => host.pc # "idle",
           SessionHolds',
           host'.pc \in {"decide", "finish"} => Reserved(Identity[host'.dir]),
           host'.pc = "decide" /\ host'.outlook = "fresh" => Leads(Identity[host'.dir])
    PROVE  StepHolds
<1>1. TypeOK'
  BY DEF IInv, TypeOK
<1>2. SamplesHold' /\ VerdictKept
  BY DEF IInv, SamplesHold, VerdictKept
<1>3. \A e : (Reserved(e)' <=> Reserved(e)) /\ (Leads(e)' <=> Leads(e))
  BY DEF Reserved, Leads
<1>4. LedgerHolds'
  BY <1>3 DEF IInv, LedgerHolds
<1> QED
  BY <1>1, <1>2, <1>4 DEF StepHolds, IInv

LEMMA ReturnStep ==
    ASSUME IInv, Return, UNCHANGED <<disk, ledger, launched>> PROVE StepHolds
<1>1. host' \in Hosts /\ host'.pc = "idle"
  BY ReturnFacts
<1>2. SessionHolds'
  BY <1>1 DEF SessionHolds
<1> QED
  BY <1>1, <1>2, QuietStep

LEMMA IdleStep ==
    ASSUME IInv, UNCHANGED <<disk, ledger, host, launched>> PROVE StepHolds
<1>1. SessionHolds'
  BY DEF IInv, SessionHolds
<1> QED
  BY <1>1, QuietStep DEF IInv, TypeOK, LedgerHolds

(* Only the place in run moves on. *)
LEMMA MoveStep ==
    ASSUME IInv, NEW pc \in Phases \ {"idle", "decide", "finish"},
           host.pc \notin {"idle", "finish"},
           host' = [host EXCEPT !.pc = pc],
           pc \notin {"trial", "running"} => host.st.pending = 0,
           pc = "trial" => host.st.pending # 0,
           pc = "evaluate" => Len(host.st.pairs) = Pairs,
           pc \in {"build", "building", "warmup", "trial", "running"} => host.todo # <<>>,
           UNCHANGED <<disk, ledger, launched>>
    PROVE  StepHolds
<1>1. /\ host' \in Hosts /\ host'.pc = pc /\ host'.dir = host.dir /\ host'.st = host.st
      /\ host'.todo = host.todo
  BY DEF IInv, TypeOK, Hosts
<1>2. SessionHolds'
  BY <1>1 DEF IInv, SessionHolds
<1> QED
  BY <1>1, <1>2, QuietStep

LEMMA LaunchStep == ASSUME IInv, LaunchBuild \/ LaunchTrial PROVE StepHolds
<1>1. CASE LaunchBuild
  <2>1. host.pc = "build" /\ host' = [host EXCEPT !.pc = "building"]
        /\ UNCHANGED <<disk, ledger, launched>>
    BY <1>1 DEF LaunchBuild, Launch
  <2> QED
    BY <2>1, MoveStep DEF Phases, IInv, SessionHolds
<1>2. CASE LaunchTrial
  <2>1. host.pc \in {"warmup", "trial"} /\ host' = [host EXCEPT !.pc = "running"]
        /\ UNCHANGED <<disk, ledger, launched>>
    BY <1>2 DEF LaunchTrial, Launch
  <2> QED
    BY <2>1, MoveStep DEF Phases, IInv, SessionHolds
<1> QED
  BY <1>1, <1>2

LEMMA AllMeasuredStep == ASSUME IInv, AllMeasured PROVE StepHolds
<1>1. /\ host.pc = "loop" /\ Len(host.st.pairs) = Pairs
      /\ host' = [host EXCEPT !.pc = "evaluate"] /\ UNCHANGED <<disk, ledger, launched>>
  BY DEF AllMeasured
<1> QED
  BY <1>1, MoveStep DEF Phases, IInv, SessionHolds

(* A commit by a session that goes on without a verdict. *)
LEMMA CommitStep ==
    ASSUME IInv, NEW h \in Hosts, h.dir \in Dirs, Commit(h),
           disk[h.dir].failure = "none", disk[h.dir].decision = "none",
           h.st.failure = "none", h.st.decision = "none",
           h.pc \in {"build", "warmup", "trial", "loop", "evaluate"},
           IF h.pc = "trial" THEN h.st.pending # 0 ELSE h.st.pending = 0,
           h.pc = "evaluate" => Len(h.st.pairs) = Pairs,
           h.pc \in {"build", "warmup", "trial"} => h.todo # <<>>,
           launched' \in [Dirs -> Nat],
           \A c \in Dirs : c # h.dir => launched'[c] = launched[c],
           Sample(h.st, launched'[h.dir]),
           UNCHANGED ledger
    PROVE  StepHolds
<1> DEFINE d == h.dir
<1>1. disk \in [Dirs -> States]
  BY DEF IInv, TypeOK
<1>2. /\ disk' \in [Dirs -> States] /\ host' \in Hosts
      /\ \A c \in Dirs : c # d => disk'[c] = disk[c]
      /\ host'.st = disk'[d] /\ SameSample(host'.st, h.st)
      /\ host'.pc = h.pc /\ host'.dir = d /\ host'.todo = h.todo
  BY <1>1, CommitFacts
<1>3. TypeOK'
  BY <1>2 DEF IInv, TypeOK
<1>4. Sample(disk'[d], launched'[d]) /\ disk'[d].decision = "none"
  BY <1>2 DEF SameSample, Sample
<1>5. SamplesHold' /\ VerdictKept
  BY <1>2, <1>4, DiskStep DEF IInv
<1>6. SessionHolds'
  BY <1>2 DEF SessionHolds, SameSample
<1>7. \A e : (Reserved(e)' <=> Reserved(e)) /\ (Leads(e)' <=> Leads(e))
  BY DEF Reserved, Leads
<1>8. LedgerHolds'
  <2>1. \A c \in Dirs : disk'[c].decision = "none" \/ disk'[c] = disk[c]
    BY <1>2, <1>4
  <2> QED
    BY <1>2, <1>7, <2>1 DEF IInv, LedgerHolds
<1> QED
  BY <1>3, <1>5, <1>6, <1>8 DEF StepHolds, IInv

LEMMA RetiredSample ==
    ASSUME NEW s \in States, NEW t, NEW n, Sample(s, n), t.pending = 0, t.pairs = s.pairs,
           Len(t.attempts) = Len(s.attempts) + (IF s.pending = 0 THEN 0 ELSE 1)
    PROVE  Sample(t, n)
<1>1. Len(s.pairs) \in Nat /\ Len(s.attempts) \in Nat
  BY DEF States, PairLists, AttemptLists
<1>2. CASE s.pending = 0
  BY <1>1, <1>2 DEF Sample
<1>3. CASE s.pending # 0
  <2> DEFINE p == Len(s.pairs)
             a == Len(s.attempts)
             b == Len(t.attempts)
  <2>1. p <= Pairs /\ n = p + a + 1 /\ b = a + 1 /\ p \in Nat /\ a \in Nat
    BY <1>1, <1>3 DEF Sample
  <2> HIDE DEF p, a, b
  <2>2. p <= Pairs /\ n = p + b + 0
    BY <2>1
  <2> QED
    BY <2>2 DEF Sample, p, b
<1> QED
  BY <1>2, <1>3

(* A session that journals a failure. *)
LEMMA FailStep ==
    ASSUME IInv, host.pc \notin {"idle", "finish"},
           NEW h \in Hosts, h.dir = host.dir, h.st = host.st,
           NEW kind \in Kinds \ {"none"}, Fail(h, kind)
    PROVE  StepHolds
<1> DEFINE d == h.dir
<1>1. /\ d \in Dirs /\ disk \in [Dirs -> States] /\ h.st = disk[d]
      /\ h.st.failure = "none" /\ h.st.decision = "none"
  BY DEF IInv, TypeOK, SessionHolds
<1>2. /\ disk' \in [Dirs -> States] /\ \A c \in Dirs : c # d => disk'[c] = disk[c]
      /\ disk'[d].pending = 0 /\ disk'[d].pairs = h.st.pairs /\ disk'[d].decision = "none"
      /\ Len(disk'[d].attempts) = Len(h.st.attempts) + (IF h.st.pending = 0 THEN 0 ELSE 1)
      /\ host' \in Hosts /\ host'.pc = "idle" /\ UNCHANGED <<ledger, launched>>
  BY <1>1, FailFacts
<1>3. TypeOK'
  BY <1>2 DEF IInv, TypeOK
<1>4. Sample(disk'[d], launched'[d])
  <2>1. Sample(h.st, launched[d])
    BY <1>1 DEF IInv, SamplesHold
  <2>2. Sample(disk'[d], launched[d])
    BY <1>1, <1>2, <2>1, RetiredSample DEF Hosts
  <2> QED
    BY <1>2, <2>2
<1>5. SamplesHold' /\ VerdictKept
  BY <1>1, <1>2, <1>4, DiskStep DEF IInv
<1>6. SessionHolds'
  BY <1>2 DEF SessionHolds
<1>7. \A e : (Reserved(e)' <=> Reserved(e)) /\ (Leads(e)' <=> Leads(e))
  BY <1>2 DEF Reserved, Leads
<1>8. LedgerHolds'
  <2>1. \A c \in Dirs : disk'[c].decision = "none" \/ disk'[c] = disk[c]
    BY <1>2
  <2> QED
    BY <1>2, <1>7, <2>1 DEF IInv, LedgerHolds
<1> QED
  BY <1>3, <1>5, <1>6, <1>8 DEF StepHolds, IInv

(* The attempt that is cancelled is retained, and the session returns. *)
LEMMA CancelledStep ==
    ASSUME IInv, host.pc \notin {"idle", "finish"},
           NEW h \in Hosts, h.dir = host.dir, h.st = host.st,
           disk' = [disk EXCEPT ![h.dir] =
                      [Retired(h.st, "cancelled") EXCEPT !.elapsed = h.clock]],
           Return, UNCHANGED <<ledger, launched>>
    PROVE  StepHolds
<1> DEFINE d == h.dir
           r == Retired(h.st, "cancelled")
           s == [r EXCEPT !.elapsed = h.clock]
<1>1. /\ d \in Dirs /\ disk \in [Dirs -> States] /\ h.st = disk[d] /\ h.clock \in Nat
      /\ h.st \in States /\ h.st.failure = "none" /\ h.st.decision = "none"
  BY DEF IInv, TypeOK, SessionHolds, Hosts
<1>2. /\ r \in States /\ r.pending = 0 /\ r.pairs = h.st.pairs
      /\ Len(r.attempts) = Len(h.st.attempts) + (IF h.st.pending = 0 THEN 0 ELSE 1)
      /\ r.decision = "none"
  BY <1>1, RetiredFacts DEF Kinds
<1> HIDE DEF r
<1>3. /\ s \in States /\ s.pending = 0 /\ s.pairs = h.st.pairs /\ s.attempts = r.attempts
      /\ s.decision = "none"
  BY <1>1, <1>2 DEF States
<1>4. disk' = [disk EXCEPT ![d] = s]
  BY DEF r
<1> HIDE DEF s
<1>5. /\ disk' \in [Dirs -> States] /\ disk'[d] = s
      /\ \A c \in Dirs : c # d => disk'[c] = disk[c]
  BY <1>1, <1>3, <1>4
<1>6. host' \in Hosts /\ host'.pc = "idle"
  BY ReturnFacts
<1>7. TypeOK'
  BY <1>5, <1>6 DEF IInv, TypeOK
<1>8. Sample(disk'[d], launched'[d])
  <2>1. Sample(h.st, launched[d])
    BY <1>1 DEF IInv, SamplesHold
  <2>2. Sample(s, launched[d])
    BY <1>1, <1>2, <1>3, <2>1, RetiredSample
  <2> QED
    BY <1>5, <2>2
<1>9. SamplesHold' /\ VerdictKept
  BY <1>1, <1>3, <1>5, <1>8, DiskStep DEF IInv
<1>10. SessionHolds'
  BY <1>6 DEF SessionHolds
<1>11. \A e : (Reserved(e)' <=> Reserved(e)) /\ (Leads(e)' <=> Leads(e))
  BY DEF Reserved, Leads
<1>12. LedgerHolds'
  <2>1. \A c \in Dirs : disk'[c].decision = "none" \/ disk'[c] = disk[c]
    BY <1>3, <1>5
  <2> QED
    BY <1>6, <1>11, <2>1 DEF IInv, LedgerHolds
<1> QED
  BY <1>7, <1>9, <1>10, <1>12 DEF StepHolds, IInv

(* A session begins. *)
LEMMA StartStep == ASSUME IInv, NEW d \in Dirs, Start(d) PROVE StepHolds
<1> DEFINE old == [disk[d] EXCEPT !.session = @ + 1]
           st == Retired(old, "uncertain")
           arms == <<"baseline", "candidate">>
           h == [NoSession EXCEPT !.dir = d, !.st = st, !.clock = st.elapsed, !.todo = arms]
<1>1. disk[d] \in States /\ disk[d].failure = "none" /\ UNCHANGED <<ledger, launched>>
  BY DEF Start, IInv, TypeOK
<1>2. IF st.decision # "none" THEN host' = [h EXCEPT !.pc = "finish"] /\ UNCHANGED disk
      ELSE Commit([h EXCEPT !.pc = "build"])
  BY DEF Start
<1>3. old \in States /\ SameSample(old, disk[d])
  BY <1>1 DEF States, SameSample
<1> HIDE DEF old
<1>4. /\ st \in States /\ st.pending = 0 /\ st.pairs = old.pairs
      /\ Len(st.attempts) = Len(old.attempts) + (IF old.pending = 0 THEN 0 ELSE 1)
      /\ st.failure = old.failure /\ st.decision = old.decision
  BY <1>3, RetiredFacts DEF Kinds
<1>5. arms \in ArmLists /\ arms # <<>>
  BY OrderTypes
<1> HIDE DEF st, arms
<1>6. st.elapsed \in Nat
  BY <1>4 DEF States
<1>7. CASE st.decision # "none"
  <2> DEFINE g == [h EXCEPT !.pc = "finish"]
  <2>1. g \in Hosts /\ g.pc = "finish" /\ g.dir = d
    BY <1>4, <1>5, <1>6, NoSessionType DEF Hosts, Phases
  <2>2. host' = g /\ UNCHANGED disk
    BY <1>2, <1>7
  <2> HIDE DEF g
  <2>3. TypeOK'
    BY <1>1, <2>1, <2>2 DEF IInv, TypeOK
  <2>4. SamplesHold' /\ VerdictKept
    BY <1>1, <2>2 DEF IInv, SamplesHold, VerdictKept
  <2>5. SessionHolds'
    BY <2>1, <2>2 DEF SessionHolds
  <2>6. \A e : (Reserved(e)' <=> Reserved(e)) /\ (Leads(e)' <=> Leads(e))
    BY <1>1 DEF Reserved, Leads
  <2>7. disk[d].decision # "none"
    BY <1>3, <1>4, <1>7 DEF SameSample
  <2>8. LedgerHolds'
    BY <2>1, <2>2, <2>6, <2>7 DEF IInv, LedgerHolds
  <2> QED
    BY <2>3, <2>4, <2>5, <2>8 DEF StepHolds, IInv
<1>8. CASE st.decision = "none"
  <2> DEFINE g == [h EXCEPT !.pc = "build"]
  <2>1. g \in Hosts /\ g.pc = "build" /\ g.dir = d /\ g.st = st /\ g.todo = arms
    BY <1>4, <1>5, <1>6, NoSessionType DEF Hosts, Phases
  <2>2. Commit(g)
    BY <1>2, <1>8
  <2> HIDE DEF g
  <2>3. disk[d].decision = "none" /\ st.failure = "none"
    BY <1>1, <1>3, <1>4, <1>8 DEF SameSample
  <2>4. Sample(st, launched'[d])
    <3>1. Sample(old, launched[d])
      BY <1>1, <1>3 DEF IInv, SamplesHold, Sample, SameSample
    <3>2. Sample(st, launched[d])
      BY <1>3, <1>4, <3>1, RetiredSample
    <3> QED
      BY <1>1, <3>2
  <2>5. launched' \in [Dirs -> Nat]
    BY <1>1 DEF IInv, TypeOK
  <2> QED
    BY <1>1, <1>4, <1>5, <1>8, <2>1, <2>2, <2>3, <2>4, <2>5, CommitStep
<1> QED
  BY <1>7, <1>8

(* What a session at work knows of its own. *)
LEMMA AtWork ==
    ASSUME IInv, host.pc \notin {"idle", "finish"}
    PROVE  /\ host \in Hosts /\ host.dir \in Dirs /\ disk \in [Dirs -> States]
           /\ host.st \in States /\ host.st = disk[host.dir]
           /\ host.st.failure = "none" /\ host.st.decision = "none"
           /\ Sample(host.st, launched[host.dir])
           /\ launched \in [Dirs -> Nat]
BY DEF IInv, TypeOK, SessionHolds, SamplesHold, Hosts

LEMMA BuildDoneStep == ASSUME IInv, BuildDone PROVE StepHolds
<1> DEFINE limit == Least(BuildLimit, Remaining(host))
           h == Elapse(host, Took(limit))
           arm == Head(host.todo)
<1>1. host.pc = "building" /\ host.st.pending = 0 /\ host.todo # <<>> /\ host.todo \in ArmLists
  BY DEF BuildDone, IInv, SessionHolds, TypeOK, Hosts
<1>2. /\ h \in Hosts /\ h.st = host.st /\ h.dir = host.dir /\ h.todo = host.todo
  BY ElapseFacts, ManifestAssumption DEF IInv, TypeOK
<1>3. \/ Fail(h, IF limit < BuildLimit THEN "experiment_budget" ELSE "build_timeout")
      \/ Fail(h, "build_failed")
      \/ \E digest \in DigestsOf(host.st, arm) :
           LET st == [h.st EXCEPT !.builds = Append(@, [arm |-> arm, digest |-> digest,
                                                        session |-> h.st.session])]
               rest == Tail(host.todo)
               next == IF rest # <<>> THEN "build" ELSE AfterBuilds(st) IN
             /\ Commit([h EXCEPT !.st = st, !.pc = next,
                                 !.todo = IF next = "warmup" THEN WarmupArms ELSE rest])
             /\ UNCHANGED <<ledger, launched>>
      \/ Return /\ UNCHANGED <<disk, ledger, launched>>
  BY DEF BuildDone
<1> HIDE DEF h, limit
<1>4. ASSUME NEW kind \in {"experiment_budget", "build_timeout", "build_failed"}, Fail(h, kind)
      PROVE  StepHolds
  BY <1>1, <1>2, <1>4, FailStep DEF Kinds
<1>5. CASE Return /\ UNCHANGED <<disk, ledger, launched>>
  BY <1>5, ReturnStep
<1>6. ASSUME NEW digest \in DigestsOf(host.st, arm),
             LET st == [h.st EXCEPT !.builds = Append(@, [arm |-> arm, digest |-> digest,
                                                          session |-> h.st.session])]
                 rest == Tail(host.todo)
                 next == IF rest # <<>> THEN "build" ELSE AfterBuilds(st) IN
               /\ Commit([h EXCEPT !.st = st, !.pc = next,
                                   !.todo = IF next = "warmup" THEN WarmupArms ELSE rest])
               /\ UNCHANGED <<ledger, launched>>
      PROVE  StepHolds
  <2> DEFINE row == [arm |-> arm, digest |-> digest, session |-> h.st.session]
             builds == Append(h.st.builds, row)
             st == [h.st EXCEPT !.builds = builds]
             rest == Tail(host.todo)
             next == IF rest # <<>> THEN "build" ELSE AfterBuilds(st)
             todo == IF next = "warmup" THEN WarmupArms ELSE rest
             g == [h EXCEPT !.st = st, !.pc = next, !.todo = todo]
  <2>1. Commit(g) /\ UNCHANGED <<ledger, launched>>
    BY <1>6
  <2>2. /\ host \in Hosts /\ host.dir \in Dirs /\ host.st \in States
        /\ host.st = disk[host.dir] /\ disk \in [Dirs -> States]
        /\ host.st.failure = "none" /\ host.st.decision = "none"
        /\ Sample(host.st, launched[host.dir]) /\ launched \in [Dirs -> Nat]
    BY <1>1, AtWork
  <2>3. /\ arm \in Arms /\ rest \in ArmLists
    BY <1>1 DEF ArmLists
  <2>4. digest \in Nat
    BY DEF DigestsOf
  <2>5. builds \in BuildLists
    <3>1. row \in BuildRows
      BY <1>2, <2>2, <2>3, <2>4 DEF BuildRows, States
    <3>2. h.st.builds \in Seq(BuildRows)
      BY <1>2, <2>2 DEF States, BuildLists
    <3> HIDE DEF row
    <3> QED
      BY <3>1, <3>2 DEF BuildLists
  <2> HIDE DEF builds, arm
  <2>6. st \in States /\ SameSample(st, host.st)
    BY <1>2, <2>2, <2>5 DEF States, SameSample
  <2> HIDE DEF st
  <2>7. /\ next \in {"build", "warmup", "loop", "evaluate"}
        /\ next = "build" => rest # <<>>
        /\ next = "evaluate" => Len(st.pairs) >= Pairs
        /\ next = "warmup" => Warmup > 0
    BY DEF AfterBuilds
  <2>8. WarmupArms \in ArmLists /\ (Warmup > 0 => WarmupArms # <<>>)
    <3>1. 2 * Warmup \in Nat
      BY ManifestAssumption
    <3>2. WarmupArms \in Seq(Arms) /\ Len(WarmupArms) = 2 * Warmup
      BY <3>1 DEF WarmupArms, Arms
    <3> QED
      BY <3>2, ManifestAssumption DEF ArmLists
  <2>9. todo \in ArmLists /\ (next \in {"build", "warmup"} => todo # <<>>)
    BY <2>3, <2>7, <2>8
  <2> HIDE DEF next, todo, rest
  <2>10. g \in Hosts /\ g.dir = host.dir /\ g.st = st /\ g.pc = next /\ g.todo = todo
    BY <1>2, <2>6, <2>7, <2>9 DEF Hosts, Phases
  <2> HIDE DEF g
  <2>11. Sample(st, launched'[host.dir])
    BY <2>1, <2>2, <2>6 DEF Sample, SameSample
  <2>12. next = "evaluate" => Len(st.pairs) = Pairs
    BY <2>2, <2>6, <2>7, ManifestAssumption DEF Sample, SameSample, States, PairLists
  <2>13. st.pending = 0 /\ st.failure = "none" /\ st.decision = "none"
    BY <1>1, <2>2, <2>6 DEF SameSample
  <2> QED
    BY <2>1, <2>2, <2>7, <2>9, <2>10, <2>11, <2>12, <2>13, CommitStep
<1> QED
  BY <1>3, <1>4, <1>5, <1>6

LEMMA BeginPairStep == ASSUME IInv, BeginPair PROVE StepHolds
<1> DEFINE index == Len(host.st.pairs) + 1
           order == IF index \in CandidateFirst THEN <<"candidate", "baseline">>
                    ELSE <<"baseline", "candidate">>
           zero == [a \in Arms |-> 0]
           st == [host.st EXCEPT !.pending = index]
           h == [host EXCEPT !.pc = "trial", !.st = st, !.todo = order, !.ran = zero]
           d == host.dir
<1>1. /\ host.pc = "loop" /\ Len(host.st.pairs) < Pairs /\ UNCHANGED ledger
      /\ launched' = [launched EXCEPT ![host.dir] = @ + 1]
  BY DEF BeginPair
<1>2. Commit(h)
  BY DEF BeginPair
<1>3. /\ host \in Hosts /\ d \in Dirs /\ disk \in [Dirs -> States]
      /\ host.st \in States /\ host.st = disk[d]
      /\ host.st.failure = "none" /\ host.st.decision = "none"
      /\ Sample(host.st, launched[d]) /\ launched \in [Dirs -> Nat]
  BY <1>1, AtWork
<1>4. host.st.pending = 0
  BY <1>1 DEF IInv, SessionHolds
<1>5. order \in ArmLists /\ order # <<>>
  BY OrderTypes
<1>6. Len(host.st.pairs) \in Nat /\ Len(host.st.attempts) \in Nat
  BY <1>3 DEF States, PairLists, AttemptLists
<1>7. index \in Nat /\ index # 0
  BY <1>6
<1>8. zero \in OutputsByArm
  BY EmptyTypes
<1> HIDE DEF order, zero, index
<1>9. /\ st \in States /\ st.pending = index /\ st.pairs = host.st.pairs
      /\ st.attempts = host.st.attempts /\ st.failure = "none" /\ st.decision = "none"
  BY <1>3, <1>7 DEF States
<1> HIDE DEF st
<1>10. h \in Hosts /\ h.pc = "trial" /\ h.st = st /\ h.todo = order /\ h.dir = d
  BY <1>3, <1>5, <1>8, <1>9 DEF Hosts, Phases
<1> HIDE DEF h
<1>11. /\ launched' \in [Dirs -> Nat] /\ launched'[d] = launched[d] + 1
       /\ \A c \in Dirs : c # d => launched'[c] = launched[c]
  BY <1>1, <1>3
<1>12. Sample(st, launched'[d])
  <2>1. launched[d] = Len(host.st.pairs) + Len(host.st.attempts)
    BY <1>3, <1>4, <1>6 DEF Sample
  <2>2. launched'[d] = Len(st.pairs) + Len(st.attempts) + 1
    BY <1>9, <1>11, <2>1
  <2>3. Len(st.pairs) < Pairs /\ Len(st.pairs) <= Pairs
    BY <1>1, <1>6, <1>9, ManifestAssumption
  <2> QED
    BY <1>7, <1>9, <2>2, <2>3 DEF Sample
<1> QED
  BY <1>1, <1>2, <1>3, <1>5, <1>7, <1>9, <1>10, <1>11, <1>12, CommitStep

(* A counted pair is a row, and its pending mark is gone. *)
LEMMA PairCountedFacts ==
    ASSUME NEW st \in States, NEW ran \in OutputsByArm
    PROVE  LET s == PairCounted(st, ran) IN
           /\ s \in States /\ s.pending = 0 /\ Len(s.pairs) = Len(st.pairs) + 1
           /\ s.attempts = st.attempts /\ s.failure = st.failure /\ s.decision = st.decision
<1> DEFINE outs == [a \in Arms |-> IF st.outs[a] = 0 THEN ran[a] ELSE st.outs[a]]
           stable == st.stable /\ \A a \in Arms : st.outs[a] \in {0, ran[a]}
           o == Observed(st, ran)
           row == [index |-> st.pending, session |-> st.session, ran |-> ran]
           pairs == Append(o.pairs, row)
           s == [o EXCEPT !.pairs = pairs, !.pending = 0]
<1>1. outs \in OutputsByArm /\ stable \in BOOLEAN
  BY DEF OutputsByArm, States
<1>2. o = [st EXCEPT !.outs = outs, !.stable = stable]
  BY DEF Observed
<1> HIDE DEF outs, stable, o
<1>3. /\ o \in States /\ o.pairs = st.pairs /\ o.attempts = st.attempts
      /\ o.failure = st.failure /\ o.decision = st.decision
  BY <1>1, <1>2 DEF States
<1>4. row \in PairRows
  BY DEF States, PairRows, OutputsByArm
<1> HIDE DEF row
<1>5. pairs \in PairLists /\ Len(pairs) = Len(st.pairs) + 1
  BY <1>3, <1>4 DEF States, PairLists
<1> HIDE DEF pairs
<1>6. /\ s \in States /\ s.pending = 0 /\ s.pairs = pairs /\ s.attempts = o.attempts
      /\ s.failure = o.failure /\ s.decision = o.decision
  BY <1>3, <1>5 DEF States
<1>7. PairCounted(st, ran) = s
  BY DEF PairCounted, pairs, row, o
<1> HIDE DEF s
<1> QED
  BY <1>3, <1>5, <1>6, <1>7

(* A run of the session's pair, or of a warmup, has its outputs. *)
LEMMA RanStep ==
    ASSUME IInv, host.pc = "running", NEW h \in Hosts, h.dir = host.dir, h.st = host.st,
           h.todo = host.todo, h.pc = "running", NEW output \in Nat, Ran(h, output),
           UNCHANGED <<ledger, launched>>
    PROVE  StepHolds
<1> DEFINE arm == Head(h.todo)
           rest == Tail(h.todo)
           ran == [h.ran EXCEPT ![arm] = output]
           d == h.dir
<1>1. /\ host \in Hosts /\ d \in Dirs /\ disk \in [Dirs -> States]
      /\ h.st \in States /\ h.st = disk[d]
      /\ h.st.failure = "none" /\ h.st.decision = "none"
      /\ Sample(h.st, launched[d]) /\ launched \in [Dirs -> Nat]
  BY AtWork
<1>2. h.todo \in ArmLists /\ h.todo # <<>> /\ h.ran \in OutputsByArm
  BY DEF IInv, SessionHolds, Hosts
<1>3. rest \in ArmLists
  BY <1>2 DEF ArmLists
<1>4. ran \in OutputsByArm
  BY <1>2 DEF OutputsByArm
<1>5. IF rest # <<>>
      THEN /\ host' = [h EXCEPT !.todo = rest, !.ran = ran,
                                !.pc = IF h.st.pending = 0 THEN "warmup" ELSE "trial"]
           /\ UNCHANGED disk
      ELSE Commit([h EXCEPT !.todo = <<>>, !.pc = "loop",
                            !.st = IF h.st.pending = 0 THEN h.st ELSE PairCounted(h.st, ran)])
  BY DEF Ran
<1> HIDE DEF rest, ran
<1>6. CASE rest # <<>>
  <2> DEFINE pc == IF h.st.pending = 0 THEN "warmup" ELSE "trial"
  <2>1. host' = [h EXCEPT !.todo = rest, !.ran = ran, !.pc = pc] /\ UNCHANGED disk
    BY <1>5, <1>6
  <2>2. pc \in {"warmup", "trial"} /\ (pc = "trial" <=> h.st.pending # 0)
    OBVIOUS
  <2> HIDE DEF pc
  <2>3. /\ host' \in Hosts /\ host'.pc = pc /\ host'.st = h.st /\ host'.dir = d
        /\ host'.todo = rest
    BY <1>3, <1>4, <2>1, <2>2 DEF Hosts, Phases
  <2>4. SessionHolds'
    BY <1>1, <1>6, <2>1, <2>2, <2>3 DEF SessionHolds
  <2> QED
    BY <2>1, <2>2, <2>3, <2>4, QuietStep
<1>7. CASE rest = <<>> /\ h.st.pending = 0
  <2> DEFINE g == [h EXCEPT !.todo = <<>>, !.pc = "loop", !.st = h.st]
  <2>1. Commit(g)
    BY <1>5, <1>7
  <2>2. g \in Hosts /\ g.pc = "loop" /\ g.st = h.st /\ g.dir = d
    BY <1>1, EmptyTypes DEF Hosts, Phases
  <2> HIDE DEF g
  <2> QED
    BY <1>1, <1>7, <2>1, <2>2, CommitStep
<1>8. CASE rest = <<>> /\ h.st.pending # 0
  <2> DEFINE st == PairCounted(h.st, ran)
             g == [h EXCEPT !.todo = <<>>, !.pc = "loop", !.st = st]
  <2>1. Commit(g)
    BY <1>5, <1>8
  <2>2. /\ st \in States /\ st.pending = 0 /\ Len(st.pairs) = Len(h.st.pairs) + 1
        /\ st.attempts = h.st.attempts /\ st.failure = "none" /\ st.decision = "none"
    BY <1>1, <1>4, PairCountedFacts
  <2> HIDE DEF st
  <2>3. g \in Hosts /\ g.pc = "loop" /\ g.st = st /\ g.dir = d
    BY <1>1, <2>2, EmptyTypes DEF Hosts, Phases
  <2> HIDE DEF g
  <2>4. Sample(st, launched'[d])
    <3> DEFINE p == Len(h.st.pairs)
               a == Len(h.st.attempts)
               q == Len(st.pairs)
    <3>1. p \in Nat /\ a \in Nat
      BY <1>1 DEF States, PairLists, AttemptLists
    <3>2. p < Pairs /\ launched'[d] = p + a + 1
      BY <1>1, <1>8, <3>1 DEF Sample
    <3>3. q = p + 1 /\ Len(st.attempts) = a
      BY <2>2
    <3> HIDE DEF p, a, q
    <3>4. q <= Pairs /\ launched'[d] = q + a + 0
      BY <3>1, <3>2, <3>3, ManifestAssumption
    <3> QED
      BY <2>2, <3>3, <3>4 DEF Sample, q
  <2> QED
    BY <1>1, <2>1, <2>2, <2>3, <2>4, CommitStep
<1> QED
  BY <1>6, <1>7, <1>8

LEMMA TrialDoneStep == ASSUME IInv, TrialDone PROVE StepHolds
<1> DEFINE limit == Least(TrialLimit, Remaining(host))
           h == Elapse(host, Took(limit))
<1>1. host.pc = "running"
  BY DEF TrialDone
<1>2. /\ h \in Hosts /\ h.st = host.st /\ h.dir = host.dir /\ h.todo = host.todo
      /\ h.pc = "running"
  BY <1>1, ElapseFacts, ManifestAssumption DEF IInv, TypeOK
<1>3. \/ /\ \E output \in OutputsOf(h.st, Head(h.todo)) : Ran(h, output)
         /\ UNCHANGED <<ledger, launched>>
      \/ Fail(h, "invalid_output")
      \/ Fail(h, IF limit < TrialLimit THEN "experiment_budget" ELSE "timeout")
      \/ /\ disk' = [disk EXCEPT ![h.dir] =
                       [Retired(h.st, "cancelled") EXCEPT !.elapsed = h.clock]]
         /\ Return /\ UNCHANGED <<ledger, launched>>
      \/ Fail(h, "crash") \/ Fail(h, "output_limit") \/ Fail(h, "spawn_failed")
  BY DEF TrialDone
<1> HIDE DEF h, limit
<1>4. ASSUME NEW output \in OutputsOf(h.st, Head(h.todo)), Ran(h, output),
             UNCHANGED <<ledger, launched>>
      PROVE  StepHolds
  <2>1. output \in Nat
    BY DEF OutputsOf
  <2> QED
    BY <1>1, <1>2, <1>4, <2>1, RanStep
<1>5. ASSUME NEW kind \in {"invalid_output", "experiment_budget", "timeout", "crash",
                           "output_limit", "spawn_failed"}, Fail(h, kind)
      PROVE  StepHolds
  BY <1>1, <1>2, <1>5, FailStep DEF Kinds
<1>6. ASSUME disk' = [disk EXCEPT ![h.dir] =
                        [Retired(h.st, "cancelled") EXCEPT !.elapsed = h.clock]],
             Return, UNCHANGED <<ledger, launched>>
      PROVE  StepHolds
  BY <1>1, <1>2, <1>6, CancelledStep
<1> QED
  BY <1>3, <1>4, <1>5, <1>6

LEMMA MeasureStep == ASSUME IInv, Measure PROVE StepHolds
<1>1. CASE NoBudgetLeft
  <2>1. host.pc \in {"warmup", "trial"} /\ Fail(host, "experiment_budget")
    BY <1>1 DEF NoBudgetLeft
  <2>2. host \in Hosts /\ "experiment_budget" \in Kinds \ {"none"}
    BY DEF IInv, TypeOK, Kinds
  <2> QED
    BY <2>1, <2>2, FailStep
<1>2. CASE Stop \/ CancelledBetween
  BY <1>2, ReturnStep DEF Stop, CancelledBetween
<1> QED
  BY <1>1, <1>2, LaunchStep, BeginPairStep, AllMeasuredStep, TrialDoneStep DEF Measure

(* The audit is reserved: the experiment has a row, and leads its audit if
   the audit looked fresh. *)
LEMMA ReserveStep == ASSUME IInv, Reserve PROVE StepHolds
<1>0. PICK e : e = Identity[host.dir]
  OBVIOUS
<1> DEFINE own == \E i \in 1..Len(ledger) : OwnPending(e, ledger[i])
           looks == Outlook(e)
<1>1. /\ host.pc = "evaluate" /\ UNCHANGED <<disk, launched>>
      /\ ledger' = IF own THEN ledger ELSE Append(ledger, Row(e, "pending"))
      /\ host' = [host EXCEPT !.pc = "decide", !.outlook = looks]
  BY <1>0 DEF Reserve
<1>2. /\ host \in Hosts /\ host.dir \in Dirs /\ host.st = disk[host.dir]
      /\ host.st.failure = "none" /\ host.st.decision = "none"
  BY <1>1, AtWork
<1>3. host.st.pending = 0 /\ Len(host.st.pairs) = Pairs
  BY <1>1 DEF IInv, SessionHolds
<1>4. ledger \in Seq(LedgerRows) /\ Len(ledger) \in Nat
  BY DEF IInv, TypeOK
<1>5. /\ Row(e, "pending") \in LedgerRows
      /\ Row(e, "pending").experiment = e /\ Row(e, "pending").audit = WorkloadOf[e]
  BY <1>0, <1>2 DEF LedgerRows, Experiments, Row
<1> DEFINE row == Row(e, "pending")
<1> HIDE DEF row
<1>6. /\ ledger' \in Seq(LedgerRows) /\ LedgerKept
      /\ \E i \in 1..Len(ledger') :
           /\ ledger'[i].experiment = e
           /\ \A j \in 1..Len(ledger) : ledger'[j] = ledger[j]
           /\ \A j \in 1..i : j \in 1..Len(ledger) \/ j = i
  <2>1. CASE own
    <3>1. ledger' = ledger
      BY <1>1, <2>1
    <3>2. PICK i \in 1..Len(ledger) : ledger[i].experiment = e
      BY <2>1 DEF OwnPending
    <3>3. \A j \in 1..i : j \in 1..Len(ledger)
      BY <1>4
    <3> QED
      BY <1>4, <3>1, <3>2, <3>3 DEF LedgerKept
  <2>2. CASE ~own
    <3>1. ledger' = Append(ledger, row)
      BY <1>1, <2>2 DEF row
    <3>2. row \in LedgerRows /\ row.experiment = e
      BY <1>5 DEF row
    <3>3. /\ ledger' \in Seq(LedgerRows) /\ Len(ledger') = Len(ledger) + 1
          /\ ledger'[Len(ledger) + 1] = row
          /\ \A j \in 1..Len(ledger) : ledger'[j] = ledger[j]
      BY <1>4, <3>1, <3>2
    <3>4. LedgerKept
      BY <1>4, <3>3 DEF LedgerKept
    <3>5. Len(ledger) + 1 \in 1..Len(ledger')
          /\ \A j \in 1..(Len(ledger) + 1) : j \in 1..Len(ledger) \/ j = Len(ledger) + 1
      BY <1>4, <3>3
    <3> QED
      BY <3>2, <3>3, <3>4, <3>5
  <2> QED
    BY <2>1, <2>2
<1>7. PICK i \in 1..Len(ledger') :
         /\ ledger'[i].experiment = e
         /\ \A j \in 1..Len(ledger) : ledger'[j] = ledger[j]
         /\ \A j \in 1..i : j \in 1..Len(ledger) \/ j = i
  BY <1>6
<1>8. Reserved(e)'
  BY <1>7 DEF Reserved
<1>9. ASSUME looks = "fresh" PROVE Leads(e)'
  <2>1. WorkloadOf[e] \notin Consumed(e)
    BY <1>9 DEF Outlook
  <2>2. \A j \in 1..Len(ledger) : ledger[j].audit = WorkloadOf[e] => ledger[j].experiment = e
    BY <2>1 DEF Consumed, OwnPending
  <2>3. \A j \in 1..i : ledger'[j].audit = WorkloadOf[e] => ledger'[j].experiment = e
    BY <1>7, <2>2
  <2> QED
    BY <1>7, <2>3 DEF Leads
<1>10. looks \in Decisions
  BY DEF Outlook, Decisions
<1> HIDE DEF looks
<1>11. /\ host' \in Hosts /\ host'.pc = "decide" /\ host'.outlook = looks
       /\ host'.st = host.st /\ host'.dir = host.dir
  BY <1>1, <1>2, <1>10 DEF Hosts, Phases
<1>12. TypeOK'
  BY <1>1, <1>2, <1>6, <1>11 DEF IInv, TypeOK
<1>13. SamplesHold' /\ VerdictKept
  BY <1>1 DEF IInv, SamplesHold, VerdictKept
<1>14. SessionHolds'
  BY <1>1, <1>2, <1>3, <1>11 DEF SessionHolds
<1>15. LedgerHolds'
  <2>1. \A f : (Reserved(f) => Reserved(f)') /\ (Leads(f) => Leads(f)')
    BY <1>4, <1>6, LedgerStep
  <2> QED
    BY <1>0, <1>1, <1>8, <1>9, <1>11, <2>1 DEF IInv, LedgerHolds
<1> QED
  BY <1>12, <1>13, <1>14, <1>15 DEF StepHolds, IInv

(* The decision is journaled where the row already is. *)
LEMMA DecideStep == ASSUME IInv, EvaluatorDecides PROVE StepHolds
<1> DEFINE d == host.dir
           st == [host.st EXCEPT !.decision = host.outlook]
           h == [host EXCEPT !.pc = "finish", !.st = st]
<1>1. host.pc = "decide" /\ Commit(h) /\ UNCHANGED <<ledger, launched>>
  BY DEF EvaluatorDecides
<1>2. /\ host \in Hosts /\ d \in Dirs /\ disk \in [Dirs -> States]
      /\ host.st \in States /\ host.st = disk[d]
      /\ host.st.failure = "none" /\ host.st.decision = "none"
      /\ Sample(host.st, launched[d]) /\ launched \in [Dirs -> Nat]
  BY <1>1, AtWork
<1>3. Len(host.st.pairs) = Pairs
  BY <1>1 DEF IInv, SessionHolds
<1>4. /\ st \in States /\ st.pairs = host.st.pairs /\ st.attempts = host.st.attempts
      /\ st.pending = host.st.pending /\ st.failure = "none" /\ st.decision = host.outlook
  BY <1>2 DEF States, Hosts
<1> HIDE DEF st
<1>5. h \in Hosts /\ h.pc = "finish" /\ h.st = st /\ h.dir = d
  BY <1>2, <1>4 DEF Hosts, Phases
<1> HIDE DEF h
<1>6. /\ disk' \in [Dirs -> States] /\ host' \in Hosts
      /\ \A c \in Dirs : c # d => disk'[c] = disk[c]
      /\ host'.st = disk'[d] /\ SameSample(disk'[d], st)
      /\ host'.pc = "finish" /\ host'.dir = d
  BY <1>1, <1>2, <1>5, CommitFacts
<1>7. TypeOK'
  BY <1>1, <1>2, <1>6 DEF IInv, TypeOK
<1>8. Sample(disk'[d], launched'[d])
  BY <1>1, <1>2, <1>4, <1>6 DEF Sample, SameSample
<1>9. disk'[d].failure = "none" /\ Len(disk'[d].pairs) = Pairs
  BY <1>3, <1>4, <1>6 DEF SameSample
<1>10. SamplesHold' /\ VerdictKept
  BY <1>1, <1>2, <1>6, <1>8, <1>9, DiskStep DEF IInv
<1>11. SessionHolds'
  BY <1>6 DEF SessionHolds
<1>12. \A e : (Reserved(e)' <=> Reserved(e)) /\ (Leads(e)' <=> Leads(e))
  BY <1>1 DEF Reserved, Leads
<1>13. LedgerHolds'
  <2>1. Reserved(Identity[d]) /\ (host.outlook = "fresh" => Leads(Identity[d]))
    BY <1>1 DEF IInv, LedgerHolds
  <2>2. disk'[d].decision = host.outlook
    BY <1>4, <1>6 DEF SameSample
  <2> QED
    BY <1>6, <1>12, <2>1, <2>2 DEF IInv, LedgerHolds
<1> QED
  BY <1>7, <1>10, <1>11, <1>13 DEF StepHolds, IInv

(* The ledger as finish_ledger leaves it: the same rows, no reservation of the
   experiment among them. *)
LEMMA FinishFacts ==
    ASSUME IInv, FinishLedger
    PROVE  /\ ledger' \in Seq(LedgerRows) /\ LedgerKept /\ Return
           /\ UNCHANGED <<disk, launched>>
           /\ \A i \in 1..Len(ledger') : ~OwnPending(Identity[host.dir], ledger'[i])
<1>0. PICK e : e = Identity[host.dir]
  OBVIOUS
<1> DEFINE finished(i) == IF OwnPending(e, ledger[i]) THEN Row(e, "consumed") ELSE ledger[i]
<1>1. /\ host.pc = "finish" /\ Return /\ UNCHANGED <<disk, launched>>
      /\ ledger' = [i \in 1..Len(ledger) |-> finished(i)]
  BY <1>0 DEF FinishLedger
<1>2. ledger \in Seq(LedgerRows) /\ Len(ledger) \in Nat /\ e \in Experiments
  BY <1>0, <1>1 DEF IInv, TypeOK, Experiments
<1>3. \A i \in 1..Len(ledger) :
        /\ finished(i) \in LedgerRows /\ ~OwnPending(e, finished(i))
        /\ finished(i).experiment = ledger[i].experiment
        /\ finished(i).audit = ledger[i].audit
  <2> SUFFICES ASSUME NEW i \in 1..Len(ledger)
               PROVE  /\ finished(i) \in LedgerRows /\ ~OwnPending(e, finished(i))
                      /\ finished(i).experiment = ledger[i].experiment
                      /\ finished(i).audit = ledger[i].audit
    OBVIOUS
  <2>1. ledger[i] \in LedgerRows
    BY <1>2
  <2>2. PICK f \in Experiments, state \in {"pending", "consumed"} : ledger[i] = Row(f, state)
    BY <2>1 DEF LedgerRows
  <2>3. CASE OwnPending(e, ledger[i])
    <3>1. finished(i) = Row(e, "consumed") /\ f = e
      BY <2>2, <2>3 DEF OwnPending, Row
    <3> QED
      BY <1>2, <2>2, <3>1 DEF LedgerRows, OwnPending, Row
  <2>4. CASE ~OwnPending(e, ledger[i])
    BY <2>1, <2>4
  <2> QED
    BY <2>3, <2>4
<1> HIDE DEF finished
<1>4. /\ ledger' \in Seq(LedgerRows) /\ Len(ledger') = Len(ledger)
      /\ \A i \in 1..Len(ledger) : ledger'[i] = finished(i)
  BY <1>1, <1>2, <1>3
<1>5. LedgerKept
  BY <1>2, <1>3, <1>4 DEF LedgerKept
<1> QED
  BY <1>0, <1>1, <1>3, <1>4, <1>5

LEMMA EvaluateStep == ASSUME IInv, Evaluate PROVE StepHolds
<1>1. CASE EvaluatorFaults
  BY <1>1, ReturnStep DEF EvaluatorFaults
<1>2. CASE FinishLedger
  <2>1. ledger' \in Seq(LedgerRows) /\ LedgerKept /\ UNCHANGED <<disk, launched>>
    BY <1>2, FinishFacts
  <2>2. host' \in Hosts /\ host'.pc = "idle"
    BY <1>2, FinishFacts, ReturnFacts
  <2>3. TypeOK'
    BY <2>1, <2>2 DEF IInv, TypeOK
  <2>4. SamplesHold' /\ VerdictKept
    BY <2>1 DEF IInv, SamplesHold, VerdictKept
  <2>5. SessionHolds'
    BY <2>2 DEF SessionHolds
  <2>6. \A e : (Reserved(e) => Reserved(e)') /\ (Leads(e) => Leads(e)')
    BY <2>1, LedgerStep DEF IInv, TypeOK
  <2>7. LedgerHolds'
    BY <2>1, <2>2, <2>6 DEF IInv, LedgerHolds
  <2> QED
    BY <2>3, <2>4, <2>5, <2>7 DEF StepHolds, IInv
<1> QED
  BY <1>1, <1>2, ReserveStep, DecideStep DEF Evaluate

LEMMA NextStep == IInv /\ [Next]_evars => StepHolds
<1> SUFFICES ASSUME IInv, [Next]_evars PROVE StepHolds
  OBVIOUS
<1>1. CASE \E d \in Dirs : Start(d)
  BY <1>1, StartStep
<1>2. CASE Build
  BY <1>2, LaunchStep, BuildDoneStep DEF Build
<1>3. CASE Measure
  BY <1>3, MeasureStep
<1>4. CASE Evaluate
  BY <1>4, EvaluateStep
<1>5. CASE RunStep
  BY <1>5, IdleStep DEF RunStep
<1>6. CASE Cancel
  BY <1>6, IdleStep DEF Cancel
<1>7. CASE Killed
  BY <1>7, ReturnStep DEF Killed
<1>8. CASE UNCHANGED evars
  BY <1>8, IdleStep DEF evars
<1> QED
  BY <1>1, <1>2, <1>3, <1>4, <1>5, <1>6, <1>7, <1>8 DEF Next, HostStep

-----------------------------------------------------------------------------
(* Theorems *)

(* The inductive invariant holds wherever sessions are cancelled, fail or are
   killed: a session at work has what the checkpoint has, no directory has
   more pairs than the manifest asks for, and the ledger has a row of every
   experiment that decided. *)
THEOREM Invariant == Spec => []IInv
<1>1. IInv /\ [Next]_evars => IInv'
  BY NextStep DEF StepHolds
<1> QED
  BY InitInv, <1>1, PTL DEF Spec

(* Every pair ever journaled as pending is counted, an attempt, or still
   pending (drive, fail, run_arm). *)
THEOREM LaunchesKept == Spec => []LaunchesAccounted
<1>1. IInv => LaunchesAccounted
  BY DEF IInv, SamplesHold, Sample, LaunchesAccounted
<1> QED
  BY Invariant, <1>1, PTL

(* A workload looks fresh to one experiment at most, and no decision is
   without its row in the ledger (evaluate, finish_ledger). *)
THEOREM FreshOnce == Spec => []AuditFreshOnce
<1>1. IInv => AuditFreshOnce
  <2> SUFFICES ASSUME IInv PROVE AuditFreshOnce
    OBVIOUS
  <2>1. ASSUME NEW c \in Dirs, NEW d \in Dirs,
               disk[c].decision = "fresh", disk[d].decision = "fresh",
               WorkloadOf[Identity[c]] = WorkloadOf[Identity[d]]
        PROVE  Identity[c] = Identity[d]
    <3>1. Leads(Identity[c]) /\ Leads(Identity[d])
      BY <2>1 DEF IInv, LedgerHolds
    <3>2. \A e \in Experiments : \A i \in 1..Len(ledger) :
            ledger[i].experiment = e => ledger[i].audit = WorkloadOf[e]
      <4> SUFFICES ASSUME NEW i \in 1..Len(ledger)
                   PROVE  ledger[i].audit = WorkloadOf[ledger[i].experiment]
        OBVIOUS
      <4>1. ledger[i] \in LedgerRows
        BY DEF IInv, TypeOK
      <4> QED
        BY <4>1 DEF LedgerRows, Row
    <3>3. Identity[c] \in Experiments /\ Identity[d] \in Experiments
      BY DEF Experiments
    <3>4. PICK i \in 1..Len(ledger) :
             /\ ledger[i].experiment = Identity[c]
             /\ \A k \in 1..i : ledger[k].audit = WorkloadOf[Identity[c]]
                               => ledger[k].experiment = Identity[c]
      BY <3>1 DEF Leads
    <3>5. PICK j \in 1..Len(ledger) :
             /\ ledger[j].experiment = Identity[d]
             /\ \A k \in 1..j : ledger[k].audit = WorkloadOf[Identity[d]]
                               => ledger[k].experiment = Identity[d]
      BY <3>1 DEF Leads
    <3>6. /\ ledger[i].audit = WorkloadOf[Identity[c]]
          /\ ledger[j].audit = WorkloadOf[Identity[d]]
      BY <3>2, <3>3, <3>4, <3>5
    <3>7. i \in 1..j \/ j \in 1..i
      BY DEF IInv, TypeOK
    <3> QED
      BY <2>1, <3>4, <3>5, <3>6, <3>7
  <2>2. \A d \in Dirs : disk[d].decision # "none"
          => \E i \in 1..Len(ledger) : ledger[i].experiment = Identity[d]
    BY DEF IInv, LedgerHolds, Reserved
  <2> QED
    BY <2>1, <2>2 DEF AuditFreshOnce
<1> QED
  BY Invariant, <1>1, PTL

(* A failure or a decision is the last word of its directory, and a decision
   is made on a full sample where nothing failed (drive). *)
THEOREM VerdictsFinal == Spec => VerdictIsFinal
<1>1. IInv /\ [Next]_evars => [VerdictKept]_evars
  BY NextStep DEF StepHolds
<1> QED
  BY Invariant, <1>1, PTL DEF Spec, VerdictIsFinal, VerdictKept

(* The steps DecidedIsConsumed is about. *)
Finishes ==
  host.pc = "finish" /\ host'.pc = "idle" /\ kills' = kills
    => ~\E i \in 1..Len(ledger') : OwnPending(Identity[host.dir], ledger'[i])

(* A session that returns a decision leaves no reservation of its experiment
   in the ledger (finish_ledger). *)
THEOREM DecisionsConsumed == Spec => DecidedIsConsumed
<1>1. Init => kills \in Nat
  BY DEF Init
<1>2. kills \in Nat /\ [Next]_evars => (kills \in Nat)'
  <2> SUFFICES ASSUME kills \in Nat, [Next]_evars PROVE kills' \in Nat
    OBVIOUS
  <2>1. CASE Killed
    BY <2>1 DEF Killed
  <2>2. CASE BuildDone
    BY <2>2 DEF BuildDone, Fail
  <2>3. CASE TrialDone
    BY <2>3 DEF TrialDone, Fail
  <2>4. CASE LaunchBuild \/ LaunchTrial \/ NoBudgetLeft
    BY <2>4 DEF LaunchBuild, LaunchTrial, Launch, NoBudgetLeft, Fail
  <2>5. CASE \E d \in Dirs : Start(d)
    BY <2>5 DEF Start
  <2>6. CASE Stop \/ CancelledBetween \/ BeginPair \/ AllMeasured
    BY <2>6 DEF Stop, CancelledBetween, BeginPair, AllMeasured
  <2>7. CASE Evaluate
    BY <2>7 DEF Evaluate, Reserve, EvaluatorDecides, EvaluatorFaults, FinishLedger
  <2>8. CASE RunStep \/ Cancel \/ UNCHANGED evars
    BY <2>8 DEF RunStep, Cancel, evars
  <2> QED
    BY <2>1, <2>2, <2>3, <2>4, <2>5, <2>6, <2>7, <2>8 DEF Next, HostStep, Build, Measure
<1>3. IInv /\ kills \in Nat /\ [Next]_evars => [Finishes]_evars
  <2> SUFFICES ASSUME IInv, kills \in Nat, [Next]_evars, host.pc = "finish",
                      host'.pc = "idle", kills' = kills
               PROVE  ~\E i \in 1..Len(ledger') : OwnPending(Identity[host.dir], ledger'[i])
    BY DEF Finishes
  <2>1. FinishLedger
    BY DEF Next, HostStep, Build, Measure, Evaluate, Start, LaunchBuild, LaunchTrial,
           BuildDone, NoBudgetLeft, Stop, CancelledBetween, BeginPair, AllMeasured,
           TrialDone, Reserve, EvaluatorDecides, EvaluatorFaults, RunStep, Cancel,
           Killed, evars
  <2> QED
    BY <2>1, FinishFacts
<1>4. Spec => [][Finishes]_evars
  BY Invariant, <1>1, <1>2, <1>3, PTL DEF Spec
<1> QED
  BY <1>4 DEF DecidedIsConsumed, Finishes

(* A run that is not followed is as clean as one that is. *)
LEMMA EndedInv ==
    ASSUME NEW kind \in {"build", "trial"}, NEW outcome \in Outcomes \ {"none", "unstarted"},
           child' = Ended(kind, outcome)
    PROVE  ChildInv'
<1>1. child' = [kind |-> kind, pc |-> "done", life |-> "ok", status |-> "none",
                stdin |-> FALSE, held |-> FALSE, unread |-> 0, got |-> 0,
                drained |-> FALSE, late |-> FALSE, swept |-> FALSE, waited |-> TRUE,
                outcome |-> outcome]
  BY DEF Ended, NoChild
<1> QED
  BY <1>1, OutputAssumption DEF ChildInv, ChildType, ChildKnown, Children

(* However the child, its descendants, the clock and the canceller interleave
   with the poll loop, a run ends with its child reaped, never sweeps a reaped
   child, and succeeds only with all of its output (run_bounded,
   run_cargo_timed). *)
THEOREM RunsClean == Spec => []RunsEndClean
<1>1. Init => ChildInv
  BY OutputAssumption DEF Init, NoChild, ChildInv, ChildType, ChildKnown, Children, Outcomes
<1>2. ChildInv /\ [Next]_evars => ChildInv'
  <2> SUFFICES ASSUME ChildInv, [Next]_evars PROVE ChildInv'
    OBVIOUS
  <2>1. CASE child' = NoChild
    BY <2>1, SpawnedInv
  <2>2. CASE UNCHANGED child
    BY <2>2 DEF ChildInv, ChildType, ChildKnown
  <2>3. CASE LaunchBuild \/ LaunchTrial
    <3>1. PICK kind \in {"build", "trial"} :
            child' \in {Unstarted(kind)} \cup
                      (IF starts <= Polled THEN {Spawned(kind)}
                       ELSE {Ended(kind, outcome) : outcome \in Endings(kind)})
      BY <2>3 DEF LaunchBuild, LaunchTrial, Launch
    <3>2. CASE child' \in {Unstarted(kind), Spawned(kind)}
      BY <3>2, SpawnedInv
    <3>3. ASSUME NEW outcome \in Endings(kind), child' = Ended(kind, outcome)
          PROVE  ChildInv'
      <4>1. outcome \in Outcomes \ {"none", "unstarted"}
        BY DEF Endings, Outcomes
      <4> QED
        BY <3>3, <4>1, EndedInv
    <3> QED
      BY <3>1, <3>2, <3>3
  <2>4. CASE RunStep
    BY <2>4, PollInv, WorldInv DEF RunStep
  <2>5. \/ child' = NoChild \/ UNCHANGED child \/ LaunchBuild \/ LaunchTrial \/ RunStep
    BY DEF Next, HostStep, Build, Measure, Evaluate, Start, BuildDone, Fail, Return,
           NoBudgetLeft, Stop, CancelledBetween, BeginPair, AllMeasured, TrialDone, Reserve,
           EvaluatorDecides, EvaluatorFaults, FinishLedger, Cancel, Killed, evars
  <2> QED
    BY <2>1, <2>2, <2>3, <2>4, <2>5
<1>3. ChildInv => RunsEndClean
  BY DEF ChildInv, ChildType, ChildKnown, Children, Outcomes, RunsEndClean
<1> QED
  BY <1>1, <1>2, <1>3, PTL DEF Spec

-----------------------------------------------------------------------------
(* What the steps do to the measurements and to the clock.  Each form below is
   what one or several actions are to a reader of the files and of the clock;
   the invariants that follow are proved from the forms. *)

SameMeasure(s, t) ==
  /\ s.pairs = t.pairs /\ s.builds = t.builds /\ s.session = t.session
  /\ s.outs = t.outs /\ s.stable = t.stable

Accounts == spent \in [Dirs -> Nat] /\ lost \in [Dirs -> Nat]

(* The session spends t, and loses what n says. *)
Costs(t, n) ==
  /\ Accounts'
  /\ spent'[host.dir] = spent[host.dir] + t
  /\ lost'[host.dir] = lost[host.dir] + n
  /\ \A c \in Dirs : c # host.dir => spent'[c] = spent[c] /\ lost'[c] = lost[c]

(* t is time the session may still spend on something limited to most. *)
Allowed(t, most) == t \in Nat /\ t <= most /\ (host.clock <= Budget => host.clock + t <= Budget)

(* The file of d, and no other, is written. *)
Writes(d, elapsed) ==
  /\ disk'[d].elapsed = elapsed
  /\ \A c \in Dirs : c # d => disk'[c] = disk[c]

(* A session writes its file and goes on at pc with clock on the clock. *)
GoesOn(d, pc, clock) ==
  /\ Writes(d, clock)
  /\ host'.pc = pc /\ host'.dir = d /\ host'.clock = clock /\ host'.st = disk'[d]

Moves ==
  {<<"build", "building">>, <<"warmup", "running">>, <<"trial", "running">>,
   <<"loop", "evaluate">>, <<"evaluate", "decide">>}

Idles == UNCHANGED <<disk, host, spent, lost>>

Proceeds ==
  /\ <<host.pc, host'.pc>> \in Moves
  /\ UNCHANGED <<disk, spent, lost>>
  /\ host'.dir = host.dir /\ host'.st = host.st /\ host'.clock = host.clock
  /\ host'.todo = host.todo /\ host'.ran = host.ran

Leaves ==
  /\ host.pc # "idle" /\ host'.pc = "idle" /\ UNCHANGED disk
  /\ \/ host.pc \in {"loop", "decide", "finish"} /\ Costs(0, 0)
     \/ \E t \in Nat :
          /\ t <= IF host.pc = "running" THEN TrialLimit
                  ELSE IF host.pc = "building" THEN BuildLimit ELSE 0
          /\ Costs(t, 1)

Fails ==
  /\ host.pc \notin {"idle", "finish"} /\ host'.pc = "idle"
  /\ \E t : /\ Allowed(t, BuildLimit + TrialLimit)
            /\ Costs(t, 0) /\ Writes(host.dir, host.clock + t)
  /\ SameMeasure(disk'[host.dir], host.st)

Begins(d) ==
  /\ host.pc = "idle" /\ UNCHANGED <<spent, lost>>
  /\ host'.todo = <<"baseline", "candidate">>
  /\ \/ /\ UNCHANGED disk
        /\ host'.pc = "finish" /\ host'.dir = d /\ host'.clock = disk[d].elapsed
     \/ /\ GoesOn(d, "build", disk[d].elapsed)
        /\ SameMeasure(disk'[d], [disk[d] EXCEPT !.session = @ + 1])

BuildsOne ==
  /\ host.pc = "building"
  /\ \E t : /\ Allowed(t, BuildLimit) /\ Costs(t, 0)
            /\ GoesOn(host.dir, host'.pc, host.clock + t)
  /\ \E digest \in DigestsOf(host.st, Head(host.todo)) :
       /\ Rebuilt(host.st, Head(host.todo), digest)
       /\ SameMeasure(disk'[host.dir],
            [host.st EXCEPT !.builds = Append(@, [arm |-> Head(host.todo), digest |-> digest,
                                                  session |-> host.st.session])])
  /\ IF Tail(host.todo) # <<>>
     THEN host'.pc = "build" /\ host'.todo = Tail(host.todo)
     ELSE /\ host'.pc \in {"warmup", "loop", "evaluate"}
          /\ host'.pc = "warmup" => host'.st.pending = 0 /\ Len(host'.todo) = 2 * Warmup

PairBegins ==
  /\ host.pc = "loop" /\ Costs(0, 0)
  /\ GoesOn(host.dir, "trial", host.clock)
  /\ SameMeasure(disk'[host.dir], host.st) /\ host'.st.pending # 0
  /\ Len(host'.todo) = 2
  /\ \A a \in Arms : \E i \in 1..2 : host'.todo[i] = a

RunsOne ==
  /\ host.pc = "running" /\ Tail(host.todo) # <<>> /\ UNCHANGED disk
  /\ host'.pc = IF host.st.pending = 0 THEN "warmup" ELSE "trial"
  /\ host'.dir = host.dir /\ host'.st = host.st /\ host'.todo = Tail(host.todo)
  /\ \E output \in {1, 2} : host'.ran = [host.ran EXCEPT ![Head(host.todo)] = output]
  /\ \E t : Allowed(t, TrialLimit) /\ Costs(t, 0) /\ host'.clock = host.clock + t

RunsLast ==
  /\ host.pc = "running" /\ Tail(host.todo) = <<>>
  /\ \E t : /\ Allowed(t, TrialLimit) /\ Costs(t, 0)
            /\ GoesOn(host.dir, "loop", host.clock + t)
  /\ IF host.st.pending = 0 THEN SameMeasure(disk'[host.dir], host.st)
     ELSE \E output \in {1, 2} :
            SameMeasure(disk'[host.dir],
                        PairCounted(host.st, [host.ran EXCEPT ![Head(host.todo)] = output]))

Decides ==
  /\ host.pc = "decide" /\ Costs(0, 0)
  /\ GoesOn(host.dir, "finish", host.clock)
  /\ SameMeasure(disk'[host.dir], host.st)

Forms ==
  \/ Idles \/ Proceeds \/ Leaves \/ Fails \/ (\E d \in Dirs : Begins(d)) \/ BuildsOne
  \/ PairBegins \/ RunsOne \/ RunsLast \/ Decides

LEMMA RetiredMeasure ==
    ASSUME NEW st \in States, NEW status
    PROVE  SameMeasure(Retired(st, status), st) /\ Retired(st, status).elapsed = st.elapsed
<1> DEFINE new == Append(st.attempts, [index |-> st.pending, session |-> st.session,
                                       status |-> status])
<1>1. Retired(st, status) = IF st.pending = 0 THEN st
                            ELSE [st EXCEPT !.pending = 0, !.attempts = new]
  BY DEF Retired
<1> HIDE DEF new
<1> QED
  BY <1>1 DEF SameMeasure, States

LEMMA SameMeasureTransitive ==
    ASSUME NEW r, NEW s, NEW t, SameMeasure(r, s), SameMeasure(s, t)
    PROVE  SameMeasure(r, t)
BY DEF SameMeasure

LEMMA CommitForm ==
    ASSUME NEW h \in Hosts, h.dir \in Dirs, disk \in [Dirs -> States], Commit(h)
    PROVE  /\ GoesOn(h.dir, h.pc, h.clock) /\ SameMeasure(disk'[h.dir], h.st)
           /\ host'.st.pending = h.st.pending /\ host'.todo = h.todo
<1> DEFINE st == [h.st EXCEPT !.elapsed = h.clock]
<1>1. h.st \in States /\ h.clock \in Nat
  BY DEF Hosts
<1>2. SameMeasure(st, h.st) /\ st.elapsed = h.clock /\ st.pending = h.st.pending
  BY <1>1 DEF States, SameMeasure
<1>3. disk' = [disk EXCEPT ![h.dir] = st] /\ host' = [h EXCEPT !.st = st]
  BY DEF Commit
<1> HIDE DEF st
<1>4. disk'[h.dir] = st /\ \A c \in Dirs : c # h.dir => disk'[c] = disk[c]
  BY <1>3
<1>5. /\ host'.st = st /\ host'.pc = h.pc /\ host'.dir = h.dir /\ host'.clock = h.clock
      /\ host'.todo = h.todo
  BY <1>3 DEF Hosts
<1> QED
  BY <1>2, <1>4, <1>5 DEF GoesOn, Writes

LEMMA SpendForm ==
    ASSUME Accounts, host.dir \in Dirs, NEW t \in Nat, NEW n \in Nat,
           spent' = [spent EXCEPT ![host.dir] = @ + t],
           lost' = [lost EXCEPT ![host.dir] = @ + n]
    PROVE  Costs(t, n)
BY DEF Accounts, Costs

LEMMA SpendAlone ==
    ASSUME Accounts, host.dir \in Dirs, NEW t \in Nat, Spend(t), UNCHANGED lost
    PROVE  Costs(t, 0)
<1>1. lost' = [lost EXCEPT ![host.dir] = @ + 0]
  BY DEF Accounts
<1> QED
  BY <1>1, SpendForm DEF Spend

LEMMA SpendNothing ==
    ASSUME Accounts, host.dir \in Dirs, UNCHANGED <<spent, lost>>
    PROVE  Costs(0, 0)
<1>1. lost' = [lost EXCEPT ![host.dir] = @ + 0] /\ spent' = [spent EXCEPT ![host.dir] = @ + 0]
  BY DEF Accounts
<1> QED
  BY <1>1, SpendForm

LEMMA TookForm ==
    ASSUME host \in Hosts, NEW most \in Nat
    PROVE  LET t == Took(Least(most, Remaining(host))) IN
           Allowed(t, most) /\ Elapse(host, t).clock = host.clock + t
<1> DEFINE left == Remaining(host)
           t == Took(Least(most, left))
<1>1. host.clock \in Nat
  BY DEF Hosts
<1>2. left \in Nat /\ (host.clock <= Budget => host.clock + left <= Budget)
  BY <1>1, ManifestAssumption DEF Remaining
<1> HIDE DEF left
<1>3. t \in Nat /\ t <= most /\ t <= left
  BY <1>2 DEF Took, Least
<1>4. Allowed(t, most)
  BY <1>1, <1>2, <1>3, ManifestAssumption DEF Allowed
<1> HIDE DEF t
<1>5. Elapse(host, t).clock = host.clock + t
  BY DEF Elapse, Hosts
<1> QED
  BY <1>4, <1>5 DEF t, left

LEMMA FailForm ==
    ASSUME IInv, Accounts, host.pc \notin {"idle", "finish"},
           NEW t, Allowed(t, BuildLimit + TrialLimit), Costs(t, 0),
           NEW kind, NEW failure, disk' = [disk EXCEPT ![host.dir] =
             [Retired(host.st, kind) EXCEPT !.failure = failure, !.elapsed = host.clock + t]],
           Return
    PROVE  Fails
<1> DEFINE d == host.dir
           r == Retired(host.st, kind)
           s == [r EXCEPT !.failure = failure, !.elapsed = host.clock + t]
<1>1. /\ host \in Hosts /\ d \in Dirs /\ disk \in [Dirs -> States] /\ host.st \in States
  BY AtWork
<1>2. SameMeasure(r, host.st)
  BY <1>1, RetiredMeasure
<1>3. disk' = [disk EXCEPT ![d] = s]
  OBVIOUS
<1>4. SameMeasure(s, r) /\ s.elapsed = host.clock + t
  <2>1. "elapsed" \in DOMAIN r
    BY <1>1 DEF States, Retired
  <2> HIDE DEF r
  <2> QED
    BY <2>1 DEF SameMeasure
<1> HIDE DEF s, r
<1>5. disk'[d] = s /\ \A c \in Dirs : c # d => disk'[c] = disk[c]
  BY <1>1, <1>3
<1>6. host'.pc = "idle"
  BY ReturnFacts
<1> QED
  BY <1>2, <1>4, <1>5, <1>6, SameMeasureTransitive DEF Fails, Writes

(* Each action has its form. *)

LEMMA ReturnForms ==
    ASSUME IInv, Accounts, Stop \/ CancelledBetween \/ EvaluatorFaults \/ FinishLedger \/ Killed
    PROVE  Leaves
<1>1. host.pc # "idle" /\ Return /\ UNCHANGED disk
  BY DEF Stop, CancelledBetween, EvaluatorFaults, FinishLedger, Killed
<1>2. host'.pc = "idle" /\ host.dir \in Dirs /\ host \in Hosts
  BY <1>1, ReturnFacts DEF IInv, TypeOK
<1>3. CASE Stop \/ CancelledBetween \/ EvaluatorFaults \/ FinishLedger
  <2>1. host.pc \in {"loop", "decide", "finish"} /\ UNCHANGED <<spent, lost>>
    BY <1>3 DEF Stop, CancelledBetween, EvaluatorFaults, FinishLedger
  <2> QED
    BY <1>1, <1>2, <2>1, SpendNothing DEF Leaves
<1>4. CASE Killed
  <2> DEFINE limit == IF host.pc = "running" THEN Least(TrialLimit, Remaining(host))
                      ELSE IF host.pc = "building" THEN Least(BuildLimit, Remaining(host))
                      ELSE 0
  <2>1. Spend(limit) /\ lost' = [lost EXCEPT ![host.dir] = @ + 1]
    BY <1>4 DEF Killed
  <2>2. Remaining(host) \in Nat
    BY <1>2, ManifestAssumption DEF Remaining, Hosts
  <2>3. /\ limit \in Nat
        /\ limit <= IF host.pc = "running" THEN TrialLimit
                    ELSE IF host.pc = "building" THEN BuildLimit ELSE 0
    BY <2>2, ManifestAssumption DEF Least
  <2> HIDE DEF limit
  <2>4. Costs(limit, 1)
    BY <1>2, <2>1, <2>3, SpendForm DEF Spend
  <2> QED
    BY <1>1, <1>2, <2>3, <2>4 DEF Leaves
<1> QED
  BY <1>3, <1>4

LEMMA MoveForms ==
    ASSUME IInv, LaunchBuild \/ LaunchTrial \/ AllMeasured \/ Reserve
    PROVE  Proceeds
<1>1. host \in Hosts
  BY DEF IInv, TypeOK
<1>2. UNCHANGED <<disk, spent, lost>>
  BY DEF LaunchBuild, LaunchTrial, Launch, AllMeasured, Reserve
<1>3. CASE LaunchBuild \/ LaunchTrial \/ AllMeasured
  <2>1. PICK pc : host' = [host EXCEPT !.pc = pc] /\ <<host.pc, pc>> \in Moves
    BY <1>3 DEF LaunchBuild, LaunchTrial, Launch, AllMeasured, Moves
  <2>2. /\ host'.pc = pc /\ host'.dir = host.dir /\ host'.st = host.st
        /\ host'.clock = host.clock /\ host'.todo = host.todo /\ host'.ran = host.ran
    BY <1>1, <2>1 DEF Hosts
  <2> QED
    BY <1>2, <2>1, <2>2 DEF Proceeds
<1>4. CASE Reserve
  <2>1. PICK outlook : host' = [host EXCEPT !.pc = "decide", !.outlook = outlook]
                       /\ host.pc = "evaluate"
    BY <1>4 DEF Reserve
  <2>2. /\ host'.pc = "decide" /\ host'.dir = host.dir /\ host'.st = host.st
        /\ host'.clock = host.clock /\ host'.todo = host.todo /\ host'.ran = host.ran
    BY <1>1, <2>1 DEF Hosts
  <2> QED
    BY <1>2, <2>1, <2>2 DEF Proceeds, Moves
<1> QED
  BY <1>3, <1>4

LEMMA NoBudgetForm == ASSUME IInv, Accounts, NoBudgetLeft PROVE Fails
<1>1. /\ host.pc \in {"warmup", "trial"} /\ Fail(host, "experiment_budget")
      /\ UNCHANGED <<spent, lost>>
  BY DEF NoBudgetLeft, Fail
<1>2. host \in Hosts /\ host.dir \in Dirs /\ host.clock \in Nat
  BY <1>1 DEF IInv, TypeOK, Hosts
<1>3. Allowed(0, BuildLimit + TrialLimit) /\ host.clock = host.clock + 0
  BY <1>2, ManifestAssumption DEF Allowed
<1>4. Costs(0, 0)
  BY <1>1, <1>2, SpendNothing
<1>5. /\ disk' = [disk EXCEPT ![host.dir] =
           [Retired(host.st, "experiment_budget")
              EXCEPT !.failure = "experiment_budget", !.elapsed = host.clock + 0]]
      /\ Return
  BY <1>1, <1>3 DEF Fail
<1> QED
  BY <1>1, <1>3, <1>4, <1>5, FailForm

LEMMA StartForm == ASSUME IInv, NEW d \in Dirs, Start(d) PROVE Begins(d)
<1> DEFINE old == [disk[d] EXCEPT !.session = @ + 1]
           st == Retired(old, "uncertain")
           arms == <<"baseline", "candidate">>
           h == [NoSession EXCEPT !.dir = d, !.st = st, !.clock = st.elapsed, !.todo = arms]
<1>1. /\ disk \in [Dirs -> States] /\ disk[d] \in States
      /\ host.pc = "idle" /\ UNCHANGED <<spent, lost>>
  BY DEF Start, IInv, TypeOK
<1>2. IF st.decision # "none" THEN host' = [h EXCEPT !.pc = "finish"] /\ UNCHANGED disk
      ELSE Commit([h EXCEPT !.pc = "build"])
  BY DEF Start
<1>3. old \in States /\ old.elapsed = disk[d].elapsed
  BY <1>1 DEF States
<1> HIDE DEF old
<1>4. st \in States /\ SameMeasure(st, old) /\ st.elapsed = disk[d].elapsed
  <2>1. "uncertain" \in Kinds
    BY DEF Kinds
  <2>2. st \in States
    BY <1>3, <2>1, RetiredFacts
  <2>3. SameMeasure(st, old) /\ st.elapsed = old.elapsed
    BY <1>3, RetiredMeasure
  <2> QED
    BY <1>3, <2>2, <2>3
<1>5. arms \in ArmLists
  BY OrderTypes
<1> HIDE DEF st, arms
<1>6. st.elapsed \in Nat
  BY <1>4 DEF States
<1>7. CASE st.decision # "none"
  <2> DEFINE g == [h EXCEPT !.pc = "finish"]
  <2>1. g.pc = "finish" /\ g.dir = d /\ g.clock = disk[d].elapsed /\ g.todo = arms
    BY <1>4, <1>5, <1>6, NoSessionType DEF Hosts
  <2>2. host' = g /\ UNCHANGED disk
    BY <1>2, <1>7
  <2> HIDE DEF g
  <2> QED
    BY <1>1, <2>1, <2>2 DEF Begins, arms
<1>8. CASE st.decision = "none"
  <2> DEFINE g == [h EXCEPT !.pc = "build"]
  <2>1. /\ g \in Hosts /\ g.pc = "build" /\ g.dir = d /\ g.st = st /\ g.todo = arms
        /\ g.clock = disk[d].elapsed
    BY <1>4, <1>5, <1>6, NoSessionType DEF Hosts, Phases
  <2>2. Commit(g)
    BY <1>2, <1>8
  <2> HIDE DEF g
  <2>3. /\ GoesOn(d, "build", disk[d].elapsed) /\ SameMeasure(disk'[d], st)
        /\ host'.todo = arms
    BY <1>1, <2>1, <2>2, CommitForm
  <2>4. SameMeasure(disk'[d], old)
    BY <1>4, <2>3, SameMeasureTransitive
  <2> QED
    BY <1>1, <2>3, <2>4 DEF Begins, arms, old
<1> QED
  BY <1>7, <1>8

LEMMA BeginPairForm == ASSUME IInv, Accounts, BeginPair PROVE PairBegins
<1> DEFINE index == Len(host.st.pairs) + 1
           order == IF index \in CandidateFirst THEN <<"candidate", "baseline">>
                    ELSE <<"baseline", "candidate">>
           zero == [a \in Arms |-> 0]
           st == [host.st EXCEPT !.pending = index]
           h == [host EXCEPT !.pc = "trial", !.st = st, !.todo = order, !.ran = zero]
<1>1. host.pc = "loop" /\ Commit(h) /\ UNCHANGED <<spent, lost>>
  BY DEF BeginPair
<1>2. /\ host \in Hosts /\ host.dir \in Dirs /\ disk \in [Dirs -> States]
      /\ host.st \in States
  BY <1>1, AtWork
<1>3. /\ order \in ArmLists /\ Len(order) = 2
      /\ \A a \in Arms : \E i \in 1..2 : order[i] = a
  <2>1. /\ \A a \in Arms : \E i \in 1..2 : <<"baseline", "candidate">>[i] = a
        /\ \A a \in Arms : \E i \in 1..2 : <<"candidate", "baseline">>[i] = a
    <3>1. 1 \in 1..2 /\ 2 \in 1..2
      OBVIOUS
    <3> QED
      BY <3>1 DEF Arms
  <2> QED
    BY <2>1, OrderTypes
<1>4. index \in Nat /\ index # 0
  BY <1>2 DEF States, PairLists
<1>5. zero \in OutputsByArm
  BY EmptyTypes
<1> HIDE DEF order, zero, index
<1>6. st \in States /\ st.pending # 0 /\ SameMeasure(st, host.st)
  BY <1>2, <1>4 DEF States, SameMeasure
<1> HIDE DEF st
<1>7. /\ h \in Hosts /\ h.pc = "trial" /\ h.st = st /\ h.todo = order
      /\ h.dir = host.dir /\ h.clock = host.clock
  BY <1>2, <1>3, <1>5, <1>6 DEF Hosts, Phases
<1> HIDE DEF h
<1>8. /\ GoesOn(host.dir, "trial", host.clock) /\ SameMeasure(disk'[host.dir], st)
      /\ host'.st.pending # 0 /\ host'.todo = order
  BY <1>1, <1>2, <1>6, <1>7, CommitForm
<1> QED
  BY <1>1, <1>2, <1>3, <1>6, <1>8, SpendNothing, SameMeasureTransitive DEF PairBegins

LEMMA DecideForm == ASSUME IInv, Accounts, EvaluatorDecides PROVE Decides
<1> DEFINE st == [host.st EXCEPT !.decision = host.outlook]
           h == [host EXCEPT !.pc = "finish", !.st = st]
<1>1. host.pc = "decide" /\ Commit(h) /\ UNCHANGED <<spent, lost>>
  BY DEF EvaluatorDecides
<1>2. /\ host \in Hosts /\ host.dir \in Dirs /\ disk \in [Dirs -> States]
      /\ host.st \in States
  BY <1>1, AtWork
<1>3. st \in States /\ SameMeasure(st, host.st)
  BY <1>2 DEF States, Hosts, SameMeasure
<1> HIDE DEF st
<1>4. /\ h \in Hosts /\ h.pc = "finish" /\ h.st = st /\ h.dir = host.dir
      /\ h.clock = host.clock
  BY <1>2, <1>3 DEF Hosts, Phases
<1> HIDE DEF h
<1>5. GoesOn(host.dir, "finish", host.clock) /\ SameMeasure(disk'[host.dir], st)
  BY <1>1, <1>2, <1>4, CommitForm
<1> QED
  BY <1>1, <1>2, <1>3, <1>5, SpendNothing, SameMeasureTransitive DEF Decides

LEMMA BuildForm ==
    ASSUME IInv, Accounts, BuildDone
    PROVE  Fails \/ Leaves \/ BuildsOne
<1> DEFINE t == Took(Least(BuildLimit, Remaining(host)))
           h == Elapse(host, t)
           arm == Head(host.todo)
<1>1. /\ host.pc = "building" /\ host.st.pending = 0 /\ host.todo # <<>>
      /\ host.todo \in ArmLists
  BY DEF BuildDone, IInv, SessionHolds, TypeOK, Hosts
<1>2. /\ host \in Hosts /\ host.dir \in Dirs /\ disk \in [Dirs -> States]
      /\ host.st \in States
  BY <1>1, AtWork
<1>3. /\ h \in Hosts /\ h.st = host.st /\ h.dir = host.dir /\ h.clock = host.clock + t
      /\ Allowed(t, BuildLimit)
  BY <1>2, ElapseFacts, TookForm, ManifestAssumption
<1>4. Spend(t)
  BY DEF BuildDone
<1>5. \/ \E kind : Fail(h, kind)
      \/ /\ Return /\ UNCHANGED disk /\ lost' = [lost EXCEPT ![host.dir] = @ + 1]
      \/ /\ \E digest \in DigestsOf(host.st, arm) :
              LET st == [h.st EXCEPT !.builds = Append(@, [arm |-> arm, digest |-> digest,
                                                           session |-> h.st.session])]
                  rest == Tail(host.todo)
                  next == IF rest # <<>> THEN "build" ELSE AfterBuilds(st) IN
                /\ Rebuilt(host.st, arm, digest)
                /\ Commit([h EXCEPT !.st = st, !.pc = next,
                                    !.todo = IF next = "warmup" THEN WarmupArms ELSE rest])
         /\ UNCHANGED lost
  BY DEF BuildDone
<1> HIDE DEF h, t
<1>6. t \in Nat /\ t <= BuildLimit
  BY <1>3 DEF Allowed
<1>7. ASSUME NEW kind, Fail(h, kind) PROVE Fails
  <2>1. Allowed(t, BuildLimit + TrialLimit)
    BY <1>3, ManifestAssumption DEF Allowed
  <2>2. Costs(t, 0)
    BY <1>2, <1>4, <1>6, <1>7, SpendAlone DEF Fail
  <2>3. /\ disk' = [disk EXCEPT ![host.dir] =
             [Retired(host.st, kind) EXCEPT !.failure = kind, !.elapsed = host.clock + t]]
        /\ Return
    BY <1>3, <1>7 DEF Fail
  <2> QED
    BY <1>1, <2>1, <2>2, <2>3, FailForm
<1>8. ASSUME Return, UNCHANGED disk, lost' = [lost EXCEPT ![host.dir] = @ + 1] PROVE Leaves
  <2>1. Costs(t, 1)
    BY <1>2, <1>4, <1>6, <1>8, SpendForm DEF Spend
  <2> QED
    BY <1>1, <1>6, <1>8, <2>1, ReturnFacts DEF Leaves
<1>9. ASSUME NEW digest \in DigestsOf(host.st, arm), UNCHANGED lost,
             LET st == [h.st EXCEPT !.builds = Append(@, [arm |-> arm, digest |-> digest,
                                                          session |-> h.st.session])]
                 rest == Tail(host.todo)
                 next == IF rest # <<>> THEN "build" ELSE AfterBuilds(st) IN
               /\ Rebuilt(host.st, arm, digest)
               /\ Commit([h EXCEPT !.st = st, !.pc = next,
                                   !.todo = IF next = "warmup" THEN WarmupArms ELSE rest])
      PROVE  BuildsOne
  <2> DEFINE row == [arm |-> arm, digest |-> digest, session |-> host.st.session]
             builds == Append(host.st.builds, row)
             st == [host.st EXCEPT !.builds = builds]
             rest == Tail(host.todo)
             next == IF rest # <<>> THEN "build" ELSE AfterBuilds(st)
             todo == IF next = "warmup" THEN WarmupArms ELSE rest
             g == [h EXCEPT !.st = st, !.pc = next, !.todo = todo]
  <2>1. Commit(g) /\ Rebuilt(host.st, arm, digest)
    BY <1>3, <1>9
  <2>2. arm \in Arms /\ rest \in ArmLists
    BY <1>1 DEF ArmLists
  <2>3. digest \in Nat
    BY DEF DigestsOf
  <2>4. builds \in BuildLists
    <3>1. row \in BuildRows
      BY <1>2, <2>2, <2>3 DEF BuildRows, States
    <3>2. host.st.builds \in Seq(BuildRows)
      BY <1>2 DEF States, BuildLists
    <3> HIDE DEF row
    <3> QED
      BY <3>1, <3>2 DEF BuildLists
  <2> HIDE DEF builds
  <2>5. st \in States /\ st.pending = 0
    BY <1>1, <1>2, <2>4 DEF States
  <2> HIDE DEF st
  <2>6. /\ next \in {"build", "warmup", "loop", "evaluate"}
        /\ next = "build" <=> rest # <<>>
    BY DEF AfterBuilds
  <2>7. WarmupArms \in ArmLists /\ Len(WarmupArms) = 2 * Warmup
    <3>1. 2 * Warmup \in Nat
      BY ManifestAssumption
    <3>2. WarmupArms \in Seq(Arms) /\ Len(WarmupArms) = 2 * Warmup
      BY <3>1 DEF WarmupArms, Arms
    <3> QED
      BY <3>2 DEF ArmLists
  <2>8. /\ todo \in ArmLists
        /\ next = "warmup" => Len(todo) = 2 * Warmup
        /\ next # "warmup" => todo = rest
    BY <2>2, <2>7
  <2> HIDE DEF next, todo
  <2>9. /\ g \in Hosts /\ g.dir = host.dir /\ g.st = st /\ g.pc = next /\ g.todo = todo
        /\ g.clock = host.clock + t
    BY <1>3, <2>5, <2>6, <2>8 DEF Hosts, Phases
  <2> HIDE DEF g
  <2>10. /\ GoesOn(host.dir, next, host.clock + t) /\ SameMeasure(disk'[host.dir], st)
         /\ host'.st.pending = 0 /\ host'.todo = todo
    BY <1>2, <2>1, <2>5, <2>9, CommitForm
  <2>11. Costs(t, 0)
    BY <1>2, <1>4, <1>6, <1>9, SpendAlone
  <2>12. host'.pc = next
    BY <2>10 DEF GoesOn
  <2>13. /\ Allowed(t, BuildLimit) /\ Costs(t, 0)
         /\ GoesOn(host.dir, host'.pc, host.clock + t)
    BY <1>3, <2>10, <2>11, <2>12
  <2>14. IF rest # <<>>
         THEN host'.pc = "build" /\ host'.todo = rest
         ELSE /\ host'.pc \in {"warmup", "loop", "evaluate"}
              /\ host'.pc = "warmup" => host'.st.pending = 0 /\ Len(host'.todo) = 2 * Warmup
    BY <2>6, <2>8, <2>10, <2>12
  <2>15. SameMeasure(disk'[host.dir], [host.st EXCEPT !.builds = builds])
    BY <2>10 DEF st
  <2> HIDE DEF rest
  <2> QED
    BY <1>1, <2>1, <2>13, <2>14, <2>15 DEF BuildsOne, rest, arm, builds, row
<1> QED
  BY <1>5, <1>7, <1>8, <1>9

LEMMA RanForm ==
    ASSUME IInv, Accounts, host.pc = "running",
           NEW t, Allowed(t, TrialLimit), Costs(t, 0),
           NEW h \in Hosts, h.dir = host.dir, h.st = host.st, h.todo = host.todo,
           h.pc = "running", h.ran = host.ran, h.clock = host.clock + t,
           NEW output \in {1, 2}, Ran(h, output)
    PROVE  RunsOne \/ RunsLast
<1> DEFINE arm == Head(h.todo)
           rest == Tail(h.todo)
           ran == [h.ran EXCEPT ![arm] = output]
           d == h.dir
<1>1. /\ host \in Hosts /\ d \in Dirs /\ disk \in [Dirs -> States] /\ h.st \in States
  BY AtWork
<1>2. h.todo \in ArmLists /\ h.todo # <<>> /\ h.ran \in OutputsByArm
  BY DEF IInv, SessionHolds, Hosts
<1>3. rest \in ArmLists
  BY <1>2 DEF ArmLists
<1>4. ran \in OutputsByArm
  <2>1. output \in Nat
    OBVIOUS
  <2> QED
    BY <1>2, <2>1 DEF OutputsByArm
<1>5. IF rest # <<>>
      THEN /\ host' = [h EXCEPT !.todo = rest, !.ran = ran,
                                !.pc = IF h.st.pending = 0 THEN "warmup" ELSE "trial"]
           /\ UNCHANGED disk
      ELSE Commit([h EXCEPT !.todo = <<>>, !.pc = "loop",
                            !.st = IF h.st.pending = 0 THEN h.st ELSE PairCounted(h.st, ran)])
  BY DEF Ran
<1>6. CASE rest # <<>>
  <2> DEFINE pc == IF h.st.pending = 0 THEN "warmup" ELSE "trial"
  <2>1. host' = [h EXCEPT !.todo = rest, !.ran = ran, !.pc = pc] /\ UNCHANGED disk
    BY <1>5, <1>6
  <2> HIDE DEF pc, rest, ran
  <2>2. /\ host'.pc = pc /\ host'.st = h.st /\ host'.dir = d /\ host'.todo = rest
        /\ host'.ran = ran /\ host'.clock = h.clock
    BY <2>1 DEF Hosts
  <2> QED
    BY <1>6, <2>1, <2>2 DEF RunsOne, pc, rest, ran
<1>7. CASE rest = <<>>
  <2> DEFINE st == IF h.st.pending = 0 THEN h.st ELSE PairCounted(h.st, ran)
             g == [h EXCEPT !.todo = <<>>, !.pc = "loop", !.st = st]
  <2>1. Commit(g)
    BY <1>5, <1>7
  <2>2. st \in States
    BY <1>1, <1>4, PairCountedFacts
  <2> HIDE DEF st
  <2>3. g \in Hosts /\ g.pc = "loop" /\ g.st = st /\ g.dir = d /\ g.clock = h.clock
    BY <1>1, <2>2, EmptyTypes DEF Hosts, Phases
  <2> HIDE DEF g
  <2>4. GoesOn(d, "loop", h.clock) /\ SameMeasure(disk'[d], st)
    BY <1>1, <2>1, <2>3, CommitForm
  <2> QED
    BY <1>7, <2>4 DEF RunsLast, st
<1> QED
  BY <1>6, <1>7

LEMMA TrialForm ==
    ASSUME IInv, Accounts, TrialDone
    PROVE  Fails \/ RunsOne \/ RunsLast
<1> DEFINE t == Took(Least(TrialLimit, Remaining(host)))
           h == Elapse(host, t)
<1>1. host.pc = "running" /\ UNCHANGED lost /\ Spend(t)
  BY DEF TrialDone, Fail
<1>2. host \in Hosts /\ host.dir \in Dirs /\ host.st \in States
  BY <1>1, AtWork
<1>3. /\ h \in Hosts /\ h.st = host.st /\ h.dir = host.dir /\ h.clock = host.clock + t
      /\ h.todo = host.todo /\ h.ran = host.ran /\ h.pc = "running"
      /\ Allowed(t, TrialLimit)
  BY <1>1, <1>2, ElapseFacts, TookForm, ManifestAssumption
<1>4. \/ \E output \in OutputsOf(h.st, Head(h.todo)) : Ran(h, output)
      \/ \E kind : Fail(h, kind)
      \/ /\ disk' = [disk EXCEPT ![h.dir] =
                      [Retired(h.st, "cancelled") EXCEPT !.elapsed = h.clock]]
         /\ Return
  BY DEF TrialDone
<1> HIDE DEF h, t
<1>5. t \in Nat /\ Allowed(t, BuildLimit + TrialLimit)
  BY <1>3, ManifestAssumption DEF Allowed
<1>6. Costs(t, 0)
  BY <1>1, <1>2, <1>5, SpendAlone
<1>7. ASSUME NEW output \in OutputsOf(h.st, Head(h.todo)), Ran(h, output)
      PROVE  RunsOne \/ RunsLast
  <2>1. output \in {1, 2}
    BY DEF OutputsOf
  <2> QED
    BY <1>1, <1>3, <1>6, <1>7, <2>1, RanForm
<1>8. ASSUME NEW kind, Fail(h, kind) PROVE Fails
  <2>1. /\ disk' = [disk EXCEPT ![host.dir] =
             [Retired(host.st, kind) EXCEPT !.failure = kind, !.elapsed = host.clock + t]]
        /\ Return
    BY <1>3, <1>8 DEF Fail
  <2> QED
    BY <1>1, <1>5, <1>6, <2>1, FailForm
<1>9. ASSUME disk' = [disk EXCEPT ![h.dir] =
                       [Retired(h.st, "cancelled") EXCEPT !.elapsed = h.clock]],
             Return
      PROVE  Fails
  <2> DEFINE r == Retired(host.st, "cancelled")
             s == [r EXCEPT !.elapsed = host.clock + t]
             q == [r EXCEPT !.failure = r.failure, !.elapsed = host.clock + t]
  <2>1. r \in States
    BY <1>2, RetiredFacts DEF Kinds
  <2>2. s = q
    <3> HIDE DEF r
    <3> QED
      BY <2>1 DEF States
  <2>3. disk' = [disk EXCEPT ![host.dir] = s]
    BY <1>3, <1>9
  <2> HIDE DEF s
  <2>4. disk' = [disk EXCEPT ![host.dir] = q]
    BY <2>2, <2>3
  <2> QED
    BY <1>1, <1>5, <1>6, <1>9, <2>4, FailForm
<1> QED
  BY <1>4, <1>7, <1>8, <1>9

(* Every step has one of the forms. *)
LEMMA StepForms == IInv /\ Accounts /\ [Next]_evars => Forms
<1> SUFFICES ASSUME IInv, Accounts, [Next]_evars PROVE Forms
  OBVIOUS
<1>1. CASE RunStep \/ Cancel \/ UNCHANGED evars
  BY <1>1 DEF RunStep, Cancel, evars, Idles, Forms
<1>2. CASE Build
  BY <1>2, MoveForms, BuildForm DEF Build, Forms
<1>3. CASE Measure
  BY <1>3, MoveForms, NoBudgetForm, ReturnForms, BeginPairForm, TrialForm DEF Measure, Forms
<1>4. CASE Evaluate
  BY <1>4, MoveForms, ReturnForms, DecideForm DEF Evaluate, Forms
<1>5. CASE \E d \in Dirs : Start(d)
  BY <1>5, StartForm DEF Forms
<1>6. CASE Killed
  BY <1>6, ReturnForms DEF Forms
<1> QED
  BY <1>1, <1>2, <1>3, <1>4, <1>5, <1>6 DEF Next, HostStep

-----------------------------------------------------------------------------
(* Outputs *)

(* The first outputs are those of the first pair, and they are stable as long
   as every pair has them; a counted pair has outputs of both arms. *)
OutputsHold(st) ==
  /\ \A p \in 1..Len(st.pairs), a \in Arms : st.pairs[p].ran[a] # 0
  /\ \A a \in Arms : st.outs[a] = IF Len(st.pairs) = 0 THEN 0 ELSE st.pairs[1].ran[a]
  /\ st.stable <=> \A a \in Arms, p \in 1..Len(st.pairs) : st.pairs[p].ran[a] = st.outs[a]

(* An arm of the pair in hand has run or is still to run. *)
ArmsToRun ==
  host.pc \in {"trial", "running"} /\ host.st.pending # 0 =>
    \A a \in Arms : host.ran[a] = 0 => \E i \in 1..Len(host.todo) : host.todo[i] = a

FilesOutputs == \A d \in Dirs : OutputsHold(disk[d])
OutputsInv == FilesOutputs /\ ArmsToRun

LEMMA SameOutputs ==
    ASSUME NEW s, NEW t, SameMeasure(s, t), OutputsHold(t) PROVE OutputsHold(s)
BY DEF SameMeasure, OutputsHold

LEMMA PairCountedMeasure ==
    ASSUME NEW st \in States, NEW ran \in OutputsByArm
    PROVE  LET s == PairCounted(st, ran) IN
           /\ s.pairs = Append(st.pairs, [index |-> st.pending, session |-> st.session,
                                          ran |-> ran])
           /\ s.outs = [a \in Arms |-> IF st.outs[a] = 0 THEN ran[a] ELSE st.outs[a]]
           /\ s.stable = (st.stable /\ \A a \in Arms : st.outs[a] \in {0, ran[a]})
           /\ s.builds = st.builds /\ s.session = st.session
<1> DEFINE outs == [a \in Arms |-> IF st.outs[a] = 0 THEN ran[a] ELSE st.outs[a]]
           stable == st.stable /\ \A a \in Arms : st.outs[a] \in {0, ran[a]}
           o == Observed(st, ran)
           pairs == Append(o.pairs, [index |-> st.pending, session |-> st.session,
                                     ran |-> ran])
           s == [o EXCEPT !.pairs = pairs, !.pending = 0]
<1>1. outs \in OutputsByArm /\ stable \in BOOLEAN
  BY DEF OutputsByArm, States
<1>2. o = [st EXCEPT !.outs = outs, !.stable = stable]
  BY DEF Observed
<1>3. PairCounted(st, ran) = s
  BY DEF PairCounted
<1> HIDE DEF outs, stable, o
<1>4. /\ o \in States /\ o.pairs = st.pairs /\ o.builds = st.builds
      /\ o.session = st.session /\ o.outs = outs /\ o.stable = stable
  BY <1>1, <1>2 DEF States
<1> HIDE DEF pairs
<1>5. /\ s.pairs = pairs /\ s.builds = o.builds /\ s.session = o.session
      /\ s.outs = o.outs /\ s.stable = o.stable
  BY <1>4 DEF States
<1>6. pairs = Append(st.pairs, [index |-> st.pending, session |-> st.session, ran |-> ran])
  BY <1>4 DEF pairs
<1> HIDE DEF s
<1> QED
  BY <1>3, <1>4, <1>5, <1>6 DEF outs, stable

(* The row of a counted pair is the last one; those before it stay. *)
LEMMA PairCountedRows ==
    ASSUME NEW st \in States, NEW ran \in OutputsByArm
    PROVE  LET s == PairCounted(st, ran)
               n == Len(st.pairs) IN
           /\ n \in Nat /\ Len(s.pairs) = n + 1
           /\ s.pairs[n + 1].ran = ran /\ s.pairs[n + 1].session = st.session
           /\ \A p \in 1..n : s.pairs[p] = st.pairs[p]
<1> DEFINE row == [index |-> st.pending, session |-> st.session, ran |-> ran]
<1>1. row \in PairRows /\ row.ran = ran /\ row.session = st.session
  BY DEF States, PairRows, OutputsByArm
<1>2. PairCounted(st, ran).pairs = Append(st.pairs, row)
  BY PairCountedMeasure
<1>3. st.pairs \in Seq(PairRows)
  BY DEF States, PairLists
<1> HIDE DEF row
<1> QED
  BY <1>1, <1>2, <1>3

LEMMA CountedOutputs ==
    ASSUME NEW st \in States, NEW ran \in OutputsByArm, \A a \in Arms : ran[a] # 0,
           OutputsHold(st)
    PROVE  OutputsHold(PairCounted(st, ran))
<1> DEFINE s == PairCounted(st, ran)
           n == Len(st.pairs)
<1>1. /\ n \in Nat /\ Len(s.pairs) = n + 1 /\ s.pairs[n + 1].ran = ran
      /\ \A p \in 1..n : s.pairs[p] = st.pairs[p]
  BY PairCountedRows
<1>2. /\ \A a \in Arms : s.outs[a] = IF st.outs[a] = 0 THEN ran[a] ELSE st.outs[a]
      /\ s.stable <=> (st.stable /\ \A a \in Arms : st.outs[a] \in {0, ran[a]})
  <2>1. s.outs = [a \in Arms |-> IF st.outs[a] = 0 THEN ran[a] ELSE st.outs[a]]
    BY PairCountedMeasure
  <2>2. s.stable = (st.stable /\ \A a \in Arms : st.outs[a] \in {0, ran[a]})
    BY PairCountedMeasure
  <2> HIDE DEF s
  <2>3. \A a \in Arms : s.outs[a] = IF st.outs[a] = 0 THEN ran[a] ELSE st.outs[a]
    BY <2>1
  <2>4. s.stable <=> (st.stable /\ \A a \in Arms : st.outs[a] \in {0, ran[a]})
    BY <2>2
  <2> QED
    BY <2>3, <2>4
<1>3. /\ \A p \in 1..n, a \in Arms : st.pairs[p].ran[a] # 0
      /\ \A a \in Arms : st.outs[a] = IF n = 0 THEN 0 ELSE st.pairs[1].ran[a]
      /\ st.stable <=> \A a \in Arms, p \in 1..n : st.pairs[p].ran[a] = st.outs[a]
  BY DEF OutputsHold
<1> HIDE DEF s, n
<1>4. \A p \in 1..Len(s.pairs) : p \in 1..n \/ p = n + 1
  BY <1>1
<1>5. \A p \in 1..Len(s.pairs), a \in Arms : s.pairs[p].ran[a] # 0
  BY <1>1, <1>3, <1>4
<1>6. CASE n = 0
  <2>1. \A a \in Arms : s.outs[a] = ran[a] /\ st.outs[a] = 0
    BY <1>2, <1>3, <1>6
  <2>2. \A p \in 1..Len(s.pairs) : p = 1 /\ s.pairs[p].ran = ran
    BY <1>1, <1>6
  <2>3. Len(s.pairs) # 0 /\ s.pairs[1].ran = ran
    BY <1>1, <1>6
  <2>4. st.stable
    BY <1>3, <1>6
  <2>5. s.stable
    BY <1>2, <2>1, <2>4
  <2> QED
    BY <1>5, <2>1, <2>2, <2>3, <2>5 DEF OutputsHold, s
<1>7. CASE n # 0
  <2>1. 1 \in 1..n /\ Len(s.pairs) # 0 /\ s.pairs[1] = st.pairs[1]
    BY <1>1, <1>7
  <2>2. \A a \in Arms : st.outs[a] = st.pairs[1].ran[a] /\ st.outs[a] # 0
    BY <1>3, <1>7, <2>1
  <2>3. \A a \in Arms : s.outs[a] = st.outs[a]
    BY <1>2, <2>2
  <2>4. s.stable <=> (st.stable /\ \A a \in Arms : st.outs[a] = ran[a])
    BY <1>2, <2>2
  <2>5. (\A a \in Arms, p \in 1..Len(s.pairs) : s.pairs[p].ran[a] = s.outs[a])
        <=> /\ \A a \in Arms, p \in 1..n : st.pairs[p].ran[a] = st.outs[a]
            /\ \A a \in Arms : ran[a] = st.outs[a]
    <3>1. /\ \A p \in 1..n : p \in 1..Len(s.pairs)
          /\ n + 1 \in 1..Len(s.pairs)
      BY <1>1
    <3> QED
      BY <1>1, <1>4, <2>3, <3>1
  <2>6. \A a \in Arms : s.outs[a] = s.pairs[1].ran[a]
    BY <2>1, <2>2, <2>3
  <2> QED
    BY <1>3, <1>5, <2>1, <2>4, <2>5, <2>6 DEF OutputsHold, s
<1> QED
  BY <1>6, <1>7

(* The session's lists are what the file's are. *)
LEMMA InHand ==
    ASSUME IInv, host.pc \notin {"idle", "finish"}
    PROVE  /\ host.dir \in Dirs /\ host.st = disk[host.dir] /\ host.st \in States
           /\ host.todo \in Seq(Arms) /\ host.ran \in OutputsByArm /\ host.clock \in Nat
           /\ host.pc \in {"build", "building", "warmup", "trial", "running"}
                => host.todo # <<>>
BY DEF IInv, TypeOK, SessionHolds, Hosts, ArmLists

LEMMA OneLeft ==
    ASSUME NEW s \in Seq(Arms), s # <<>>
    PROVE  Tail(s) = <<>> <=> Len(s) = 1
<1>1. Len(s) \in Nat /\ Len(s) # 0 /\ Tail(s) \in Seq(Arms) /\ Len(Tail(s)) = Len(s) - 1
  OBVIOUS
<1>2. Tail(s) = <<>> <=> Len(Tail(s)) = 0
  BY <1>1
<1> QED
  BY <1>1, <1>2

LEMMA OutputsStep == IInv /\ OutputsInv /\ Forms => OutputsInv'
<1> SUFFICES ASSUME IInv, OutputsInv, Forms PROVE OutputsInv'
  OBVIOUS
<1> USE DEF OutputsInv, FilesOutputs
<1>1. \A d \in Dirs : OutputsHold(disk[d])
  OBVIOUS
<1>2. ASSUME \A d \in Dirs : disk'[d] = disk[d] \/ OutputsHold(disk'[d])
      PROVE  FilesOutputs'
  <2> SUFFICES ASSUME NEW d \in Dirs PROVE OutputsHold(disk'[d])
    BY DEF OutputsHold
  <2> QED
    BY <1>1, <1>2
<1>3. CASE Idles
  BY <1>3 DEF Idles, ArmsToRun, OutputsHold
<1>4. CASE Proceeds
  <2>1. FilesOutputs'
    BY <1>2, <1>4 DEF Proceeds
  <2>2. host.pc = "warmup" => host.st.pending = 0
    BY DEF IInv, SessionHolds
  <2>3. ArmsToRun'
    BY <1>4, <2>2 DEF Proceeds, Moves, ArmsToRun
  <2> QED
    BY <2>1, <2>3
<1>5. CASE Leaves
  BY <1>2, <1>5 DEF Leaves, ArmsToRun
<1>6. CASE Fails \/ Decides
  <2>1. /\ host.pc \notin {"idle", "finish"} /\ host'.pc \notin {"trial", "running"}
        /\ \A c \in Dirs : c # host.dir => disk'[c] = disk[c]
        /\ SameMeasure(disk'[host.dir], host.st)
    BY <1>6 DEF Fails, Decides, GoesOn, Writes
  <2>2. OutputsHold(disk'[host.dir])
    BY <1>1, <2>1, InHand, SameOutputs
  <2> QED
    BY <1>2, <2>1, <2>2 DEF ArmsToRun
<1>7. ASSUME NEW d \in Dirs, Begins(d) PROVE OutputsInv'
  <2>1. host'.pc \in {"build", "finish"} /\ \A c \in Dirs : c # d => disk'[c] = disk[c]
    BY <1>7 DEF Begins, GoesOn, Writes
  <2>2. disk'[d] = disk[d] \/ OutputsHold(disk'[d])
    <3>1. ASSUME SameMeasure(disk'[d], [disk[d] EXCEPT !.session = @ + 1])
          PROVE  OutputsHold(disk'[d])
      <4>1. disk[d] \in States /\ OutputsHold(disk[d])
        BY <1>1 DEF IInv, TypeOK
      <4>2. OutputsHold([disk[d] EXCEPT !.session = @ + 1])
        BY <4>1 DEF OutputsHold, States
      <4> QED
        BY <3>1, <4>2, SameOutputs
    <3> QED
      BY <1>7, <3>1 DEF Begins
  <2> QED
    BY <1>2, <2>1, <2>2 DEF ArmsToRun
<1>8. CASE BuildsOne
  <2> DEFINE d == host.dir
  <2>1. /\ host.pc = "building" /\ \A c \in Dirs : c # d => disk'[c] = disk[c]
        /\ host'.pc \notin {"trial", "running"}
    BY <1>8 DEF BuildsOne, GoesOn, Writes
  <2>2. PICK builds : SameMeasure(disk'[d], [host.st EXCEPT !.builds = builds])
    BY <1>8 DEF BuildsOne
  <2>3. OutputsHold(host.st) /\ host.st \in States
    BY <1>1, <2>1, InHand
  <2>4. OutputsHold([host.st EXCEPT !.builds = builds])
    BY <2>3 DEF OutputsHold, States
  <2>5. OutputsHold(disk'[d])
    BY <2>2, <2>4, SameOutputs
  <2> QED
    BY <1>2, <2>1, <2>5 DEF ArmsToRun
<1>9. CASE PairBegins
  <2>1. /\ host.pc = "loop" /\ \A c \in Dirs : c # host.dir => disk'[c] = disk[c]
        /\ SameMeasure(disk'[host.dir], host.st)
    BY <1>9 DEF PairBegins, GoesOn, Writes
  <2>2. OutputsHold(disk'[host.dir])
    BY <1>1, <2>1, InHand, SameOutputs
  <2>3. ArmsToRun'
    BY <1>9 DEF PairBegins, ArmsToRun
  <2> QED
    BY <1>2, <2>1, <2>2, <2>3
<1>10. CASE RunsOne
  <2> DEFINE arm == Head(host.todo)
  <2>1. /\ host.pc = "running" /\ UNCHANGED disk /\ host'.st = host.st
        /\ host'.todo = Tail(host.todo)
    BY <1>10 DEF RunsOne
  <2>2. PICK output \in {1, 2} : host'.ran = [host.ran EXCEPT ![arm] = output]
    BY <1>10 DEF RunsOne
  <2>3. /\ host.todo \in Seq(Arms) /\ host.todo # <<>> /\ host.ran \in [Arms -> Nat]
    BY <2>1, InHand DEF OutputsByArm
  <2>4. ASSUME host.st.pending # 0, NEW a \in Arms, host'.ran[a] = 0
        PROVE  \E i \in 1..Len(host'.todo) : host'.todo[i] = a
    <3>1. a # arm /\ host.ran[a] = 0
      BY <2>2, <2>3, <2>4
    <3>2. PICK i \in 1..Len(host.todo) : host.todo[i] = a
      BY <2>1, <2>4, <3>1 DEF ArmsToRun
    <3>3. i # 1
      BY <2>3, <3>1, <3>2
    <3>4. i - 1 \in 1..Len(host'.todo) /\ host'.todo[i - 1] = a
      BY <2>1, <2>3, <3>2, <3>3
    <3> QED
      BY <3>4
  <2>5. ArmsToRun'
    BY <2>1, <2>4 DEF ArmsToRun
  <2> QED
    BY <1>2, <2>1, <2>5
<1>11. CASE RunsLast
  <2> DEFINE d == host.dir
             arm == Head(host.todo)
  <2>1. /\ host.pc = "running" /\ Tail(host.todo) = <<>> /\ host'.pc = "loop"
        /\ \A c \in Dirs : c # d => disk'[c] = disk[c]
    BY <1>11 DEF RunsLast, GoesOn, Writes
  <2>2. /\ OutputsHold(host.st) /\ host.st \in States
        /\ host.todo \in Seq(Arms) /\ host.todo # <<>> /\ host.ran \in [Arms -> Nat]
    BY <1>1, <2>1, InHand DEF OutputsByArm
  <2>3. CASE host.st.pending = 0
    <3>1. SameMeasure(disk'[d], host.st)
      BY <1>11, <2>3 DEF RunsLast
    <3> QED
      BY <1>2, <2>1, <2>2, <3>1, SameOutputs DEF ArmsToRun
  <2>4. CASE host.st.pending # 0
    <3>1. PICK output \in {1, 2} :
             SameMeasure(disk'[d], PairCounted(host.st, [host.ran EXCEPT ![arm] = output]))
      BY <1>11, <2>4 DEF RunsLast
    <3> DEFINE ran == [host.ran EXCEPT ![arm] = output]
    <3>2. ran \in OutputsByArm
      <4>1. output \in Nat
        OBVIOUS
      <4> QED
        BY <2>2, <4>1 DEF OutputsByArm
    <3>3. ASSUME NEW a \in Arms PROVE ran[a] # 0
      <4>1. CASE a = arm
        BY <2>2, <4>1
      <4>2. CASE a # arm
        <5>1. ASSUME host.ran[a] = 0 PROVE FALSE
          <6>1. PICK i \in 1..Len(host.todo) : host.todo[i] = a
            BY <2>1, <2>4, <5>1 DEF ArmsToRun
          <6>2. Len(host.todo) = 1
            BY <2>1, <2>2, OneLeft
          <6> QED
            BY <2>2, <4>2, <6>1, <6>2
        <5> QED
          BY <2>2, <4>2, <5>1
      <4> QED
        BY <4>1, <4>2
    <3> HIDE DEF ran
    <3>4. OutputsHold(PairCounted(host.st, ran))
      BY <2>2, <3>2, <3>3, CountedOutputs
    <3>5. OutputsHold(disk'[d])
      BY <3>1, <3>4, SameOutputs DEF ran
    <3> QED
      BY <1>2, <2>1, <3>5 DEF ArmsToRun
  <2> QED
    BY <2>3, <2>4
<1> QED
  BY <1>3, <1>4, <1>5, <1>6, <1>7, <1>8, <1>9, <1>10, <1>11 DEF Forms

-----------------------------------------------------------------------------
(* Builds *)

BuiltIn(st, arm, n) == \E i \in BuildsOf(st, arm) : st.builds[i].session = n

(* An arm is built once a session at most, always to the same digest, and was
   built in every session that has a pair. *)
ArmHolds(st, arm) ==
  /\ \A i, j \in BuildsOf(st, arm) :
       /\ st.builds[i].digest = st.builds[j].digest
       /\ st.builds[i].session = st.builds[j].session => i = j
  /\ BuildsOf(st, arm) # {}
       => \E i \in BuildsOf(st, arm) : \A j \in BuildsOf(st, arm) : i <= j
  /\ \A p \in 1..Len(st.pairs) : BuiltIn(st, arm, st.pairs[p].session)

BuildsHold(st) ==
  /\ \A i \in 1..Len(st.builds) : st.builds[i].session <= st.session
  /\ \A arm \in Arms : ArmHolds(st, arm)

(* What a session has still to build, and has built. *)
ArmsToBuild ==
  /\ host.pc \in {"build", "building"} =>
       \/ /\ host.todo = <<"baseline", "candidate">>
          /\ ~BuiltIn(host.st, "baseline", host.st.session)
          /\ ~BuiltIn(host.st, "candidate", host.st.session)
       \/ /\ host.todo = <<"candidate">>
          /\ BuiltIn(host.st, "baseline", host.st.session)
          /\ ~BuiltIn(host.st, "candidate", host.st.session)
  /\ host.pc \in {"warmup", "trial", "running", "loop"} =>
       \A arm \in Arms : BuiltIn(host.st, arm, host.st.session)

FilesBuilds == \A d \in Dirs : BuildsHold(disk[d])
BuildsInv == FilesBuilds /\ ArmsToBuild

LEMMA SameBuilds ==
    ASSUME NEW s, NEW t, SameMeasure(s, t)
    PROVE  /\ BuildsHold(t) => BuildsHold(s)
           /\ \A arm, n : BuiltIn(s, arm, n) <=> BuiltIn(t, arm, n)
           /\ s.session = t.session
<1>1. s.builds = t.builds /\ s.pairs = t.pairs /\ s.session = t.session
  BY DEF SameMeasure
<1>2. \A arm : BuildsOf(s, arm) = BuildsOf(t, arm)
  BY <1>1 DEF BuildsOf
<1>3. \A arm, n : BuiltIn(s, arm, n) <=> BuiltIn(t, arm, n)
  BY <1>1, <1>2 DEF BuiltIn
<1>4. \A arm : ArmHolds(t, arm) => ArmHolds(s, arm)
  BY <1>1, <1>2, <1>3 DEF ArmHolds
<1> QED
  BY <1>1, <1>3, <1>4 DEF BuildsHold

(* A new session has built nothing yet. *)
LEMMA NewSession ==
    ASSUME NEW t \in States, BuildsHold(t), NEW s,
           SameMeasure(s, [t EXCEPT !.session = @ + 1])
    PROVE  BuildsHold(s) /\ \A arm : ~BuiltIn(s, arm, s.session)
<1> DEFINE u == [t EXCEPT !.session = @ + 1]
<1>1. /\ u.builds = t.builds /\ u.pairs = t.pairs /\ u.session = t.session + 1
      /\ t.session \in Nat /\ t.builds \in Seq(BuildRows)
  BY DEF States, BuildLists
<1>2. SameMeasure(s, u)
  OBVIOUS
<1> HIDE DEF u
<1>3. \A arm : BuildsOf(u, arm) = BuildsOf(t, arm)
  BY <1>1 DEF BuildsOf
<1>4. \A i \in 1..Len(t.builds) : t.builds[i].session \in Nat /\ t.builds[i].session <= t.session
  <2> SUFFICES ASSUME NEW i \in 1..Len(t.builds)
               PROVE  t.builds[i].session \in Nat /\ t.builds[i].session <= t.session
    OBVIOUS
  <2>1. t.builds[i] \in BuildRows
    BY <1>1
  <2> QED
    BY <2>1 DEF BuildsHold, BuildRows
<1>5. \A i \in 1..Len(u.builds) : u.builds[i].session <= u.session
                                  /\ u.builds[i].session # u.session
  BY <1>1, <1>4
<1>6. \A arm : ~BuiltIn(u, arm, u.session)
  BY <1>5 DEF BuiltIn, BuildsOf
<1>7. \A arm : ArmHolds(t, arm) => ArmHolds(u, arm)
  BY <1>1, <1>3 DEF ArmHolds, BuiltIn
<1>8. BuildsHold(u)
  BY <1>5, <1>7 DEF BuildsHold
<1> QED
  BY <1>2, <1>6, <1>8, SameBuilds

(* One more build. *)
LEMMA OneMoreBuild ==
    ASSUME NEW t \in States, BuildsHold(t), NEW arm \in Arms,
           NEW digest \in DigestsOf(t, arm), Rebuilt(t, arm, digest),
           ~BuiltIn(t, arm, t.session), NEW s,
           SameMeasure(s, [t EXCEPT !.builds =
             Append(@, [arm |-> arm, digest |-> digest, session |-> t.session])])
    PROVE  /\ BuildsHold(s) /\ BuiltIn(s, arm, s.session)
           /\ \A a : a # arm => (BuiltIn(s, a, s.session) <=> BuiltIn(t, a, t.session))
<1> DEFINE row == [arm |-> arm, digest |-> digest, session |-> t.session]
           n == Len(t.builds)
<1>1. t.builds \in Seq(BuildRows) /\ t.session \in Nat /\ digest \in Nat
  BY DEF States, BuildLists, DigestsOf
<1>2. row \in BuildRows /\ row.arm = arm /\ row.digest = digest /\ row.session = t.session
  BY <1>1 DEF BuildRows
<1>3. s.builds = Append(t.builds, row) /\ s.pairs = t.pairs /\ s.session = t.session
  <2> DEFINE builds == Append(t.builds, row)
  <2>1. SameMeasure(s, [t EXCEPT !.builds = builds])
    OBVIOUS
  <2> HIDE DEF builds
  <2>2. s.builds = builds /\ s.pairs = t.pairs /\ s.session = t.session
    BY <2>1 DEF SameMeasure, States
  <2> QED
    BY <2>2 DEF builds
<1> HIDE DEF row
<1>4. /\ n \in Nat /\ Len(s.builds) = n + 1 /\ s.builds[n + 1] = row
      /\ \A i \in 1..n : s.builds[i] = t.builds[i]
  BY <1>1, <1>2, <1>3
<1> HIDE DEF n
<1>5. \A a : a # arm => BuildsOf(s, a) = BuildsOf(t, a)
  BY <1>2, <1>4 DEF BuildsOf, n
<1>6. BuildsOf(s, arm) = BuildsOf(t, arm) \cup {n + 1}
  BY <1>2, <1>4 DEF BuildsOf, n
<1>7. \A a : BuildsOf(t, a) \subseteq 1..n
  BY DEF BuildsOf, n
<1>8. \A a, m : BuiltIn(t, a, m) => BuiltIn(s, a, m)
  BY <1>4, <1>5, <1>6, <1>7 DEF BuiltIn
<1>9. BuiltIn(s, arm, s.session)
  BY <1>2, <1>3, <1>4, <1>6 DEF BuiltIn
<1>10. \A a : a # arm => (BuiltIn(s, a, s.session) <=> BuiltIn(t, a, t.session))
  BY <1>3, <1>4, <1>5, <1>7 DEF BuiltIn
<1>11. \A i \in 1..Len(s.builds) : s.builds[i].session <= s.session
  <2> SUFFICES ASSUME NEW i \in 1..(n + 1) PROVE s.builds[i].session <= t.session
    BY <1>3, <1>4
  <2>1. CASE i \in 1..n
    BY <1>4, <2>1 DEF BuildsHold, n
  <2>2. CASE i = n + 1
    BY <1>1, <1>2, <1>4, <2>2
  <2> QED
    BY <1>4, <2>1, <2>2
<1>12. \A p \in 1..Len(s.pairs), a \in Arms : BuiltIn(s, a, s.pairs[p].session)
  BY <1>3, <1>8 DEF BuildsHold, ArmHolds
<1>13. ASSUME NEW a \in Arms, a # arm PROVE ArmHolds(s, a)
  <2>1. ArmHolds(t, a)
    BY DEF BuildsHold
  <2>2. BuildsOf(s, a) = BuildsOf(t, a) /\ \A i \in BuildsOf(t, a) : s.builds[i] = t.builds[i]
    BY <1>4, <1>5, <1>7, <1>13
  <2> QED
    BY <1>12, <2>1, <2>2 DEF ArmHolds
<1>14. ArmHolds(s, arm)
  <2> DEFINE old == BuildsOf(t, arm)
  <2>1. ArmHolds(t, arm)
    BY DEF BuildsHold
  <2>2. \A i \in old : i \in Nat /\ i < n + 1 /\ s.builds[i] = t.builds[i]
    BY <1>4, <1>7
  <2>3. \A i \in old : t.builds[i].session # t.session
    BY DEF BuiltIn
  <2>4. \A i \in old : t.builds[i].digest = digest
    <3>1. CASE old = {}
      BY <3>1
    <3>2. CASE old # {}
      <4>1. PICK i \in old : \A j \in old : i <= j
        BY <2>1, <3>2 DEF ArmHolds
      <4>2. t.builds[i].digest = digest
        BY <4>1 DEF Rebuilt
      <4> QED
        BY <2>1, <4>2 DEF ArmHolds
    <3> QED
      BY <3>1, <3>2
  <2>5. \A i \in BuildsOf(s, arm) : s.builds[i].digest = digest
    BY <1>2, <1>4, <1>6, <2>2, <2>4
  <2>6. \A i, j \in BuildsOf(s, arm) :
          s.builds[i].session = s.builds[j].session => i = j
    <3> SUFFICES ASSUME NEW i \in old \cup {n + 1}, NEW j \in old \cup {n + 1},
                        s.builds[i].session = s.builds[j].session
                 PROVE  i = j
      BY <1>6
    <3>1. CASE i \in old /\ j \in old
      BY <2>1, <2>2, <3>1 DEF ArmHolds
    <3>2. CASE i = n + 1 /\ j = n + 1
      BY <3>2
    <3>3. CASE i \in old /\ j = n + 1
      BY <1>2, <1>4, <2>2, <2>3, <3>3
    <3>4. CASE i = n + 1 /\ j \in old
      BY <1>2, <1>4, <2>2, <2>3, <3>4
    <3> QED
      BY <3>1, <3>2, <3>3, <3>4
  <2>7. \E i \in BuildsOf(s, arm) : \A j \in BuildsOf(s, arm) : i <= j
    <3>1. CASE old = {}
      BY <1>4, <1>6, <3>1
    <3>2. CASE old # {}
      <4>1. PICK i \in old : \A j \in old : i <= j
        BY <2>1, <3>2 DEF ArmHolds
      <4>2. \A j \in old \cup {n + 1} : i <= j
        BY <1>4, <2>2, <4>1
      <4> QED
        BY <1>6, <4>1, <4>2
    <3> QED
      BY <3>1, <3>2
  <2> QED
    BY <1>12, <2>5, <2>6, <2>7 DEF ArmHolds
<1>15. BuildsHold(s)
  BY <1>11, <1>13, <1>14 DEF BuildsHold
<1> QED
  BY <1>9, <1>10, <1>15

(* A pair counted in a session that has built both arms. *)
LEMMA CountedBuilds ==
    ASSUME NEW st \in States, NEW ran \in OutputsByArm, BuildsHold(st),
           \A arm \in Arms : BuiltIn(st, arm, st.session)
    PROVE  LET s == PairCounted(st, ran) IN
           BuildsHold(s) /\ \A arm \in Arms : BuiltIn(s, arm, s.session)
<1> DEFINE s == PairCounted(st, ran)
           n == Len(st.pairs)
<1>1. /\ n \in Nat /\ Len(s.pairs) = n + 1 /\ s.pairs[n + 1].session = st.session
      /\ \A p \in 1..n : s.pairs[p] = st.pairs[p]
  BY PairCountedRows
<1>2. s.builds = st.builds /\ s.session = st.session
  BY PairCountedMeasure
<1> HIDE DEF s
<1>3. \A arm : BuildsOf(s, arm) = BuildsOf(st, arm)
  BY <1>2 DEF BuildsOf
<1>4. \A arm, m : BuiltIn(s, arm, m) <=> BuiltIn(st, arm, m)
  BY <1>2, <1>3 DEF BuiltIn
<1>5. ASSUME NEW arm \in Arms PROVE ArmHolds(s, arm)
  <2>1. ArmHolds(st, arm)
    BY DEF BuildsHold
  <2>2. ASSUME NEW p \in 1..Len(s.pairs) PROVE BuiltIn(s, arm, s.pairs[p].session)
    <3>1. CASE p \in 1..n
      BY <1>1, <1>4, <2>1, <3>1 DEF ArmHolds
    <3>2. CASE p = n + 1
      BY <1>1, <1>4, <3>2
    <3> QED
      BY <1>1, <3>1, <3>2
  <2> QED
    BY <1>2, <1>3, <2>1, <2>2 DEF ArmHolds
<1>6. BuildsHold(s)
  BY <1>2, <1>5 DEF BuildsHold
<1> QED
  BY <1>2, <1>4, <1>6 DEF s

LEMMA BuildsStep == IInv /\ BuildsInv /\ Forms => BuildsInv'
<1> SUFFICES ASSUME IInv, BuildsInv, Forms PROVE BuildsInv'
  OBVIOUS
<1> USE DEF BuildsInv
<1>1. \A d \in Dirs : BuildsHold(disk[d])
  BY DEF FilesBuilds
<1>2. ASSUME \A d \in Dirs : disk'[d] = disk[d] \/ BuildsHold(disk'[d])
      PROVE  FilesBuilds'
  <2> SUFFICES ASSUME NEW d \in Dirs PROVE BuildsHold(disk[d])'
    BY DEF FilesBuilds
  <2>1. BuildsHold(disk'[d])
    BY <1>1, <1>2
  <2> QED
    BY <2>1 DEF BuildsHold, ArmHolds, BuiltIn, BuildsOf
<1>3. ASSUME host'.pc \in {"warmup", "trial", "running", "loop"},
             \A arm \in Arms : BuiltIn(host'.st, arm, host'.st.session)
      PROVE  ArmsToBuild'
  BY <1>3 DEF ArmsToBuild, BuiltIn, BuildsOf
<1>4. ASSUME host'.pc \in {"idle", "evaluate", "decide", "finish"} PROVE ArmsToBuild'
  BY <1>4 DEF ArmsToBuild
<1>5. ASSUME host'.pc \in {"build", "building"},
             \/ /\ host'.todo = <<"baseline", "candidate">>
                /\ ~BuiltIn(host'.st, "baseline", host'.st.session)
                /\ ~BuiltIn(host'.st, "candidate", host'.st.session)
             \/ /\ host'.todo = <<"candidate">>
                /\ BuiltIn(host'.st, "baseline", host'.st.session)
                /\ ~BuiltIn(host'.st, "candidate", host'.st.session)
      PROVE  ArmsToBuild'
  BY <1>5 DEF ArmsToBuild, BuiltIn, BuildsOf
<1>6. CASE Idles
  <2>1. UNCHANGED disk /\ UNCHANGED host
    BY <1>6 DEF Idles
  <2>2. ArmsToBuild'
    BY <2>1 DEF ArmsToBuild, BuiltIn, BuildsOf
  <2> QED
    BY <1>2, <2>1, <2>2
<1>7. CASE Proceeds
  <2>1. FilesBuilds'
    BY <1>2, <1>7 DEF Proceeds
  <2>2. ArmsToBuild'
    <3>1. host'.st = host.st /\ host'.todo = host.todo
      BY <1>7 DEF Proceeds
    <3>2. \/ host.pc = "build" /\ host'.pc = "building"
          \/ host.pc \in {"warmup", "trial"} /\ host'.pc = "running"
          \/ host'.pc \in {"evaluate", "decide"}
      BY <1>7 DEF Proceeds, Moves
    <3> QED
      BY <1>3, <1>4, <1>5, <3>1, <3>2 DEF ArmsToBuild
  <2> QED
    BY <2>1, <2>2
<1>8. CASE Leaves
  BY <1>2, <1>4, <1>8 DEF Leaves
<1>9. CASE Fails \/ Decides
  <2>1. /\ host.pc \notin {"idle", "finish"} /\ host'.pc \in {"idle", "finish"}
        /\ \A c \in Dirs : c # host.dir => disk'[c] = disk[c]
        /\ SameMeasure(disk'[host.dir], host.st)
    BY <1>9 DEF Fails, Decides, GoesOn, Writes
  <2>2. BuildsHold(disk'[host.dir])
    BY <1>1, <2>1, InHand, SameBuilds
  <2> QED
    BY <1>2, <1>4, <2>1, <2>2
<1>10. ASSUME NEW d \in Dirs, Begins(d) PROVE BuildsInv'
  <2>1. CASE UNCHANGED disk /\ host'.pc = "finish"
    BY <1>2, <1>4, <2>1
  <2>2. CASE /\ GoesOn(d, "build", disk[d].elapsed)
             /\ SameMeasure(disk'[d], [disk[d] EXCEPT !.session = @ + 1])
    <3>1. /\ host'.pc = "build" /\ host'.st = disk'[d]
          /\ \A c \in Dirs : c # d => disk'[c] = disk[c]
          /\ host'.todo = <<"baseline", "candidate">>
      BY <1>10, <2>2 DEF Begins, GoesOn, Writes
    <3>2. BuildsHold(disk'[d]) /\ \A arm : ~BuiltIn(disk'[d], arm, disk'[d].session)
      BY <1>1, <2>2, NewSession DEF IInv, TypeOK
    <3> QED
      BY <1>2, <1>5, <3>1, <3>2
  <2> QED
    BY <1>10, <2>1, <2>2 DEF Begins
<1>11. CASE BuildsOne
  <2> DEFINE d == host.dir
             arm == Head(host.todo)
  <2>1. /\ host.pc = "building" /\ \A c \in Dirs : c # d => disk'[c] = disk[c]
        /\ host'.st = disk'[d]
    BY <1>11 DEF BuildsOne, GoesOn, Writes
  <2>2. /\ BuildsHold(host.st) /\ host.st \in States /\ host.todo \in Seq(Arms)
        /\ host.todo # <<>>
    BY <1>1, <2>1, InHand
  <2>3. PICK digest \in DigestsOf(host.st, arm) :
           /\ Rebuilt(host.st, arm, digest)
           /\ SameMeasure(disk'[d],
                [host.st EXCEPT !.builds = Append(@, [arm |-> arm, digest |-> digest,
                                                      session |-> host.st.session])])
    BY <1>11 DEF BuildsOne
  <2>4. /\ arm \in Arms /\ ~BuiltIn(host.st, arm, host.st.session)
        /\ \/ /\ arm = "baseline" /\ Tail(host.todo) = <<"candidate">>
              /\ ~BuiltIn(host.st, "candidate", host.st.session)
           \/ /\ arm = "candidate" /\ Tail(host.todo) = <<>>
              /\ BuiltIn(host.st, "baseline", host.st.session)
    <3>1. CASE /\ host.todo = <<"baseline", "candidate">>
               /\ ~BuiltIn(host.st, "baseline", host.st.session)
               /\ ~BuiltIn(host.st, "candidate", host.st.session)
      <4>1. arm = "baseline" /\ Tail(host.todo) = <<"candidate">>
        BY <3>1
      <4> QED
        BY <3>1, <4>1 DEF Arms
    <3>2. CASE /\ host.todo = <<"candidate">>
               /\ BuiltIn(host.st, "baseline", host.st.session)
               /\ ~BuiltIn(host.st, "candidate", host.st.session)
      <4>1. arm = "candidate" /\ Tail(host.todo) = <<>>
        BY <3>2
      <4> QED
        BY <3>2, <4>1 DEF Arms
    <3> QED
      BY <2>1, <3>1, <3>2 DEF ArmsToBuild
  <2> HIDE DEF arm
  <2>6. /\ BuildsHold(disk'[d]) /\ BuiltIn(disk'[d], arm, disk'[d].session)
        /\ \A a : a # arm => (BuiltIn(disk'[d], a, disk'[d].session)
                              <=> BuiltIn(host.st, a, host.st.session))
    BY <2>2, <2>3, <2>4, OneMoreBuild
  <2>7. CASE arm = "baseline"
    <3>1. host'.pc = "build" /\ host'.todo = <<"candidate">>
      <4>1. Tail(host.todo) = <<"candidate">> /\ Tail(host.todo) # <<>>
        <5>1. Tail(host.todo) = <<"candidate">>
          BY <2>4, <2>7
        <5>2. <<"candidate">> # <<>>
          OBVIOUS
        <5> QED
          BY <5>1, <5>2
      <4> QED
        BY <1>11, <4>1 DEF BuildsOne
    <3>2. BuiltIn(disk'[d], "baseline", disk'[d].session)
          /\ ~BuiltIn(disk'[d], "candidate", disk'[d].session)
      BY <2>4, <2>6, <2>7
    <3> QED
      BY <1>2, <1>5, <2>1, <2>6, <3>1, <3>2
  <2>8. CASE arm = "candidate"
    <3>1. host'.pc \in {"warmup", "loop", "evaluate"}
      BY <1>11, <2>4, <2>8 DEF BuildsOne
    <3>2. \A a \in Arms : BuiltIn(disk'[d], a, disk'[d].session)
      BY <2>4, <2>6, <2>8 DEF Arms
    <3> QED
      BY <1>2, <1>3, <1>4, <2>1, <2>6, <3>1, <3>2
  <2> QED
    BY <2>4, <2>7, <2>8
<1>12. CASE PairBegins
  <2>1. /\ host.pc = "loop" /\ \A c \in Dirs : c # host.dir => disk'[c] = disk[c]
        /\ SameMeasure(disk'[host.dir], host.st)
        /\ host'.pc = "trial" /\ host'.st = disk'[host.dir]
    BY <1>12 DEF PairBegins, GoesOn, Writes
  <2>2. BuildsHold(disk'[host.dir])
    BY <1>1, <2>1, InHand, SameBuilds
  <2>3. \A arm \in Arms : BuiltIn(host'.st, arm, host'.st.session)
    BY <2>1, SameBuilds DEF ArmsToBuild
  <2> QED
    BY <1>2, <1>3, <2>1, <2>2, <2>3
<1>13. CASE RunsOne
  <2>1. /\ host.pc = "running" /\ UNCHANGED disk /\ host'.st = host.st
        /\ host'.pc \in {"warmup", "trial"}
    BY <1>13 DEF RunsOne
  <2> QED
    BY <1>2, <1>3, <2>1 DEF ArmsToBuild
<1>14. CASE RunsLast
  <2> DEFINE d == host.dir
  <2>1. /\ host.pc = "running" /\ host'.pc = "loop" /\ host'.st = disk'[d]
        /\ \A c \in Dirs : c # d => disk'[c] = disk[c]
    BY <1>14 DEF RunsLast, GoesOn, Writes
  <2>2. /\ BuildsHold(host.st) /\ host.st \in States /\ host.ran \in [Arms -> Nat]
        /\ \A arm \in Arms : BuiltIn(host.st, arm, host.st.session)
    BY <1>1, <2>1, InHand DEF OutputsByArm, ArmsToBuild
  <2>3. BuildsHold(disk'[d]) /\ \A arm \in Arms : BuiltIn(disk'[d], arm, disk'[d].session)
    <3>1. CASE host.st.pending = 0
      <4>1. SameMeasure(disk'[d], host.st)
        BY <1>14, <3>1 DEF RunsLast
      <4> QED
        BY <2>2, <4>1, SameBuilds
    <3>2. CASE host.st.pending # 0
      <4>1. PICK output \in {1, 2} :
              SameMeasure(disk'[d],
                          PairCounted(host.st, [host.ran EXCEPT ![Head(host.todo)] = output]))
        BY <1>14, <3>2 DEF RunsLast
      <4> DEFINE ran == [host.ran EXCEPT ![Head(host.todo)] = output]
      <4>2. ran \in OutputsByArm
        <5>1. output \in Nat
          OBVIOUS
        <5> QED
          BY <2>2, <5>1 DEF OutputsByArm
      <4> HIDE DEF ran
      <4>3. LET s == PairCounted(host.st, ran) IN
            BuildsHold(s) /\ \A arm \in Arms : BuiltIn(s, arm, s.session)
        BY <2>2, <4>2, CountedBuilds
      <4>4. SameMeasure(disk'[d], PairCounted(host.st, ran))
        BY <4>1 DEF ran
      <4> QED
        BY <4>3, <4>4, SameBuilds
    <3> QED
      BY <3>1, <3>2
  <2> QED
    BY <1>2, <1>3, <2>1, <2>3
<1> QED
  BY <1>6, <1>7, <1>8, <1>9, <1>10, <1>11, <1>12, <1>13, <1>14 DEF Forms

-----------------------------------------------------------------------------
(* Time *)

RunsPlanned == IF host.st.pending = 0 THEN 2 * Warmup ELSE 2

(* The clock of a session is what its file has, but while it runs warmups or a
   pair: then it is ahead by the runs that are done. *)
ClockHolds ==
  /\ host.pc # "idle" => host.clock <= Budget
  /\ host.pc \notin {"idle", "warmup", "trial", "running"} => host.clock = disk[host.dir].elapsed
  /\ host.pc \in {"warmup", "trial", "running"} =>
       \E n \in Nat : /\ n + Len(host.todo) <= RunsPlanned
                     /\ host.clock <= disk[host.dir].elapsed + n * TrialLimit

(* The time of d that is journaled, or on the clock of its session. *)
Known(d) == IF host.pc # "idle" /\ host.dir = d THEN host.clock ELSE disk[d].elapsed

TimesHold ==
  \A d \in Dirs :
    /\ disk[d].elapsed <= Budget
    /\ spent[d] <= Known(d) + lost[d] * UncommittedTime

BudgetInv == Accounts /\ ClockHolds /\ TimesHold

LEMMA MoreTimes ==
    ASSUME NEW m \in Nat, NEW n \in Nat, NEW limit \in Nat, m <= n
    PROVE  m * limit <= n * limit /\ m * limit \in Nat /\ (m + 1) * limit = m * limit + limit
<1>1. PICK k \in Nat : n = m + k
  <2>1. n - m \in Nat /\ n = m + (n - m)
    OBVIOUS
  <2> QED
    BY <2>1
<1>2. (m + k) * limit = m * limit + k * limit /\ k * limit \in Nat /\ m * limit \in Nat
  OBVIOUS
<1>3. (m + 1) * limit = m * limit + limit
  OBVIOUS
<1> QED
  BY <1>1, <1>2, <1>3

LEMMA Uncommitted ==
    /\ UncommittedTime \in Nat /\ BuildLimit <= UncommittedTime
    /\ \A n \in Nat : n <= 2 * Warmup \/ n <= 2 => n * TrialLimit <= UncommittedTime
<1> DEFINE most == MaxOf(2 * Warmup, 2)
           runs == most * TrialLimit
<1>1. most \in Nat /\ 2 * Warmup <= most /\ 2 <= most
  BY ManifestAssumption DEF MaxOf
<1> HIDE DEF most
<1>2. runs \in Nat
  BY <1>1, ManifestAssumption, MoreTimes
<1>3. \A n \in Nat : n <= most => n * TrialLimit <= runs
  BY <1>1, ManifestAssumption, MoreTimes
<1>4. UncommittedTime = MaxOf(BuildLimit, runs)
  BY DEF UncommittedTime, most
<1> HIDE DEF runs
<1>5. UncommittedTime \in Nat /\ BuildLimit <= UncommittedTime /\ runs <= UncommittedTime
  BY <1>2, <1>4, ManifestAssumption DEF MaxOf
<1>6. ASSUME NEW n \in Nat, n <= 2 * Warmup \/ n <= 2
      PROVE  n * TrialLimit <= UncommittedTime
  <2>1. n <= most
    BY <1>1, <1>6, ManifestAssumption
  <2>2. n * TrialLimit <= runs /\ n * TrialLimit \in Nat
    BY <1>3, <2>1, ManifestAssumption, MoreTimes
  <2> QED
    BY <1>2, <1>5, <2>2
<1> QED
  BY <1>5, <1>6

(* What a session may lose: its clock, with the run in hand, is ahead of its
   file by the time that may be uncommitted at most. *)
LEMMA AtMostUncommitted ==
    ASSUME IInv, BudgetInv, host.pc # "idle", NEW t \in Nat,
           t <= IF host.pc = "running" THEN TrialLimit
                ELSE IF host.pc = "building" THEN BuildLimit ELSE 0
    PROVE  host.clock + t <= disk[host.dir].elapsed + UncommittedTime
<1> DEFINE before == disk[host.dir].elapsed
           u == UncommittedTime
<1>1. /\ host.dir \in Dirs /\ host.clock \in Nat /\ before \in Nat
      /\ host.todo \in Seq(Arms)
  BY DEF IInv, TypeOK, Hosts, States, ArmLists
<1>2. u \in Nat /\ BuildLimit <= u
  BY Uncommitted
<1> HIDE DEF u, before
<1>3. CASE host.pc \notin {"warmup", "trial", "running"}
  <2>1. host.clock = before
    BY <1>3 DEF BudgetInv, ClockHolds, before
  <2>2. t <= u
    BY <1>2, <1>3, ManifestAssumption
  <2> QED
    BY <1>1, <1>2, <2>1, <2>2 DEF u, before
<1>4. CASE host.pc \in {"warmup", "trial", "running"}
  <2>1. PICK n \in Nat : /\ n + Len(host.todo) <= RunsPlanned
                        /\ host.clock <= before + n * TrialLimit
    BY <1>4 DEF BudgetInv, ClockHolds, before
  <2>2. Len(host.todo) \in Nat /\ Len(host.todo) # 0
    BY <1>1, <1>4 DEF IInv, SessionHolds
  <2>3. n + 1 <= 2 * Warmup \/ n + 1 <= 2
    BY <2>1, <2>2, ManifestAssumption DEF RunsPlanned
  <2>4. (n + 1) * TrialLimit <= u
    BY <2>3, Uncommitted DEF u
  <2>5. (n + 1) * TrialLimit = n * TrialLimit + TrialLimit /\ n * TrialLimit \in Nat
    BY ManifestAssumption, MoreTimes
  <2>6. t <= TrialLimit
    BY <1>4, ManifestAssumption
  <2> DEFINE m == n * TrialLimit
  <2>7. host.clock <= before + m /\ m + TrialLimit <= u /\ m \in Nat
    BY <2>1, <2>4, <2>5
  <2> HIDE DEF m
  <2> QED
    BY <1>1, <1>2, <2>6, <2>7, ManifestAssumption DEF u, before
<1> QED
  BY <1>3, <1>4

(* The directories a step does not write, and the one it does. *)
LEMMA TimesStep ==
    ASSUME TimesHold, NEW d \in Dirs,
           \A c \in Dirs : c # d => /\ disk'[c] = disk[c]
                                    /\ spent'[c] = spent[c] /\ lost'[c] = lost[c],
           host.pc = "idle" \/ host.dir = d, host'.pc = "idle" \/ host'.dir = d,
           disk'[d].elapsed <= Budget,
           spent'[d] <= (IF host'.pc = "idle" THEN disk'[d].elapsed ELSE host'.clock)
                        + lost'[d] * UncommittedTime
    PROVE  TimesHold'
<1> SUFFICES ASSUME NEW c \in Dirs
             PROVE  /\ disk'[c].elapsed <= Budget
                    /\ spent'[c] <= (IF host'.pc # "idle" /\ host'.dir = c THEN host'.clock
                                     ELSE disk'[c].elapsed) + lost'[c] * UncommittedTime
  BY DEF TimesHold, Known, UncommittedTime, MaxOf
<1>1. CASE c = d
  <2>1. (IF host'.pc # "idle" /\ host'.dir = c THEN host'.clock ELSE disk'[c].elapsed)
        = (IF host'.pc = "idle" THEN disk'[d].elapsed ELSE host'.clock)
    BY <1>1
  <2> QED
    BY <1>1, <2>1
<1>2. CASE c # d
  <2>1. /\ disk[c].elapsed <= Budget
        /\ spent[c] <= disk[c].elapsed + lost[c] * UncommittedTime
    BY <1>2 DEF TimesHold, Known
  <2>2. disk'[c] = disk[c] /\ spent'[c] = spent[c] /\ lost'[c] = lost[c]
        /\ ~(host'.pc # "idle" /\ host'.dir = c)
    BY <1>2
  <2> QED
    BY <2>1, <2>2
<1> QED
  BY <1>1, <1>2

LEMMA BudgetStep == IInv /\ IInv' /\ BudgetInv /\ Forms => BudgetInv'
<1> SUFFICES ASSUME IInv, IInv', BudgetInv, Forms PROVE BudgetInv'
  OBVIOUS
<1> DEFINE d == host.dir
           u == UncommittedTime
<1>1. /\ spent \in [Dirs -> Nat] /\ lost \in [Dirs -> Nat] /\ u \in Nat
      /\ \A c \in Dirs : disk[c].elapsed \in Nat
  BY Uncommitted DEF BudgetInv, Accounts, IInv, TypeOK, States
<1>2. host.pc # "idle" =>
        /\ d \in Dirs /\ host.clock \in Nat /\ host.clock <= Budget
        /\ spent[d] <= host.clock + lost[d] * u
        /\ spent[d] \in Nat /\ lost[d] * u \in Nat /\ (lost[d] + 1) * u = lost[d] * u + u
        /\ disk[d].elapsed \in Nat /\ disk[d].elapsed <= Budget
  <2> SUFFICES ASSUME host.pc # "idle"
               PROVE  /\ d \in Dirs /\ host.clock \in Nat /\ host.clock <= Budget
                      /\ spent[d] <= host.clock + lost[d] * u
                      /\ spent[d] \in Nat /\ lost[d] * u \in Nat
                      /\ (lost[d] + 1) * u = lost[d] * u + u
                      /\ disk[d].elapsed \in Nat /\ disk[d].elapsed <= Budget
    OBVIOUS
  <2>1. d \in Dirs /\ host.clock \in Nat
    BY DEF IInv, TypeOK, Hosts
  <2>2. spent[d] \in Nat /\ lost[d] \in Nat
    BY <1>1, <2>1
  <2>3. lost[d] * u \in Nat /\ (lost[d] + 1) * u = lost[d] * u + u
    BY <1>1, <2>2, MoreTimes
  <2>4. spent[d] <= host.clock + lost[d] * u /\ disk[d].elapsed <= Budget
    BY <2>1 DEF BudgetInv, TimesHold, Known
  <2> QED
    BY <1>1, <2>1, <2>2, <2>3, <2>4 DEF BudgetInv, ClockHolds
<1> HIDE DEF u
<1>3. ASSUME NEW t \in Nat, Costs(t, 0), host.pc # "idle",
             \A c \in Dirs : c # d => disk'[c] = disk[c],
             host'.pc = "idle" \/ host'.dir = d,
             disk'[d].elapsed \in Nat, disk'[d].elapsed <= Budget,
             host.clock + t <= IF host'.pc = "idle" THEN disk'[d].elapsed ELSE host'.clock,
             host'.pc # "idle" => host'.clock \in Nat
      PROVE  Accounts' /\ TimesHold'
  <2> DEFINE now == IF host'.pc = "idle" THEN disk'[d].elapsed ELSE host'.clock
  <2>1. /\ spent'[d] = spent[d] + t /\ lost'[d] = lost[d] /\ Accounts'
        /\ \A c \in Dirs : c # d => spent'[c] = spent[c] /\ lost'[c] = lost[c]
    BY <1>1, <1>2, <1>3 DEF Costs
  <2>2. now \in Nat /\ host.clock + t <= now
    BY <1>3
  <2> HIDE DEF now
  <2> DEFINE w == lost[d] * u
  <2>3. w \in Nat /\ spent[d] <= host.clock + w /\ host.clock \in Nat /\ spent[d] \in Nat
    BY <1>2, <1>3
  <2> HIDE DEF w
  <2>4. spent[d] + t <= now + w
    BY <1>3, <2>2, <2>3
  <2>5. spent'[d] <= now + lost'[d] * UncommittedTime
    BY <2>1, <2>4 DEF w, u
  <2> HIDE DEF d
  <2> QED
    BY <1>2, <1>3, <2>1, <2>5, TimesStep DEF now, BudgetInv, d
<1>4. CASE Idles
  BY <1>4 DEF Idles, BudgetInv, Accounts, ClockHolds, RunsPlanned, TimesHold, Known
<1>5. CASE Proceeds
  <2>1. /\ UNCHANGED <<disk, spent, lost>> /\ host'.dir = d /\ host'.st = host.st
        /\ host'.clock = host.clock /\ host'.todo = host.todo
        /\ <<host.pc, host'.pc>> \in Moves
    BY <1>5 DEF Proceeds
  <2>2. \/ host.pc \in {"build", "loop", "evaluate"}
           /\ host'.pc \in {"building", "evaluate", "decide"}
        \/ host.pc \in {"warmup", "trial"} /\ host'.pc = "running"
    BY <2>1 DEF Moves
  <2>3. Accounts' /\ TimesHold'
    BY <2>1, <2>2 DEF BudgetInv, Accounts, TimesHold, Known, UncommittedTime, MaxOf
  <2>4. ClockHolds'
    BY <2>1, <2>2 DEF BudgetInv, ClockHolds, RunsPlanned
  <2> QED
    BY <2>3, <2>4 DEF BudgetInv
<1>6. CASE Leaves
  <2>1. host.pc # "idle" /\ host'.pc = "idle" /\ UNCHANGED disk
    BY <1>6 DEF Leaves
  <2>2. ClockHolds'
    BY <2>1 DEF ClockHolds
  <2>3. CASE host.pc \in {"loop", "decide", "finish"} /\ Costs(0, 0)
    <3>1. host.clock = disk[d].elapsed
      BY <2>3 DEF BudgetInv, ClockHolds
    <3> QED
      BY <1>2, <1>3, <2>1, <2>2, <2>3, <3>1 DEF BudgetInv
  <2>4. ASSUME NEW t \in Nat, Costs(t, 1),
               t <= IF host.pc = "running" THEN TrialLimit
                    ELSE IF host.pc = "building" THEN BuildLimit ELSE 0
        PROVE  BudgetInv'
    <3>1. host.clock + t <= disk[d].elapsed + u
      BY <2>1, <2>4, AtMostUncommitted DEF u
    <3>2. /\ spent'[d] = spent[d] + t /\ lost'[d] = lost[d] + 1 /\ Accounts'
          /\ \A c \in Dirs : c # d => spent'[c] = spent[c] /\ lost'[c] = lost[c]
      BY <2>4 DEF Costs
    <3> DEFINE w == lost[d] * u
               before == disk[d].elapsed
    <3>3. /\ w \in Nat /\ spent[d] <= host.clock + w /\ host.clock \in Nat
          /\ spent[d] \in Nat /\ before \in Nat /\ lost'[d] * u = w + u
      BY <1>2, <2>1, <3>2
    <3>4. host.clock + t <= before + u
      BY <3>1
    <3> HIDE DEF w, before
    <3>5. spent[d] + t <= before + (w + u)
      BY <1>1, <3>3, <3>4
    <3>6. spent'[d] <= disk'[d].elapsed + lost'[d] * UncommittedTime
      BY <2>1, <3>2, <3>3, <3>5 DEF before, u
    <3>7. d \in Dirs /\ disk'[d].elapsed <= Budget
      BY <1>2, <2>1
    <3> HIDE DEF d
    <3>8. TimesHold'
      BY <2>1, <3>2, <3>6, <3>7, TimesStep DEF BudgetInv, d
    <3> QED
      BY <2>2, <3>2, <3>8 DEF BudgetInv
  <2> QED
    BY <1>6, <2>3, <2>4 DEF Leaves
<1>7. CASE Fails
  <2>1. PICK t : /\ Allowed(t, BuildLimit + TrialLimit)
                 /\ Costs(t, 0) /\ Writes(d, host.clock + t)
    BY <1>7 DEF Fails
  <2>2. host.pc # "idle" /\ host'.pc = "idle"
    BY <1>7 DEF Fails
  <2>3. /\ t \in Nat /\ host.clock + t <= Budget /\ host.clock + t \in Nat
        /\ disk'[d].elapsed = host.clock + t
        /\ \A c \in Dirs : c # d => disk'[c] = disk[c]
    BY <1>2, <2>1, <2>2 DEF Allowed, Writes
  <2>4. Accounts' /\ TimesHold'
    BY <1>3, <2>1, <2>2, <2>3
  <2> QED
    BY <2>2, <2>4 DEF BudgetInv, ClockHolds
<1>8. ASSUME NEW c \in Dirs, Begins(c) PROVE BudgetInv'
  <2>1. /\ host.pc = "idle" /\ UNCHANGED <<spent, lost>>
        /\ host'.pc \in {"build", "finish"} /\ host'.dir = c
        /\ host'.clock = disk[c].elapsed /\ disk'[c].elapsed = disk[c].elapsed
        /\ \A e \in Dirs : e # c => disk'[e] = disk[e]
    BY <1>8 DEF Begins, GoesOn, Writes
  <2>2. disk[c].elapsed <= Budget /\ spent[c] <= disk[c].elapsed + lost[c] * UncommittedTime
    BY <2>1 DEF BudgetInv, TimesHold, Known
  <2>3. TimesHold'
    BY <2>1, <2>2, TimesStep DEF BudgetInv
  <2>4. ClockHolds'
    BY <2>1, <2>2 DEF ClockHolds
  <2> QED
    BY <2>1, <2>3, <2>4 DEF BudgetInv, Accounts
<1>9. ASSUME host.pc # "idle", NEW t, NEW most, Allowed(t, most), Costs(t, 0),
             GoesOn(d, host'.pc, host.clock + t), host'.pc # "idle",
             host'.pc \in {"warmup", "trial", "running"} =>
               Len(host'.todo) <= IF host'.st.pending = 0 THEN 2 * Warmup ELSE 2,
             Len(host'.todo) \in Nat
      PROVE  BudgetInv'
  <2>1. /\ t \in Nat /\ host.clock + t <= Budget /\ host.clock + t \in Nat
        /\ disk'[d].elapsed = host.clock + t /\ host'.clock = host.clock + t
        /\ host'.dir = d
        /\ \A c \in Dirs : c # d => disk'[c] = disk[c]
    BY <1>2, <1>9 DEF Allowed, GoesOn, Writes
  <2>2. Accounts' /\ TimesHold'
    BY <1>3, <1>9, <2>1
  <2>3. ClockHolds'
    <3>1. 0 + Len(host'.todo) = Len(host'.todo) /\ 0 * TrialLimit = 0
      BY <1>9, ManifestAssumption
    <3>2. host'.clock <= disk'[host'.dir].elapsed + 0 * TrialLimit
      BY <2>1, <3>1
    <3> QED
      BY <1>9, <2>1, <3>1, <3>2 DEF ClockHolds, RunsPlanned
  <2> QED
    BY <2>2, <2>3 DEF BudgetInv
<1>10. Len(host'.todo) \in Nat
  BY DEF IInv, TypeOK, Hosts, ArmLists
<1>11. CASE BuildsOne
  <2>1. PICK t : /\ Allowed(t, BuildLimit) /\ Costs(t, 0)
                 /\ GoesOn(d, host'.pc, host.clock + t)
    BY <1>11 DEF BuildsOne
  <2>2. /\ host.pc = "building" /\ host'.pc \in {"build", "warmup", "loop", "evaluate"}
        /\ host'.pc = "warmup" => host'.st.pending = 0 /\ Len(host'.todo) = 2 * Warmup
    BY <1>11 DEF BuildsOne
  <2>3. host'.pc \in {"warmup", "trial", "running"} =>
          Len(host'.todo) <= IF host'.st.pending = 0 THEN 2 * Warmup ELSE 2
    BY <2>2, <1>10
  <2> QED
    BY <1>9, <1>10, <2>1, <2>2, <2>3
<1>12. CASE PairBegins
  <2>1. /\ host.pc = "loop" /\ Costs(0, 0) /\ host'.st.pending # 0 /\ Len(host'.todo) = 2
        /\ GoesOn(d, "trial", host.clock)
    BY <1>12 DEF PairBegins
  <2>2. host.clock = host.clock + 0 /\ host'.pc = "trial" /\ Allowed(0, 0)
    BY <1>2, <2>1 DEF GoesOn, Allowed
  <2>3. GoesOn(d, host'.pc, host.clock + 0)
    BY <2>1, <2>2
  <2> QED
    BY <1>9, <1>10, <2>1, <2>2, <2>3
<1>13. CASE Decides
  <2>1. host.pc = "decide" /\ Costs(0, 0) /\ GoesOn(d, "finish", host.clock)
    BY <1>13 DEF Decides
  <2>2. host.clock = host.clock + 0 /\ host'.pc = "finish" /\ Allowed(0, 0)
    BY <1>2, <2>1 DEF GoesOn, Allowed
  <2>3. GoesOn(d, host'.pc, host.clock + 0)
    BY <2>1, <2>2
  <2> QED
    BY <1>9, <1>10, <2>1, <2>2, <2>3
<1>14. CASE RunsLast
  <2>1. PICK t : Allowed(t, TrialLimit) /\ Costs(t, 0) /\ GoesOn(d, "loop", host.clock + t)
    BY <1>14 DEF RunsLast
  <2>2. host.pc = "running" /\ host'.pc = "loop"
    BY <1>14, <2>1 DEF RunsLast, GoesOn
  <2> QED
    BY <1>9, <1>10, <2>1, <2>2
<1>15. CASE RunsOne
  <2>1. /\ host.pc = "running" /\ UNCHANGED disk /\ host'.pc \in {"warmup", "trial"}
        /\ host'.dir = d /\ host'.st = host.st /\ host'.todo = Tail(host.todo)
    BY <1>15 DEF RunsOne
  <2>2. PICK t : Allowed(t, TrialLimit) /\ Costs(t, 0) /\ host'.clock = host.clock + t
    BY <1>15 DEF RunsOne
  <2>3. /\ t \in Nat /\ t <= TrialLimit /\ host.clock + t <= Budget
        /\ host.clock + t \in Nat
    BY <1>2, <2>1, <2>2 DEF Allowed
  <2>4. Accounts' /\ TimesHold'
    <3>1. /\ host'.pc # "idle" /\ disk'[d].elapsed \in Nat /\ disk'[d].elapsed <= Budget
          /\ host.clock + t <= host'.clock /\ host'.clock \in Nat
          /\ \A c \in Dirs : c # d => disk'[c] = disk[c]
      BY <1>2, <2>1, <2>2, <2>3
    <3> QED
      BY <1>3, <2>1, <2>2, <2>3, <3>1
  <2>5. PICK n \in Nat : /\ n + Len(host.todo) <= RunsPlanned
                        /\ host.clock <= disk[d].elapsed + n * TrialLimit
    BY <2>1 DEF BudgetInv, ClockHolds
  <2>6. Len(host'.todo) = Len(host.todo) - 1 /\ Len(host.todo) \in Nat
    <3>1. host.todo \in Seq(Arms) /\ host.todo # <<>>
      BY <2>1, InHand
    <3> QED
      BY <2>1, <3>1
  <2>7. (n + 1) + Len(host'.todo) <= RunsPlanned'
    <3>1. RunsPlanned' = RunsPlanned /\ RunsPlanned \in Nat
      BY <2>1, ManifestAssumption DEF RunsPlanned
    <3> DEFINE k == Len(host.todo)
               l == Len(host'.todo)
               runs == RunsPlanned
    <3>2. n + k <= runs /\ l = k - 1 /\ k \in Nat /\ runs \in Nat
      BY <2>5, <2>6, <3>1
    <3> HIDE DEF k, l, runs
    <3>3. (n + 1) + l <= runs
      BY <3>2
    <3> QED
      BY <3>1, <3>3 DEF l, runs
  <2>8. host'.clock <= disk'[host'.dir].elapsed + (n + 1) * TrialLimit
    <3> DEFINE m == n * TrialLimit
               before == disk[d].elapsed
    <3>1. (n + 1) * TrialLimit = m + TrialLimit /\ m \in Nat
      BY ManifestAssumption, MoreTimes
    <3>2. host.clock <= before + m /\ before \in Nat /\ host.clock \in Nat
      BY <1>2, <2>1, <2>5
    <3> HIDE DEF m, before
    <3>3. host.clock + t <= before + (m + TrialLimit)
      BY <2>3, <3>1, <3>2, ManifestAssumption
    <3> QED
      BY <2>1, <2>2, <3>1, <3>3 DEF before
  <2>9. ClockHolds'
    <3>1. n + 1 \in Nat
      OBVIOUS
    <3> QED
      BY <2>1, <2>2, <2>3, <2>7, <2>8, <3>1 DEF ClockHolds
  <2> QED
    BY <2>4, <2>9 DEF BudgetInv
<1> QED
  BY <1>4, <1>5, <1>6, <1>7, <1>8, <1>11, <1>12, <1>13, <1>14, <1>15 DEF Forms

LEMMA InitMeasured == Init => OutputsInv /\ BuildsInv /\ BudgetInv
<1> SUFFICES ASSUME Init PROVE OutputsInv /\ BuildsInv /\ BudgetInv
  OBVIOUS
<1>1. /\ disk = [d \in Dirs |-> Fresh] /\ host.pc = "idle"
      /\ spent = [d \in Dirs |-> 0] /\ lost = [d \in Dirs |-> 0]
  BY NoSessionType DEF Init
<1>2. /\ Fresh.pairs = <<>> /\ Fresh.builds = <<>> /\ Fresh.stable = TRUE
      /\ Fresh.elapsed = 0 /\ Fresh.outs = [a \in Arms |-> 0]
  BY DEF Fresh
<1>3. Len(Fresh.pairs) = 0 /\ Len(Fresh.builds) = 0
  BY <1>2
<1>4. OutputsHold(Fresh)
  BY <1>2, <1>3 DEF OutputsHold
<1>5. BuildsHold(Fresh)
  BY <1>3 DEF BuildsHold, ArmHolds, BuildsOf
<1>6. \A d \in Dirs : disk[d] = Fresh
  BY <1>1
<1>7. OutputsInv
  BY <1>1, <1>4, <1>6 DEF OutputsInv, FilesOutputs, ArmsToRun
<1>8. BuildsInv
  BY <1>1, <1>5, <1>6 DEF BuildsInv, FilesBuilds, ArmsToBuild
<1>9. Accounts /\ ClockHolds
  BY <1>1 DEF Accounts, ClockHolds
<1>10. TimesHold
  <2> SUFFICES ASSUME NEW d \in Dirs
               PROVE  /\ disk[d].elapsed <= Budget
                      /\ spent[d] <= Known(d) + lost[d] * UncommittedTime
    BY DEF TimesHold
  <2>1. disk[d].elapsed = 0 /\ spent[d] = 0 /\ lost[d] = 0 /\ Known(d) = 0
    BY <1>1, <1>2, <1>6 DEF Known
  <2>2. 0 * UncommittedTime = 0
    BY Uncommitted
  <2> QED
    BY <2>1, <2>2, ManifestAssumption
<1> QED
  BY <1>7, <1>8, <1>9, <1>10 DEF BudgetInv

(* The measurements and the clock keep to their invariants. *)
THEOREM MeasuredInvariant == Spec => [](OutputsInv /\ BuildsInv /\ BudgetInv)
<1>1. /\ IInv /\ OutputsInv /\ BuildsInv /\ BudgetInv /\ [Next]_evars
      => (OutputsInv /\ BuildsInv /\ BudgetInv)'
  BY NextStep, StepForms, OutputsStep, BuildsStep, BudgetStep DEF StepHolds, BudgetInv
<1> QED
  BY Invariant, InitMeasured, <1>1, PTL DEF Spec

(* Every counted pair was measured in a session that built both arms, and every
   build of an arm has the digest of its first, whatever sessions were killed,
   cancelled or refused between them (build). *)
THEOREM BinariesKept == Spec => []OneBinaryPerArm
<1>1. BuildsInv => OneBinaryPerArm
  BY DEF BuildsInv, FilesBuilds, BuildsHold, ArmHolds, BuiltIn, OneBinaryPerArm
<1> QED
  BY MeasuredInvariant, <1>1, PTL

(* The recorded outputs and their stability are those of the counted pairs and
   of nothing else (observe, drive). *)
THEOREM OutputsKept == Spec => []OutputsOfCountedPairs
<1>1. IInv /\ OutputsInv => OutputsOfCountedPairs
  <2> SUFFICES ASSUME IInv, OutputsInv, NEW d \in Dirs, NEW arm \in Arms
               PROVE  LET st == disk[d] IN
                 /\ st.outs[arm] = IF st.pairs = <<>> THEN 0 ELSE st.pairs[1].ran[arm]
                 /\ st.stable => \A p \in 1..Len(st.pairs) : st.pairs[p].ran[arm] = st.outs[arm]
                 /\ (\A a \in Arms, p \in 1..Len(st.pairs) : st.pairs[p].ran[a] = st.outs[a])
                      => st.stable
    BY DEF OutputsOfCountedPairs
  <2>1. OutputsHold(disk[d])
    BY DEF OutputsInv, FilesOutputs
  <2>2. disk[d].pairs = <<>> <=> Len(disk[d].pairs) = 0
    BY DEF IInv, TypeOK, States, PairLists
  <2> QED
    BY <2>1, <2>2 DEF OutputsHold
<1> QED
  BY Invariant, MeasuredInvariant, <1>1, PTL

(* All sessions together stay within the experiment's budget, but for what a
   kill or a refused rebuild loses: one session's uncommitted time each
   (remaining, commit). *)
THEOREM BudgetIsKept == Spec => []BudgetKept
<1>1. IInv /\ BudgetInv => BudgetKept
  <2> SUFFICES ASSUME IInv, BudgetInv, NEW d \in Dirs
               PROVE  spent[d] <= Budget + lost[d] * UncommittedTime
    BY DEF BudgetKept
  <2> DEFINE w == lost[d] * UncommittedTime
  <2>1. spent[d] \in Nat /\ lost[d] \in Nat
    BY DEF BudgetInv, Accounts
  <2>2. w \in Nat
    BY <2>1, Uncommitted, MoreTimes
  <2>3. Known(d) \in Nat /\ Known(d) <= Budget
    BY DEF BudgetInv, ClockHolds, TimesHold, Known, IInv, TypeOK, States, Hosts
  <2>4. spent[d] <= Known(d) + w
    BY DEF BudgetInv, TimesHold
  <2> HIDE DEF w
  <2>5. spent[d] <= Budget + w
    BY <2>1, <2>2, <2>3, <2>4, ManifestAssumption
  <2> QED
    BY <2>5 DEF w
<1> QED
  BY Invariant, MeasuredInvariant, <1>1, PTL
=============================================================================
