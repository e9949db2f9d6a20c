----------------------------- MODULE Experiment -----------------------------
(***************************************************************************)
(* The experiment host, src/crates/emath-tui/src/experiment/mod.rs: builds *)
(* a baseline and a candidate, runs them in pairs, checkpoints after each  *)
(* step, and hands what it measured to an authored evaluator, once, under  *)
(* an audit ledger shared by every experiment.  A session is one call of   *)
(* ExperimentHost::run on a state directory; it may be cancelled, stopped, *)
(* fail or be killed anywhere, and a later session resumes from the        *)
(* checkpoint.  One host runs at a time, as the contract asks.             *)
(*                                                                         *)
(* Left out: wall times and warmup rows (recorded and never read by the    *)
(* host), details of failures, collisions of audit ids, a workload that    *)
(* changes after admission, and evaluators that do not declare audit_id.   *)
(***************************************************************************)
EXTENDS BoundedRun, Sequences, FiniteSets

CONSTANTS Dirs,         \* state directories
          Identity,     \* Identity[d]: the experiment d's manifest admits to
          WorkloadOf,   \* WorkloadOf[e]: the audit id of e's workload
          Pairs, Warmup, CandidateFirst, BuildLimit, TrialLimit, Budget,
          MaxStarts, MaxKills, \* bounds: sessions, kills
          Polled        \* bound: sessions whose runs are followed poll by poll;
                        \* in later ones a run ends at once, in any way it may

ASSUME ManifestAssumption ==
  /\ Pairs \in Nat /\ Warmup \in Nat /\ CandidateFirst \subseteq 1..Pairs
  /\ BuildLimit \in Nat \ {0} /\ TrialLimit \in Nat \ {0} /\ Budget \in Nat
  /\ MaxStarts \in Nat /\ MaxKills \in Nat /\ Polled \in Nat

VARIABLES disk,      \* disk[d]: the checkpoint file, or Fresh
          ledger,    \* the audit ledger, a sequence of rows
          host,      \* the session in progress
          starts, kills,
          launched,  \* history: pairs journaled as pending, per directory
          spent,     \* history: time spent in builds and trials, per directory
          lost       \* history: sessions that ended with time not committed

evars == <<cancel, child, disk, ledger, host, starts, kills, launched, spent, lost>>

Arms == {"baseline", "candidate"}

(* ExperimentState, with the pair index from 1 and 0 for none.  A pair row
   keeps the outputs of its two runs; they are not part of the file, and the
   host does not read them again. *)
Fresh ==
  [session |-> 0, pending |-> 0, elapsed |-> 0, pairs |-> <<>>, attempts |-> <<>>,
   builds |-> <<>>, outs |-> [a \in Arms |-> 0], stable |-> TRUE,
   failure |-> "none", decision |-> "none"]

(* pc is where run is, st the session's state, clock elapsed(), ran the
   outputs of the pair's arms (0 for none yet), todo the arms still to run,
   and outlook how the audit looked to the evaluator. *)
NoSession == [pc |-> "idle", dir |-> CHOOSE d \in Dirs : TRUE, st |-> Fresh,
              clock |-> 0, todo |-> <<>>, ran |-> [a \in Arms |-> 0], outlook |-> "none"]

Experiments == {Identity[d] : d \in Dirs}
Row(e, state) == [audit |-> WorkloadOf[e], experiment |-> e, state |-> state]

Init ==
  /\ cancel = FALSE /\ child = NoChild
  /\ disk = [d \in Dirs |-> Fresh]
  /\ ledger = <<>>
  /\ host = NoSession
  /\ starts = 0 /\ kills = 0
  /\ launched = [d \in Dirs |-> 0]
  /\ spent = [d \in Dirs |-> 0]
  /\ lost = [d \in Dirs |-> 0]

-----------------------------------------------------------------------------
(* The checkpoint: commit records the clock and replaces the file. *)
Commit(h) ==
  LET st == [h.st EXCEPT !.elapsed = h.clock] IN
    /\ disk' = [disk EXCEPT ![h.dir] = st]
    /\ host' = [h EXCEPT !.st = st]

Return == /\ host' = NoSession /\ child' = NoChild

(* Mutant: time not committed yet is not counted. *)
RemainingCommitted(h) == IF h.st.elapsed < Budget THEN Budget - h.st.elapsed ELSE 0

Remaining(h) == IF h.clock < Budget THEN Budget - h.clock ELSE 0
Least(m, n) == IF m < n THEN m ELSE n

(* Mutant: the attempt is forgotten. *)
RetiredQuietly(st, status) == [st EXCEPT !.pending = 0]

(* A pair that was launched and will not be counted. *)
Retired(st, status) ==
  IF st.pending = 0 THEN st
  ELSE [st EXCEPT !.pending = 0,
                  !.attempts = Append(@, [index |-> st.pending, session |-> st.session,
                                          status |-> status])]

(* fail: the failure is journaled with the attempt it ends, and is final. *)
Fail(h, kind) ==
  /\ disk' = [disk EXCEPT ![h.dir] =
                [Retired(h.st, kind) EXCEPT !.failure = kind, !.elapsed = h.clock]]
  /\ Return
  /\ UNCHANGED <<cancel, ledger, starts, kills, launched, lost>>

(* A success takes one unit of time; a timeout all that was allowed. *)
Took(limit) == IF child.outcome = "timeout" THEN limit ELSE Least(1, limit)
Elapse(h, t) == [h EXCEPT !.clock = @ + t]
Spend(t) == spent' = [spent EXCEPT ![host.dir] = @ + t]

-----------------------------------------------------------------------------
(* Mutant: a directory is started again whatever its verdict. *)
StartAnew(d) ==
  /\ host.pc = "idle" /\ starts < MaxStarts
  /\ starts' = starts + 1 /\ cancel' = FALSE /\ child' = NoChild
  /\ LET st == Retired([disk[d] EXCEPT !.session = @ + 1], "uncertain") IN
       Commit([NoSession EXCEPT !.dir = d, !.st = st, !.clock = st.elapsed, !.pc = "build",
                                !.todo = <<"baseline", "candidate">>])
  /\ UNCHANGED <<ledger, kills, launched, spent, lost>>

(* A session begins.  A pair found pending is retained as uncertain; a
   decision is read back and only the ledger is finished; a failure is
   reported again, which changes nothing. *)
Start(d) ==
  /\ host.pc = "idle" /\ starts < MaxStarts
  /\ disk[d].failure = "none"
  /\ starts' = starts + 1 /\ cancel' = FALSE /\ child' = NoChild
  /\ LET st == Retired([disk[d] EXCEPT !.session = @ + 1], "uncertain")
         h == [NoSession EXCEPT !.dir = d, !.st = st, !.clock = st.elapsed,
                                !.todo = <<"baseline", "candidate">>] IN
       IF st.decision # "none"
       THEN host' = [h EXCEPT !.pc = "finish"] /\ UNCHANGED disk
       ELSE Commit([h EXCEPT !.pc = "build"])
  /\ UNCHANGED <<ledger, kills, launched, spent, lost>>

(* How a run that is not followed may end. *)
Endings(kind) ==
  IF kind = "build" THEN {"ok", "bad", "timeout"}
  ELSE IF cancel THEN {"cancelled"} ELSE {"ok", "bad", "timeout", "overflow"}
Ended(kind, outcome) == [NoChild EXCEPT !.kind = kind, !.waited = TRUE, !.outcome = outcome]

Launch(kind, pc) ==
  /\ child' \in {Unstarted(kind)} \cup
                (IF starts <= Polled THEN {Spawned(kind)}
                 ELSE {Ended(kind, outcome) : outcome \in Endings(kind)})
  /\ host' = [host EXCEPT !.pc = pc]
  /\ UNCHANGED <<cancel, disk, ledger, starts, kills, launched, spent, lost>>

LaunchBuild == host.pc = "build" /\ Launch("build", "building")

(* The rows of an arm's builds.  Digests are compared within an arm only, so
   1 stands for what the first build produced and 2 for anything else. *)
BuildsOf(st, arm) == {i \in 1..Len(st.builds) : st.builds[i].arm = arm}
DigestsOf(st, arm) == IF BuildsOf(st, arm) = {} THEN {1} ELSE {1, 2}

(* Mutant: a rebuild is not compared. *)
RebuiltAnyhow(st, arm, digest) == TRUE

Rebuilt(st, arm, digest) ==
  \A i \in BuildsOf(st, arm) :
    (\A j \in BuildsOf(st, arm) : i <= j) => st.builds[i].digest = digest

(* Both arms built: warmups and pairs, if any are missing. *)
AfterBuilds(st) == IF Len(st.pairs) >= Pairs THEN "evaluate"
                   ELSE IF Warmup > 0 THEN "warmup" ELSE "loop"
WarmupArms == [i \in 1..2 * Warmup |-> IF i % 2 = 1 THEN "baseline" ELSE "candidate"]

BuildDone ==
  /\ host.pc = "building" /\ child.outcome # "none"
  /\ LET limit == Least(BuildLimit, Remaining(host))
         arm == Head(host.todo)
         h == Elapse(host, Took(limit)) IN
       /\ Spend(Took(limit))
       /\ \/ /\ child.outcome = "timeout"
             /\ Fail(h, IF limit < BuildLimit THEN "experiment_budget" ELSE "build_timeout")
          \/ /\ child.outcome \in {"bad", "unstarted"}
             /\ Fail(h, "build_failed")
          \/ /\ child.outcome = "ok"
             /\ \E digest \in DigestsOf(host.st, arm) :
                  IF Rebuilt(host.st, arm, digest)
                  THEN LET st == [h.st EXCEPT !.builds =
                                    Append(@, [arm |-> arm, digest |-> digest,
                                               session |-> h.st.session])]
                           rest == Tail(host.todo)
                           next == IF rest # <<>> THEN "build" ELSE AfterBuilds(st) IN
                         /\ Commit([h EXCEPT !.st = st, !.pc = next,
                                             !.todo = IF next = "warmup" THEN WarmupArms ELSE rest])
                         /\ child' = NoChild
                         /\ UNCHANGED <<cancel, ledger, starts, kills, launched, lost>>
                  ELSE /\ Return   \* experiment_artifact, which is not journaled
                       /\ lost' = [lost EXCEPT ![host.dir] = @ + 1]
                       /\ UNCHANGED <<cancel, disk, ledger, starts, kills, launched>>

-----------------------------------------------------------------------------
(* Trials: warmups first, then pairs in their seeded order. *)
LaunchTrial ==
  /\ host.pc \in {"warmup", "trial"} /\ Remaining(host) > 0
  /\ Launch("trial", "running")

NoBudgetLeft ==
  /\ host.pc \in {"warmup", "trial"} /\ Remaining(host) = 0
  /\ Fail(host, "experiment_budget")
  /\ UNCHANGED spent

Stop ==
  /\ host.pc = "loop" /\ Len(host.st.pairs) < Pairs
  /\ Return
  /\ UNCHANGED <<cancel, disk, ledger, starts, kills, launched, spent, lost>>

CancelledBetween ==
  /\ host.pc = "loop" /\ Len(host.st.pairs) < Pairs /\ cancel
  /\ Return
  /\ UNCHANGED <<cancel, disk, ledger, starts, kills, launched, spent, lost>>

(* The pair is journaled as pending before either arm runs. *)
BeginPair ==
  /\ host.pc = "loop" /\ Len(host.st.pairs) < Pairs /\ ~cancel
  /\ LET index == Len(host.st.pairs) + 1
         order == IF index \in CandidateFirst THEN <<"candidate", "baseline">>
                  ELSE <<"baseline", "candidate">> IN
       Commit([host EXCEPT !.pc = "trial", !.st.pending = index, !.todo = order,
                           !.ran = [a \in Arms |-> 0]])
  /\ launched' = [launched EXCEPT ![host.dir] = @ + 1]
  /\ UNCHANGED <<cancel, child, ledger, starts, kills, spent, lost>>

AllMeasured ==
  /\ host.pc = "loop" /\ Len(host.st.pairs) = Pairs
  /\ host' = [host EXCEPT !.pc = "evaluate"]
  /\ UNCHANGED <<cancel, child, disk, ledger, starts, kills, launched, spent, lost>>

(* observe: the first outputs of an arm are kept, a run that differs from
   them makes the arm unstable. *)
Observed(st, ran) ==
  [st EXCEPT !.outs = [a \in Arms |-> IF st.outs[a] = 0 THEN ran[a] ELSE st.outs[a]],
             !.stable = @ /\ \A a \in Arms : st.outs[a] \in {0, ran[a]}]

(* A pair is counted when both arms have run: its row, its outputs and the
   end of its pending mark are one commit. *)
PairCounted(st, ran) ==
  [Observed(st, ran) EXCEPT
     !.pairs = Append(@, [index |-> st.pending, session |-> st.session, ran |-> ran]),
     !.pending = 0]

(* Mutant: outputs are observed as soon as an arm has run. *)
RanObserving(h, output) ==
  LET arm == Head(h.todo)
      rest == Tail(h.todo)
      warming == h.st.pending = 0
      ran == [h.ran EXCEPT ![arm] = output]
      st == [h.st EXCEPT !.outs[arm] = IF @ = 0 THEN output ELSE @] IN
  IF rest # <<>>
  THEN host' = [h EXCEPT !.todo = rest, !.ran = ran, !.st = st,
                         !.pc = IF warming THEN "warmup" ELSE "trial"]
       /\ UNCHANGED disk
  ELSE Commit([h EXCEPT !.todo = <<>>, !.pc = "loop",
                        !.st = IF warming THEN @ ELSE PairCounted(@, ran)])

(* Outputs are named as digests are: 1 for the first an arm is known by. *)
OutputsOf(st, arm) == IF st.outs[arm] = 0 THEN {1} ELSE {1, 2}

Ran(h, output) ==
  LET arm == Head(h.todo)
      rest == Tail(h.todo)
      warming == h.st.pending = 0
      ran == [h.ran EXCEPT ![arm] = output] IN
  IF rest # <<>>
  THEN host' = [h EXCEPT !.todo = rest, !.ran = ran,
                         !.pc = IF warming THEN "warmup" ELSE "trial"]
       /\ UNCHANGED disk
  ELSE Commit([h EXCEPT !.todo = <<>>, !.pc = "loop",
                        !.st = IF warming THEN @ ELSE PairCounted(@, ran)])

TrialDone ==
  /\ host.pc = "running" /\ child.outcome # "none"
  /\ LET limit == Least(TrialLimit, Remaining(host))
         h == Elapse(host, Took(limit)) IN
       /\ Spend(Took(limit))
       /\ \/ /\ child.outcome = "ok"
             /\ \E output \in OutputsOf(h.st, Head(h.todo)) : Ran(h, output)
             /\ child' = NoChild
             /\ UNCHANGED <<cancel, ledger, starts, kills, launched, lost>>
          \/ /\ child.outcome = "ok"
             /\ Fail(h, "invalid_output")
          \/ /\ child.outcome = "timeout"
             /\ Fail(h, IF limit < TrialLimit THEN "experiment_budget" ELSE "timeout")
          \/ /\ child.outcome = "cancelled"
             /\ disk' = [disk EXCEPT ![h.dir] =
                           [Retired(h.st, "cancelled") EXCEPT !.elapsed = h.clock]]
             /\ Return
             /\ UNCHANGED <<cancel, ledger, starts, kills, launched, lost>>
          \/ /\ child.outcome = "bad" /\ Fail(h, "crash")
          \/ /\ child.outcome = "overflow" /\ Fail(h, "output_limit")
          \/ /\ child.outcome = "unstarted" /\ Fail(h, "spawn_failed")

-----------------------------------------------------------------------------
(* The evaluation, under the audit ledger *)

OwnPending(e, row) == row.experiment = e /\ row.state = "pending"

(* Mutant: a reservation does not count. *)
ConsumedRows(e) ==
  {ledger[i].audit : i \in {j \in 1..Len(ledger) : ledger[j].state = "consumed"}}

(* The audits the evaluator is told are consumed: all but this experiment's
   own reservation. *)
Consumed(e) == {ledger[i].audit : i \in {j \in 1..Len(ledger) : ~OwnPending(e, ledger[j])}}

Outlook(e) == IF WorkloadOf[e] \in Consumed(e) THEN "used" ELSE "fresh"

(* The audit is reserved, unless an earlier session of this experiment did. *)
Reserve ==
  /\ host.pc = "evaluate"
  /\ LET e == Identity[host.dir] IN
       /\ ledger' = IF \E i \in 1..Len(ledger) : OwnPending(e, ledger[i]) THEN ledger
                    ELSE Append(ledger, Row(e, "pending"))
       /\ host' = [host EXCEPT !.pc = "decide", !.outlook = Outlook(e)]
  /\ UNCHANGED <<cancel, child, disk, starts, kills, launched, spent, lost>>

EvaluatorDecides ==
  /\ host.pc = "decide"
  /\ Commit([host EXCEPT !.pc = "finish", !.st.decision = host.outlook])
  /\ UNCHANGED <<cancel, child, ledger, starts, kills, launched, spent, lost>>

(* The evaluator faults or does not return the audit id. *)
EvaluatorFaults ==
  /\ host.pc = "decide"
  /\ Return
  /\ UNCHANGED <<cancel, disk, ledger, starts, kills, launched, spent, lost>>

(* Mutant: the reservation is taken to be the last row. *)
FinishLastRow ==
  /\ host.pc = "finish"
  /\ LET e == Identity[host.dir] IN
       ledger' = [i \in 1..Len(ledger) |->
                    IF i = Len(ledger) /\ OwnPending(e, ledger[i]) THEN Row(e, "consumed")
                    ELSE ledger[i]]
  /\ Return
  /\ UNCHANGED <<cancel, disk, starts, kills, launched, spent, lost>>

FinishLedger ==
  /\ host.pc = "finish"
  /\ LET e == Identity[host.dir] IN
       ledger' = [i \in 1..Len(ledger) |->
                    IF OwnPending(e, ledger[i]) THEN Row(e, "consumed") ELSE ledger[i]]
  /\ Return
  /\ UNCHANGED <<cancel, disk, starts, kills, launched, spent, lost>>

-----------------------------------------------------------------------------
Cancel ==
  /\ host.pc # "idle" /\ ~cancel
  /\ cancel' = TRUE
  /\ UNCHANGED <<child, disk, ledger, host, starts, kills, launched, spent, lost>>

(* The host is killed, or returns an I/O fault, which commits nothing.  What
   the run in progress had taken so far is lost with it. *)
Killed ==
  /\ host.pc # "idle" /\ kills < MaxKills
  /\ kills' = kills + 1
  /\ LET limit == IF host.pc = "running" THEN Least(TrialLimit, Remaining(host))
                  ELSE IF host.pc = "building" THEN Least(BuildLimit, Remaining(host))
                  ELSE 0 IN Spend(limit)
  /\ lost' = [lost EXCEPT ![host.dir] = @ + 1]
  /\ Return
  /\ UNCHANGED <<cancel, disk, ledger, starts, launched>>

RunStep == /\ Poll \/ World
           /\ UNCHANGED <<disk, ledger, host, starts, kills, launched, spent, lost>>

Build == LaunchBuild \/ BuildDone
Measure == LaunchTrial \/ NoBudgetLeft \/ Stop \/ CancelledBetween \/ BeginPair
           \/ AllMeasured \/ TrialDone
Evaluate == Reserve \/ EvaluatorDecides \/ EvaluatorFaults \/ FinishLedger
HostStep == Build \/ Measure \/ Evaluate

Next == (\E d \in Dirs : Start(d)) \/ HostStep \/ RunStep \/ Cancel \/ Killed

Spec == Init /\ [][Next]_evars

(* The host's own steps, the poll loop and the clock go on. *)
Polls == Poll /\ UNCHANGED <<disk, ledger, host, starts, kills, launched, spent, lost>>
ClockTicks == TimePasses /\ UNCHANGED <<disk, ledger, host, starts, kills, launched, spent, lost>>
FairSpec == Spec /\ WF_evars(HostStep) /\ WF_evars(Polls) /\ WF_evars(ClockTicks)

-----------------------------------------------------------------------------
(* Every pair that was ever journaled as pending is counted, retained as an
   attempt, or still pending: a session that is killed, cancelled or fails in
   the middle of a pair neither counts it nor loses it (drive, fail,
   run_arm). *)
LaunchesAccounted ==
  \A d \in Dirs :
    LET st == disk[d] IN
      launched[d] = Len(st.pairs) + Len(st.attempts) + (IF st.pending = 0 THEN 0 ELSE 1)

(* Every counted pair was measured, in a session of its own number, with the
   binaries the first builds produced, whatever was rebuilt since (build). *)
OneBinaryPerArm ==
  \A d \in Dirs, arm \in Arms :
    LET st == disk[d] IN
      /\ \A i, j \in BuildsOf(st, arm) :
           /\ st.builds[i].digest = st.builds[j].digest
           /\ st.builds[i].session = st.builds[j].session => i = j
      /\ \A p \in 1..Len(st.pairs) :
           \E i \in BuildsOf(st, arm) : st.builds[i].session = st.pairs[p].session

(* outputs_stable and the first outputs are those of the counted pairs: an
   attempt that was cancelled, lost or failed leaves no trace in them
   (observe, drive). *)
OutputsOfCountedPairs ==
  \A d \in Dirs, arm \in Arms :
    LET st == disk[d] IN
      /\ st.outs[arm] = IF st.pairs = <<>> THEN 0 ELSE st.pairs[1].ran[arm]
      /\ st.stable => \A p \in 1..Len(st.pairs) : st.pairs[p].ran[arm] = st.outs[arm]
      /\ (\A a \in Arms, p \in 1..Len(st.pairs) : st.pairs[p].ran[a] = st.outs[a]) => st.stable

(* A failure or a decision is the last word of a state directory: no later
   session changes its checkpoint.  A decision is made on a full sample, and
   only where nothing failed (drive). *)
VerdictIsFinal ==
  [][\A d \in Dirs :
       /\ disk[d].failure # "none" \/ disk[d].decision # "none" => disk'[d] = disk[d]
       /\ disk'[d].decision # disk[d].decision
            => disk'[d].failure = "none" /\ Len(disk'[d].pairs) = Pairs]_evars

(* A workload looks fresh to one experiment at most, and a decision is never
   without its row in the ledger, wherever sessions are killed (evaluate,
   finish_ledger). *)
AuditFreshOnce ==
  /\ \A c, d \in Dirs :
       /\ disk[c].decision = "fresh" /\ disk[d].decision = "fresh"
       /\ WorkloadOf[Identity[c]] = WorkloadOf[Identity[d]]
       => Identity[c] = Identity[d]
  /\ \A d \in Dirs :
       disk[d].decision # "none" => \E i \in 1..Len(ledger) : ledger[i].experiment = Identity[d]

(* What a session reports as decided is consumed in the ledger: a session
   that reads a decision back finishes the reservation of the one that was
   killed before it could. *)
DecidedIsConsumed ==
  [][host.pc = "finish" /\ host'.pc = "idle" /\ kills' = kills
       => ~\E i \in 1..Len(ledger') : OwnPending(Identity[host.dir], ledger'[i])]_evars

(* Builds and trials of all sessions together stay within the experiment's
   budget, but for what is lost with a session that is killed or whose rebuild
   is refused: the warmups, one pair or one build each (remaining, commit). *)
MaxOf(m, n) == IF m < n THEN n ELSE m
UncommittedTime == MaxOf(BuildLimit, MaxOf(2 * Warmup, 2) * TrialLimit)
BudgetKept ==
  \A d \in Dirs : spent[d] <= Budget + lost[d] * UncommittedTime

(* A run ends with its child reaped; a reaped child is never swept; a success
   carries all the output there was, within the limit. *)
RunsEndClean ==
  /\ child.outcome \notin {"none", "unstarted"} => child.waited /\ child.life # "running"
  /\ child.swept => child.status = "none"
  /\ child.outcome = "ok" => /\ child.unread = 0 /\ ~child.held
                             /\ child.kind = "trial" => child.got <= OutputLimit

(* Every session returns: descendants that keep the streams open cannot hold
   it past its limits. *)
SessionsReturn == host.pc # "idle" ~> host.pc = "idle"

(* The module says that a workload consumed once can never look fresh again,
   across resumes and across experiments sharing the ledger. *)
NeverFreshAgain ==
  \A c, d \in Dirs :
    /\ disk[c].decision = "fresh" /\ disk[d].decision = "fresh"
    /\ WorkloadOf[Identity[c]] = WorkloadOf[Identity[d]]
    => c = d
=============================================================================
