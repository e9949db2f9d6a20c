----------------------------- MODULE DreamDriver -----------------------------
(***************************************************************************)
(* One dream run: its directory on disk and the driver process over it     *)
(* (dream/driver.rs, with dream.rs DreamRun and host.rs LoopSession for    *)
(* what a batch does in memory).  Every durable write - a journal line, a  *)
(* checkpoint, an acknowledgement - is a step of its own, and the process  *)
(* may be killed between any two.                                          *)
(*                                                                         *)
(* Left out: the contents of records, cases and level files; metrics.jsonl *)
(* and run.json (nothing reads them back); the evaluation ledger (module   *)
(* FactLedger); the lock (module RunLock): at most one driver is alive.    *)
(* I/O errors and requests with an unknown action (refused without effect) *)
(* are left out; a faulting evaluation is not.                             *)
(***************************************************************************)
EXTENDS DreamJournal

CONSTANTS MaxBatches,       \* config.max_batches
          CheckpointEvery,  \* config.checkpoint_every
          KeepCheckpoints,  \* config.keep_checkpoints
          Ceiling,          \* config.max_units, in raises
          HasChain,         \* the module declares dream_carry and dream_next
          KeepAt,           \* dream_keep reports a new item at these batches
          Verdicts,         \* verdicts the authored Step may report
          Faults,           \* how an evaluation may fault: "work" (the work
                            \* limit, resumable) or "fault" (anything else)
          QuietBatches,     \* a batch may leave archive and cases alone
          GrowCases,        \* case ids a viewer may ask to grow
          Actions,          \* control actions a viewer sends
          BadFiles,         \* inbox files that do not parse
          Files,            \* inbox files that may appear, in name order
          MaxLevel,         \* bound: levels of the chain
          MaxRequests,      \* bound: control requests
          MaxCrashes,       \* bound: kills of the driver
          MaxForks          \* bound: forks

ASSUME ConfigAssumption ==
    /\ MaxBatches \in Nat /\ Ceiling \in Nat /\ MaxLevel \in Nat \ {0}
    /\ {CheckpointEvery, KeepCheckpoints, PlateauClose} \subseteq Nat \ {0}
    /\ Verdicts \subseteq 0..5 /\ Faults \subseteq {"work", "fault"}
    /\ KeepAt \subseteq Nat /\ Files \subseteq Nat /\ BadFiles \subseteq Files
    /\ {HasChain, QuietBatches} \subseteq BOOLEAN

VARIABLES journal,   \* journal.jsonl: its complete lines
          ckpts,     \* checkpoints/: [batch, level, hist]
          requests,  \* control/requests.jsonl: [action, arg]
          acks,      \* control/acks.jsonl: [req, outcome, batch]
          inbox,     \* inbox/: files present
          drv,       \* the driver process
          crashes, forks

disk == <<journal, ckpts, requests, acks, inbox>>
vars == <<journal, ckpts, requests, acks, inbox, drv, crashes, forks>>

Off == [pc |-> "off"]
Live == drv.pc # "off"

(* The requests acks.jsonl answers.  Mutant: the file is not read. *)
NothingAnswered == {}
Answered == {acks[i].req : i \in 1..Len(acks)}

(* The driver between batches, over what a journal describes. *)
Opened(j, h, last) ==
    [pc |-> "poll", level |-> Level(j), base |-> Base(j), hist |-> h,
     wm |-> Watermark(j), streak |-> Streak(j), close |-> FALSE, raised |-> FALSE,
     verdict |-> 0, ranAt |-> 0, paused |-> FALSE, ended |-> FALSE,
     acked |-> Answered,
     taken |-> Taken(j), evid |-> Evidence(j), deferred |-> {}, ckpt |-> last,
     kept |-> {j[i].val : i \in {k \in 1..Len(j) : j[k].t = "kept"}},
     seq |-> LastSeq(j), req |-> 0, limit |-> 0, queue |-> {},
     outcome |-> "", reply |-> ""]

Batch == drv.base + Batches(drv.hist)

Init == /\ journal = <<>> /\ ckpts = {} /\ requests = <<>> /\ acks = <<>>
        /\ inbox = {} /\ drv = Off /\ crashes = 0 /\ forks = 0

(* JournalWriter::emit *)
Emit(t, b, v) == journal' = Append(journal, Event(drv.seq + 1, t, b, v))
At(pc) == [drv EXCEPT !.pc = pc]
Wrote(pc) == [drv EXCEPT !.pc = pc, !.seq = @ + 1]
(* run_batch returns to poll_control when a step request called it *)
Caller == IF drv.req = 0 THEN "poll" ELSE "ack"
-----------------------------------------------------------------------------
(* Checkpoints *)

(* The checkpoints of one batch, and the newest n. *)
CheckpointAt(b) == {k \in ckpts : k.batch = b}
Newest(S, n) == {k \in S : Cardinality({o \in S : o.batch > k.batch}) < n}

(* Mutant: labelled with the batch to come. *)
CheckpointAhead ==
    ckpts' = Newest(ckpts \cup {[batch |-> Batch + 1, level |-> drv.level, hist |-> drv.hist]},
                    KeepCheckpoints)

(* checkpoint: nothing to do when the batch's checkpoint was this driver's
   last one and still exists; else save, rename into place, apply retention. *)
Checkpoint ==
    ckpts' = IF drv.ckpt = Batch /\ CheckpointAt(Batch) # {} THEN ckpts
             ELSE Newest((ckpts \ CheckpointAt(Batch))
                            \cup {[batch |-> Batch, level |-> drv.level, hist |-> drv.hist]},
                         KeepCheckpoints)
-----------------------------------------------------------------------------
(* Opening a run *)

(* Driver::fresh: the journal is empty, the run starts at its Seed. *)
OpenFresh ==
    /\ ~Live
    /\ journal = <<>>
    /\ journal' = <<Event(1, "start", 0, 0)>>
    /\ drv' = [Opened(journal', <<>>, MaxBatches + 1) EXCEPT !.pc = "seed"]
    /\ UNCHANGED <<ckpts, requests, acks, inbox, crashes, forks>>

EmitSeed ==
    /\ drv.pc = "seed"
    /\ Emit("seed", 0, 0)
    /\ drv' = Wrote("keepSeam")
    /\ UNCHANGED <<ckpts, requests, acks, inbox, crashes, forks>>

(* The restart point: the newest checkpoint at or before the last batch. *)
RestartSet == {k \in ckpts : k.batch <= LastBatch(journal)}
RestartAt == IF RestartSet = {} THEN 0 ELSE Max({k.batch : k \in RestartSet})

(* Without a checkpoint, and at the batch at which a level began, the session
   starts at its Seed. *)
AtSeed(c, kept) == CheckpointAt(c) = {} \/ (Level(kept) > 1 /\ c = Base(kept))

(* Mutants: the checkpoint is loaded even where a level began; the steering
   it missed is not applied again. *)
RestoredPastSeed(c, kept) ==
    IF CheckpointAt(c) = {} THEN <<>> ELSE (CHOOSE k \in ckpts : k.batch = c).hist
RestoredUnsteered(c, kept) ==
    IF AtSeed(c, kept) THEN <<>> ELSE (CHOOSE k \in ckpts : k.batch = c).hist

(* What the restored session holds: the checkpoint or the Seed, then the
   steering journaled at that batch which it missed. *)
RestoredHistory(c, kept) ==
    LET saved == IF AtSeed(c, kept) THEN <<>> ELSE (CHOOSE k \in ckpts : k.batch = c).hist
        missed == AtPositions(kept, {i \in 1..Len(kept) :
                                         /\ kept[i].t = "steer" /\ kept[i].batch = c
                                         /\ kept[i].val \notin Cases(saved)})
    IN  saved \o [i \in 1..Len(missed) |-> Grew(missed[i].val)]

LastCheckpoint(c) == IF CheckpointAt(c) = {} THEN MaxBatches + 1 ELSE c

(* Driver::resume, at the level and with the ladder the kept journal ends in *)
OpenResume ==
    /\ ~Live
    /\ journal # <<>>
    /\ Resumable(journal)
    /\ LET c == RestartAt
           kept == KeptAt(journal, c)
       IN  /\ journal' = kept
           /\ drv' = [Opened(kept, RestoredHistory(c, kept), LastCheckpoint(c))
                         EXCEPT !.deferred = Deferred(journal, c)]
    /\ UNCHANGED <<ckpts, requests, acks, inbox, crashes, forks>>

(* Mutant: the recorded end repeats the last seq. *)
RecordFaultSameSeq(code) ==
    journal' = IF Last(journal).t = "end" THEN journal
               ELSE Append(journal, EndEvent(LastSeq(journal), LastBatch(journal), code))

(* record_fault appends an end unless the journal has one already *)
RecordFault(code) ==
    journal' = IF Last(journal).t = "end" THEN journal
               ELSE Append(journal, EndEvent(LastSeq(journal) + 1, LastBatch(journal), code))

(* drive over a closed run: the open is refused and the fault recorded *)
OpenRefused ==
    /\ ~Live
    /\ journal # <<>>
    /\ ~Resumable(journal)
    /\ RecordFault("dream_run_closed")
    /\ UNCHANGED <<ckpts, requests, acks, inbox, drv, crashes, forks>>

(* A restart from a Seed evaluates it before the journal is cut. *)
OpenFault ==
    /\ ~Live
    /\ journal # <<>>
    /\ Resumable(journal)
    /\ AtSeed(RestartAt, KeptAt(journal, RestartAt))
    /\ \E code \in Faults : RecordFault(code)
    /\ UNCHANGED <<ckpts, requests, acks, inbox, drv, crashes, forks>>
-----------------------------------------------------------------------------
(* Control: requests are applied at batch boundaries, in file order *)

Viewer == <<journal, ckpts, acks, drv, crashes, forks>>

SendRequest(a, c) ==
    /\ Len(requests) < MaxRequests
    /\ requests' = Append(requests, [action |-> a, arg |-> c])
    /\ UNCHANGED <<inbox, Viewer>>

DropFile(f) ==
    /\ f \notin inbox
    /\ inbox' = inbox \cup {f}
    /\ UNCHANGED <<requests, Viewer>>

(* poll_control reads the request file once.  Mutant: the last line is
   taken for one still being written. *)
PollShort ==
    /\ drv.pc = "poll"
    /\ drv' = [drv EXCEPT !.pc = "control", !.limit = IF requests = <<>> THEN 0
                                                      ELSE Len(requests) - 1]
    /\ UNCHANGED <<disk, crashes, forks>>

Poll ==
    /\ drv.pc = "poll"
    /\ drv' = [drv EXCEPT !.pc = "control", !.limit = Len(requests)]
    /\ UNCHANGED <<disk, crashes, forks>>

Unanswered == (1..drv.limit) \ drv.acked
Serving(i, a) == drv.pc = "control" /\ Unanswered # {} /\ i = Min(Unanswered)
                 /\ requests[i].action = a
Reply(i, r) == [drv EXCEPT !.pc = "ack", !.req = i, !.reply = r]

ApplyAfterEnd(i) ==
    /\ \E a \in Actions : Serving(i, a)
    /\ drv.ended
    /\ drv' = Reply(i, "refused")
    /\ UNCHANGED <<disk, crashes, forks>>

ApplyPause(i) ==
    /\ Serving(i, "pause") /\ ~drv.ended
    /\ IF drv.paused THEN UNCHANGED ckpts ELSE Checkpoint
    /\ drv' = [Reply(i, "applied") EXCEPT !.paused = TRUE,
                   !.ckpt = IF drv.paused THEN @ ELSE Batch]
    /\ UNCHANGED <<journal, requests, acks, inbox, crashes, forks>>

ApplyResume(i) ==
    /\ Serving(i, "resume") /\ ~drv.ended
    /\ drv' = [Reply(i, "applied") EXCEPT !.paused = FALSE]
    /\ UNCHANGED <<disk, crashes, forks>>

ApplyCheckpoint(i) ==
    /\ Serving(i, "checkpoint") /\ ~drv.ended
    /\ Checkpoint
    /\ drv' = [Reply(i, "applied") EXCEPT !.ckpt = Batch]
    /\ UNCHANGED <<journal, requests, acks, inbox, crashes, forks>>

ApplyStep(i) ==
    /\ Serving(i, "step") /\ ~drv.ended
    /\ drv' = IF drv.paused THEN [Reply(i, "applied") EXCEPT !.pc = "batch"]
              ELSE Reply(i, "refused")
    /\ UNCHANGED <<disk, crashes, forks>>

ApplyStop(i) ==
    /\ Serving(i, "stop") /\ ~drv.ended
    /\ drv' = [Reply(i, "applied") EXCEPT !.pc = "end", !.outcome = "stopped"]
    /\ UNCHANGED <<disk, crashes, forks>>

ApplyGrowCase(i) ==
    /\ Serving(i, "grow_case") /\ ~drv.ended
    /\ LET c == requests[i].arg IN
       IF c \in Cases(drv.hist)
       THEN drv' = Reply(i, "refused") /\ UNCHANGED journal
       ELSE /\ Emit("steer", Batch, c)
            /\ drv' = [Reply(i, "applied") EXCEPT !.seq = @ + 1,
                                                  !.hist = Append(@, Grew(c))]
    /\ UNCHANGED <<ckpts, requests, acks, inbox, crashes, forks>>

Ack ==
    /\ drv.pc = "ack"
    /\ acks' = Append(acks, [req |-> drv.req, outcome |-> drv.reply, batch |-> Batch])
    /\ drv' = [drv EXCEPT !.pc = "control", !.acked = @ \cup {drv.req}, !.req = 0]
    /\ UNCHANGED <<journal, ckpts, requests, inbox, crashes, forks>>

(* Mutants: the pause is not looked at; an ended run goes on polling. *)
ControlDoneUnpaused ==
    /\ drv.pc = "control"
    /\ Unanswered = {}
    /\ drv' = IF drv.ended THEN Off ELSE At("batch")
    /\ UNCHANGED <<disk, crashes, forks>>
ControlDoneEnded ==
    /\ drv.pc = "control"
    /\ Unanswered = {}
    /\ drv' = At(IF drv.paused \/ drv.ended THEN "poll" ELSE "batch")
    /\ UNCHANGED <<disk, crashes, forks>>

(* run(): leave when ended, poll again while paused, else drive a batch *)
ControlDone ==
    /\ drv.pc = "control"
    /\ Unanswered = {}
    /\ drv' = IF drv.ended THEN Off ELSE At(IF drv.paused THEN "poll" ELSE "batch")
    /\ UNCHANGED <<disk, crashes, forks>>
-----------------------------------------------------------------------------
(* One batch *)

(* take_inbox reads the directory once; a file that a dropped event took
   waits for the boundary that took it. *)
Ready == {f \in inbox \ drv.taken :
              \A x \in drv.deferred : x.file = f => x.batch <= Batch}

BatchStart ==
    /\ drv.pc = "batch"
    /\ drv' = IF Batch >= MaxBatches
              THEN [drv EXCEPT !.pc = "end", !.outcome = "batch_cap"]
              ELSE [drv EXCEPT !.pc = "inbox", !.queue = Ready]
    /\ UNCHANGED <<disk, crashes, forks>>

TakeFile ==
    /\ drv.pc = "inbox" /\ drv.queue # {}
    /\ LET f == Min(drv.queue)
           good == f \notin BadFiles
       IN  /\ Emit(IF good THEN "evidence" ELSE "evidence_rejected", Batch, f)
           /\ drv' = [Wrote("inbox") EXCEPT !.queue = @ \ {f}, !.taken = @ \cup {f},
                          !.evid = IF good THEN Append(@, f) ELSE @]
    /\ UNCHANGED <<ckpts, requests, acks, inbox, crashes, forks>>

(* The Step faults: nothing is committed, the run ends. *)
AdvanceFault(code) ==
    /\ drv.pc = "inbox" /\ drv.queue = {}
    /\ drv' = [drv EXCEPT !.pc = "end", !.outcome = code]
    /\ UNCHANGED <<disk, crashes, forks>>

NewStreak(v) == CASE v = 3 -> drv.streak + 1 [] v = 0 -> 0 [] OTHER -> drv.streak

(* DreamRun::advance commits in memory; the journal first gets the batch's
   records (and cases), if any; its batch line is still to come. *)
Advanced(v) ==
    [drv EXCEPT !.pc = "commit",
                !.hist = Append(@, Ran(drv.wm, drv.evid, v)),
                !.verdict = v, !.ranAt = drv.wm,
                !.streak = NewStreak(v),
                !.close = Closes(v, NewStreak(v)),
                !.raised = (v = 4),
                !.wm = IF v = 4 THEN @ + 1 ELSE @]
Advance(v) ==
    /\ drv.pc = "inbox" /\ drv.queue = {} /\ v # 5
    /\ \/ /\ Emit("records", Batch + 1, 0)
          /\ drv' = [Advanced(v) EXCEPT !.seq = @ + 1]
       \/ /\ QuietBatches
          /\ drv' = Advanced(v) /\ UNCHANGED journal
    /\ UNCHANGED <<ckpts, requests, acks, inbox, crashes, forks>>

(* A verdict outside the vocabulary (5) is refused after the session has
   stepped: the run ends one batch ahead of its journal. *)
AdvanceUnknown ==
    /\ drv.pc = "inbox" /\ drv.queue = {} /\ 5 \in Verdicts
    /\ drv' = [drv EXCEPT !.pc = "end", !.outcome = "fault",
                          !.hist = Append(@, Ran(drv.wm, drv.evid, 5))]
    /\ UNCHANGED <<disk, crashes, forks>>

Commit ==
    /\ drv.pc = "commit"
    /\ journal' = Append(journal, BatchEvent(drv.seq + 1, Batch, drv.ranAt,
                                             drv.verdict, drv.streak))
    /\ drv' = Wrote("keepBatch")
    /\ UNCHANGED <<ckpts, requests, acks, inbox, crashes, forks>>

(* keep_new: one kept event per item the library does not hold yet, after
   a batch and after a level's first event *)
Reported == {n \in KeepAt : n <= Batch} \ drv.kept
KeepNew ==
    /\ drv.pc \in {"keepBatch", "keepSeam"}
    /\ Reported # {}
    /\ Emit("kept", Batch, Min(Reported))
    /\ drv' = [Wrote(drv.pc) EXCEPT !.kept = @ \cup {Min(Reported)}]
    /\ UNCHANGED <<ckpts, requests, acks, inbox, crashes, forks>>

KeepDone ==
    /\ drv.pc \in {"keepBatch", "keepSeam"}
    /\ Reported = {}
    /\ drv' = At(IF drv.pc = "keepSeam" THEN Caller
                    ELSE IF drv.raised THEN "raise" ELSE "ckpt")
    /\ UNCHANGED <<disk, crashes, forks>>

(* The seam faults: after a batch the run ends, elsewhere the fault leaves
   the loop. *)
KeepFault(code) ==
    /\ drv.pc \in {"keepBatch", "keepSeam"} /\ KeepAt # {}
    /\ drv' = [drv EXCEPT !.pc = IF @ = "keepSeam" THEN "fault" ELSE "end",
                          !.outcome = code]
    /\ UNCHANGED <<disk, crashes, forks>>

(* The raise is journaled, unless it would pass the ceiling. *)
Raise ==
    /\ drv.pc = "raise" /\ drv.wm <= Ceiling
    /\ Emit("budget", Batch, drv.wm)
    /\ drv' = [Wrote("ckpt") EXCEPT !.raised = FALSE]
    /\ UNCHANGED <<ckpts, requests, acks, inbox, crashes, forks>>

RaisePastCeiling ==
    /\ drv.pc = "raise" /\ drv.wm > Ceiling
    /\ drv' = [drv EXCEPT !.pc = "end", !.outcome = "budget_exhausted"]
    /\ UNCHANGED <<disk, crashes, forks>>

(* Mutant: the period is one batch too long. *)
DueLate == Batch % (CheckpointEvery + 1) = 0
Due == Batch % CheckpointEvery = 0

PeriodicCheckpoint ==
    /\ drv.pc = "ckpt"
    /\ IF Due THEN Checkpoint ELSE UNCHANGED ckpts
    /\ drv' = [drv EXCEPT !.pc = IF drv.close THEN "close" ELSE Caller,
                          !.ckpt = IF Due THEN Batch ELSE @]
    /\ UNCHANGED <<journal, requests, acks, inbox, crashes, forks>>
-----------------------------------------------------------------------------
(* A level closes *)

(* next_level: the next level's file verified; a fresh Seed drives on. *)
NextLevel ==
    /\ drv.pc = "close" /\ HasChain /\ drv.level < MaxLevel
    /\ Emit("level_next", Batch, drv.level + 1)
    /\ drv' = [Wrote("keepSeam") EXCEPT !.level = @ + 1, !.base = Batch, !.hist = <<>>,
                   !.wm = 0, !.streak = 0, !.close = FALSE]
    /\ UNCHANGED <<ckpts, requests, acks, inbox, crashes, forks>>

LevelRejected ==
    /\ drv.pc = "close" /\ HasChain
    /\ Emit("level_rejected", Batch, drv.level + 1)
    /\ drv' = Wrote("finish")
    /\ UNCHANGED <<ckpts, requests, acks, inbox, crashes, forks>>

(* Evaluating dream_next faults: the fault leaves the loop. *)
ChainFault(code) ==
    /\ drv.pc = "close" /\ HasChain
    /\ drv' = [At("fault") EXCEPT !.outcome = code]
    /\ UNCHANGED <<disk, crashes, forks>>

(* No seam, a fixed point or a rejected file: the level closes the run. *)
Finish ==
    /\ drv.pc \in {"close", "finish"}
    /\ Emit("level", Batch, 0)
    /\ drv' = [Wrote("end") EXCEPT !.outcome = "closed"]
    /\ UNCHANGED <<ckpts, requests, acks, inbox, crashes, forks>>

FinishFault(code) ==
    /\ drv.pc \in {"close", "finish"}
    /\ drv' = [drv EXCEPT !.pc = "end", !.outcome = code]
    /\ UNCHANGED <<disk, crashes, forks>>
-----------------------------------------------------------------------------
(* The run ends *)

EndCheckpoint ==
    /\ drv.pc = "end"
    /\ Checkpoint
    /\ drv' = [drv EXCEPT !.pc = "emitEnd", !.ckpt = Batch]
    /\ UNCHANGED <<journal, requests, acks, inbox, crashes, forks>>

EmitEnd ==
    /\ drv.pc = "emitEnd"
    /\ journal' = Append(journal, EndEvent(drv.seq + 1, Batch, drv.outcome))
    /\ drv' = [Wrote(Caller) EXCEPT !.ended = TRUE]
    /\ UNCHANGED <<ckpts, requests, acks, inbox, crashes, forks>>

(* A fault that escapes the loop is recorded on the way out. *)
EscapedFault ==
    /\ drv.pc = "fault"
    /\ RecordFault(drv.outcome)
    /\ drv' = Off
    /\ UNCHANGED <<ckpts, requests, acks, inbox, crashes, forks>>

Crash ==
    /\ Live
    /\ crashes < MaxCrashes
    /\ crashes' = crashes + 1
    /\ drv' = Off
    /\ UNCHANGED <<disk, forks>>

(* fork_run at a checkpoint, of a run at rest or beside its driver; from here
   on the run followed is the fork, which has no driver yet. *)
Fork(k) ==
    /\ forks < MaxForks
    /\ forks' = forks + 1
    /\ journal' = KeptAt(journal, k.batch)
    /\ ckpts' = {k}
    /\ requests' = <<>> /\ acks' = <<>> /\ inbox' = {}
    /\ drv' = Off
    /\ UNCHANGED crashes

Open == OpenFresh \/ OpenResume \/ OpenRefused \/ OpenFault
Control == \/ Poll \/ Ack \/ ControlDone
           \/ \E i \in 1..Len(requests) :
                 \/ ApplyAfterEnd(i) \/ ApplyPause(i) \/ ApplyResume(i)
                 \/ ApplyCheckpoint(i) \/ ApplyStep(i) \/ ApplyStop(i)
                 \/ ApplyGrowCase(i)
RunBatch == \/ BatchStart \/ TakeFile
            \/ \E v \in Verdicts : Advance(v)
            \/ AdvanceUnknown
            \/ Commit \/ KeepNew \/ KeepDone
            \/ Raise \/ RaisePastCeiling \/ PeriodicCheckpoint
Close == NextLevel \/ LevelRejected \/ Finish
Fault == \E code \in Faults : \/ AdvanceFault(code) \/ KeepFault(code)
                             \/ ChainFault(code) \/ FinishFault(code)
End == EndCheckpoint \/ EmitEnd \/ EscapedFault
DriverStep == EmitSeed \/ Control \/ RunBatch \/ Close \/ Fault \/ End
Environment == \/ \E a \in Actions \ {"grow_case"} : SendRequest(a, 0)
               \/ "grow_case" \in Actions /\ \E c \in GrowCases : SendRequest("grow_case", c)
               \/ \E f \in Files : DropFile(f)
               \/ Crash
               \/ \E k \in ckpts : Fork(k)

Next == Open \/ DriverStep \/ Environment

Spec == Init /\ [][Next]_vars

(* A live driver keeps running: run() loops without blocking, sleeping at
   most 100 ms while paused; drive() calls Driver::open at once. *)
FairSpec == Spec /\ WF_vars(DriverStep)
-----------------------------------------------------------------------------
(* The journal reads as one uninterrupted run, across every restart, fork
   and recorded fault: seq counts from 1 without a gap (CONTRACT.md
   "contiguous seq from 1"), batches are journaled 1, 2, 3, ... with none
   missing, repeated or out of order, no event belongs to a batch before one
   already journaled (but an end recorded over the torn batch of a killed
   driver), and end comes once, last.  It fails when what a restart keeps is
   not a prefix of the journal, less its end. *)
BatchIndices == {i \in 1..Len(journal) : IsBatch(journal[i])}
JournalInOrder ==
    /\ \A i \in 1..Len(journal) :
           journal[i].seq = i /\ (journal[i].t = "end" => i = Len(journal))
    /\ \A i, k \in 1..Len(journal) :
           i <= k => journal[i].batch <= journal[k].batch \/ journal[k].t = "end"
    /\ \A n \in 1..LastBatch(journal) :
           Cardinality({i \in BatchIndices : journal[i].batch = n}) = 1

(* The session in memory is the one the journal describes: the batches since
   the level began, each under the watermark and the evidence it ran with,
   and the case growths between them, in order.  A restart from any
   checkpoint restores exactly that.  (Between advance and the batch line
   the session is one batch ahead; after an unknown verdict it stays so.) *)
Unknown(h) == h # <<>> /\ Last(h).kind = "batch" /\ Last(h).verdict = 5
SessionMatchesJournal ==
    Live /\ drv.pc # "commit" =>
        /\ History(journal) = IF Unknown(drv.hist) THEN Front(drv.hist) ELSE drv.hist
        /\ drv.level = Level(journal) /\ drv.base = Base(journal)
        /\ drv.evid = Evidence(journal) /\ drv.taken = Taken(journal)
        /\ drv.seq = LastSeq(journal)

(* At every boundary of a run that has not ended, the ladder in memory is
   the one ladder_of folds from the journal. *)
AtBoundary == Live /\ drv.pc \in {"poll", "control", "ack", "batch", "inbox"}
LadderMatchesJournal ==
    AtBoundary /\ ~drv.ended =>
        drv.wm = Watermark(journal) /\ drv.streak = Streak(journal)

(* Every checkpoint on disk is a state the journal describes: its batch is
   journaled, and its session is the journal's at that batch, short of the
   steering journaled at that batch after it was saved.  Where a level began
   at its batch it may be the closing session of the level before, which a
   restart must not load. *)
Covers(h, k) == IsPrefix(k.hist, h) /\ Batches(k.hist) = Batches(h)
CheckpointsMatchJournal ==
    \A k \in ckpts :
        LET j == KeptAt(journal, k.batch)
            before == SubSeq(j, 1, LevelIndex(j) - 1)
        IN  /\ k.batch <= LastBatch(journal)
            /\ \/ k.level = Level(j) /\ Covers(History(j), k)
               \/ Base(j) = k.batch /\ k.level = Level(j) - 1
                                    /\ Covers(History(before), k)

(* A kill loses at most checkpoint_every batches: retention and the order of
   batch line, checkpoint and next batch never leave an older restart. *)
BoundedLoss == LastBatch(journal) - RestartAt <= CheckpointEvery

(* The run directory is a RunStore: what a driver holds is the state its
   journal describes, or that one with the batch it just ran; one that starts
   holds a state the journal had described, at most checkpoint_every batches
   back and with all that was steered at that batch; a closed run is never
   driven on, and a fork begins in a state of the run it was taken of. *)
Held == IF Live THEN {[batch |-> Batch, level |-> drv.level, session |-> drv.hist]} ELSE {}
Store == INSTANCE RunStore WITH Loss <- CheckpointEvery, now <- StateOf(journal),
                                past <- PastOf(journal), held <- Held,
                                closed <- HasLevel(journal)
ImplementsStore == Store!Spec

(* Nothing at or before the newest checkpoint is ever taken out of the
   journal or rewritten, except the trailing end. *)
CommittedSurvives ==
    [][forks' = forks =>
          \A i \in 1..Len(journal) :
              journal[i].t # "end" /\ journal[i].batch <= RestartAt
                  => i <= Len(journal') /\ journal'[i] = journal[i]]_vars

(* A journaled level is final: no driver, restarted or not, adds a batch to
   it (dream_run_closed). *)
ClosedIsFinal ==
    [][forks' = forks /\ HasLevel(journal)
          => HasLevel(journal') /\ LastBatch(journal') = LastBatch(journal)]_vars

(* An inbox file enters the evidence at most once, whatever was dropped and
   taken again. *)
TakenOnce ==
    \A i, k \in 1..Len(journal) :
        TakesFile(journal[i]) /\ TakesFile(journal[k]) /\ journal[i].val = journal[k].val
            => i = k

(* Requests are answered once each and in file order, across restarts. *)
AnsweredInOrder ==
    \A i, k \in 1..Len(acks) : i < k => acks[i].req < acks[k].req

(* A paused run commits a batch only under a step request. *)
PausedOnlySteps ==
    Live /\ drv.paused /\ drv.pc \in {"batch", "inbox", "commit"}
        => drv.req # 0 /\ requests[drv.req].action = "step"

(* A case is grown at most once per level, also when its request is applied
   again because the kill came before its acknowledgement. *)
GrownOnce ==
    Live => \A i, k \in 1..Len(drv.hist) :
                /\ drv.hist[i].kind = "grow" /\ drv.hist[k].kind = "grow"
                /\ drv.hist[i] = drv.hist[k]
                => i = k

(* Every request a live driver can see is answered, unless the driver goes
   away first. *)
RequestsAnswered ==
    \A i \in 1..MaxRequests :
        Live /\ i <= Len(requests) ~> ~Live \/ i \in drv.acked

(* A driver that is not left paused ends its run: batches are bounded. *)
RunEnds == Live ~> ~Live \/ drv.paused
=============================================================================
