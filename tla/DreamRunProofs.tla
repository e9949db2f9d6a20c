---------------------------- MODULE DreamRunProofs ----------------------------
(***************************************************************************)
(* Theorems of DreamDriver, for every configuration, any number of         *)
(* requests, kills, restarts and forks.                                    *)
(*                                                                         *)
(* Control: requests are answered in file order, and a paused run moves    *)
(* only under a step request.  The argument is one count kept in four      *)
(* places: acks.jsonl answers the first n requests, the driver's set of    *)
(* answered requests is 1..n, the request it is at is n + 1, and a batch   *)
(* run for a step request keeps that number until its answer is written.   *)
(*                                                                         *)
(* The journal, where the Step reports no unknown verdict: it reads as one *)
(* uninterrupted run.  A driver is always at the batch its journal ends in *)
(* (one ahead between advance and the batch line), so what it appends      *)
(* fits; a checkpoint's history counts the batches from the base of its    *)
(* level to its own batch, so a restart is again at the batch its journal  *)
(* is cut to.                                                              *)
(*                                                                         *)
(* Files and closed runs, whatever the Step reports: the driver's set of   *)
(* taken files is the one its journal gives, a kept journal has each of    *)
(* its lines from a place of its own, and a driver whose journal has a     *)
(* level event is on its way to the end.                                   *)
(***************************************************************************)
EXTENDS DreamDriver, DreamJournalProofs

-----------------------------------------------------------------------------
(* Control *)

(* A driver between its open and its exit is the record Opened makes. *)
Fields == {"pc", "level", "base", "hist", "wm", "streak", "close", "raised",
           "verdict", "ranAt", "paused", "ended", "acked", "taken", "evid",
           "deferred", "ckpt", "kept", "seq", "req", "limit", "queue",
           "outcome", "reply"}

(* acks.jsonl answers the requests from the first on, each once. *)
AcksCount == IsSeq(requests) /\ IsSeq(acks) /\ \A i \in 1..Len(acks) : acks[i].req = i

(* The driver's place in the request file. *)
ReqInPlace ==
    /\ drv.acked = 1..Len(acks)
    /\ drv.limit \in 0..Len(requests)
    /\ drv.req \in 0..Len(requests)
    /\ drv.req # 0 => drv.req = Len(acks) + 1
    /\ drv.pc \in {"poll", "control"} => drv.req = 0
    /\ drv.pc = "ack" => drv.req # 0

ControlInv ==
    /\ AcksCount
    /\ Live => DOMAIN drv = Fields /\ ReqInPlace
    /\ PausedOnlySteps

(* What most steps of a driver have in common: control state stays, and pc
   moves within a batch or back to where the batch was called from. *)
Move ==
    /\ Live /\ UNCHANGED <<requests, acks>>
    /\ DOMAIN drv' = Fields
    /\ drv'.acked = drv.acked /\ drv'.req = drv.req
    /\ drv'.limit = drv.limit /\ drv'.paused = drv.paused
    /\ drv'.pc = "poll" => drv.req = 0
    /\ drv'.pc = "ack" => drv.req # 0
    /\ drv'.pc # "control"
    /\ drv'.pc \in {"batch", "inbox", "commit"} => drv.pc \in {"batch", "inbox"}

LEMMA MoveInv == ASSUME ControlInv, Move PROVE ControlInv'
<1>1. DOMAIN drv = Fields /\ ReqInPlace /\ AcksCount /\ PausedOnlySteps
  BY DEF ControlInv, Move
<1>2. AcksCount'
  BY <1>1 DEF Move, AcksCount, IsSeq
<1>3. ReqInPlace'
  BY <1>1 DEF Move, ReqInPlace
<1>4. PausedOnlySteps'
  BY <1>1 DEF Move, PausedOnlySteps, Live
<1> QED
  BY <1>2, <1>3, <1>4 DEF ControlInv, Move

(* A driver leaves: nothing is claimed of it. *)
LEMMA OffInv == ASSUME ControlInv, drv' = Off, UNCHANGED <<requests, acks>> PROVE ControlInv'
<1>1. drv'.pc = "off"
  BY DEF Off
<1>2. AcksCount'
  BY DEF ControlInv, AcksCount, IsSeq
<1> QED
  BY <1>1, <1>2 DEF ControlInv, PausedOnlySteps, Live

(* A batch's steps; a batch ends where it was called from. *)
LEMMA BatchMoves ==
    ASSUME ControlInv,
           \/ EmitSeed \/ BatchStart \/ TakeFile \/ AdvanceUnknown
           \/ \E v \in Verdicts : Advance(v)
           \/ Commit \/ KeepNew \/ KeepDone
           \/ Raise \/ RaisePastCeiling \/ PeriodicCheckpoint
    PROVE  Move
<1>1. CASE EmitSeed
  BY <1>1 DEF ControlInv, EmitSeed, Move, Wrote, Live, Fields
<1>2. CASE BatchStart
  BY <1>2 DEF ControlInv, BatchStart, Move, Live, Fields, disk
<1>3. CASE TakeFile
  BY <1>3 DEF ControlInv, TakeFile, Move, Wrote, Live, Fields
<1>4. CASE AdvanceUnknown
  BY <1>4 DEF ControlInv, AdvanceUnknown, Move, Live, Fields, disk
<1>5. ASSUME NEW v \in Verdicts, Advance(v)
      PROVE  Move
  <2>1. CASE drv' = [Advanced(v) EXCEPT !.seq = @ + 1]
    BY <1>5, <2>1 DEF ControlInv, Advance, Advanced, Move, Live, Fields
  <2>2. CASE drv' = Advanced(v)
    BY <1>5, <2>2 DEF ControlInv, Advance, Advanced, Move, Live, Fields
  <2> QED
    BY <1>5, <2>1, <2>2 DEF Advance
<1>6. CASE Commit
  BY <1>6 DEF ControlInv, Commit, Move, Wrote, Live, Fields
<1>7. CASE KeepNew
  BY <1>7 DEF ControlInv, KeepNew, Move, Wrote, Live, Fields
<1>8. CASE KeepDone
  BY <1>8 DEF ControlInv, KeepDone, Move, At, Caller, Live, Fields, disk
<1>9. CASE Raise
  BY <1>9 DEF ControlInv, Raise, Move, Wrote, Live, Fields
<1>10. CASE RaisePastCeiling
  BY <1>10 DEF ControlInv, RaisePastCeiling, Move, Live, Fields, disk
<1>11. CASE PeriodicCheckpoint
  BY <1>11 DEF ControlInv, PeriodicCheckpoint, Move, Caller, Live, Fields
<1> QED
  BY <1>1, <1>2, <1>3, <1>4, <1>5, <1>6, <1>7, <1>8, <1>9, <1>10, <1>11

(* Closing a level, faulting and ending. *)
LEMMA EndMoves ==
    ASSUME ControlInv,
           \/ Close \/ Fault \/ EndCheckpoint \/ EmitEnd
    PROVE  Move
<1>1. CASE NextLevel
  BY <1>1 DEF ControlInv, NextLevel, Move, Wrote, Live, Fields
<1>2. CASE LevelRejected
  BY <1>2 DEF ControlInv, LevelRejected, Move, Wrote, Live, Fields
<1>3. CASE Finish
  BY <1>3 DEF ControlInv, Finish, Move, Wrote, Live, Fields
<1>4. ASSUME NEW code \in Faults, AdvanceFault(code)
      PROVE  Move
  BY <1>4 DEF ControlInv, AdvanceFault, Move, Live, Fields, disk
<1>5. ASSUME NEW code \in Faults, KeepFault(code)
      PROVE  Move
  BY <1>5 DEF ControlInv, KeepFault, Move, Live, Fields, disk
<1>6. ASSUME NEW code \in Faults, ChainFault(code)
      PROVE  Move
  BY <1>6 DEF ControlInv, ChainFault, Move, At, Live, Fields, disk
<1>7. ASSUME NEW code \in Faults, FinishFault(code)
      PROVE  Move
  BY <1>7 DEF ControlInv, FinishFault, Move, Live, Fields, disk
<1>8. CASE EndCheckpoint
  BY <1>8 DEF ControlInv, EndCheckpoint, Move, Live, Fields
<1>9. CASE EmitEnd
  BY <1>9 DEF ControlInv, EmitEnd, Move, Wrote, Caller, Live, Fields
<1> QED
  BY <1>1, <1>2, <1>3, <1>4, <1>5, <1>6, <1>7, <1>8, <1>9 DEF Close, Fault

(* The request served is the first that acks.jsonl does not answer. *)
LEMMA ServingNext ==
    ASSUME ControlInv, NEW i, NEW a, Serving(i, a)
    PROVE  /\ DOMAIN drv = Fields /\ ReqInPlace /\ Len(acks) \in Nat
           /\ i = Len(acks) + 1 /\ i \in 1..Len(requests)
           /\ drv.pc = "control" /\ drv.req = 0
<1>1. DOMAIN drv = Fields /\ ReqInPlace /\ drv.pc = "control" /\ drv.req = 0
  BY DEF ControlInv, Serving, Live, ReqInPlace
<1>2. Len(acks) \in Nat /\ Len(requests) \in Nat
  BY DEF ControlInv, AcksCount, IsSeq
<1>3. Unanswered = (1..drv.limit) \ (1..Len(acks)) /\ drv.limit \in 0..Len(requests)
  BY <1>1 DEF Unanswered, ReqInPlace
<1>4. PICK u \in Unanswered : TRUE
  BY DEF Serving
<1>5. u \in Int /\ Len(acks) < u /\ u <= drv.limit
  BY <1>2, <1>3, <1>4
<1>6. /\ Len(acks) + 1 \in Unanswered
      /\ \A y \in Unanswered : Len(acks) + 1 <= y
  BY <1>2, <1>3, <1>5
<1>7. i = Min(Unanswered)
  BY DEF Serving
<1>8. i \in Unanswered /\ \A y \in Unanswered : i <= y
  BY <1>6, <1>7 DEF Min
<1>9. i = Len(acks) + 1
  BY <1>2, <1>3, <1>6, <1>8
<1> QED
  BY <1>1, <1>2, <1>3, <1>8, <1>9

(* A request is taken up, and answered as soon as its work is done. *)
LEMMA TakenUp ==
    ASSUME ControlInv, NEW i, NEW a, Serving(i, a),
           UNCHANGED <<requests, acks>>,
           DOMAIN drv' = Fields, drv'.acked = drv.acked, drv'.limit = drv.limit,
           drv'.req = i, drv'.pc \in {"ack", "end", "batch"},
           drv'.pc = "batch" => requests[i].action = "step"
    PROVE  ControlInv'
<1>1. /\ ReqInPlace /\ i = Len(acks) + 1 /\ Len(acks) \in Nat /\ i \in 1..Len(requests)
  BY ServingNext
<1>2. AcksCount'
  BY DEF ControlInv, AcksCount, IsSeq
<1>3. ReqInPlace'
  BY <1>1 DEF ReqInPlace
<1>4. PausedOnlySteps'
  BY <1>1 DEF PausedOnlySteps
<1> QED
  BY <1>2, <1>3, <1>4 DEF ControlInv

LEMMA ApplyInv ==
    ASSUME ControlInv, NEW i \in 1..Len(requests),
           \/ ApplyAfterEnd(i) \/ ApplyPause(i) \/ ApplyResume(i) \/ ApplyCheckpoint(i)
           \/ ApplyStep(i) \/ ApplyStop(i) \/ ApplyGrowCase(i)
    PROVE  ControlInv'
<1>1. CASE ApplyAfterEnd(i)
  <2>1. PICK a \in Actions : Serving(i, a)
    BY <1>1 DEF ApplyAfterEnd
  <2>2. DOMAIN drv = Fields
    BY <2>1, ServingNext
  <2> QED
    BY <1>1, <2>1, <2>2, TakenUp DEF ApplyAfterEnd, Reply, Fields, disk
<1>2. CASE ApplyPause(i)
  <2>1. Serving(i, "pause") /\ DOMAIN drv = Fields
    BY <1>2, ServingNext DEF ApplyPause
  <2> QED
    BY <1>2, <2>1, TakenUp DEF ApplyPause, Reply, Fields
<1>3. CASE ApplyResume(i)
  <2>1. Serving(i, "resume") /\ DOMAIN drv = Fields
    BY <1>3, ServingNext DEF ApplyResume
  <2> QED
    BY <1>3, <2>1, TakenUp DEF ApplyResume, Reply, Fields, disk
<1>4. CASE ApplyCheckpoint(i)
  <2>1. Serving(i, "checkpoint") /\ DOMAIN drv = Fields
    BY <1>4, ServingNext DEF ApplyCheckpoint
  <2> QED
    BY <1>4, <2>1, TakenUp DEF ApplyCheckpoint, Reply, Fields
<1>5. CASE ApplyStep(i)
  <2>1. Serving(i, "step") /\ DOMAIN drv = Fields /\ requests[i].action = "step"
    BY <1>5, ServingNext DEF ApplyStep, Serving
  <2>2. CASE drv' = [Reply(i, "applied") EXCEPT !.pc = "batch"]
    BY <1>5, <2>1, <2>2, TakenUp DEF ApplyStep, Reply, Fields, disk
  <2>3. CASE drv' = Reply(i, "refused")
    BY <1>5, <2>1, <2>3, TakenUp DEF ApplyStep, Reply, Fields, disk
  <2> QED
    BY <1>5, <2>2, <2>3 DEF ApplyStep
<1>6. CASE ApplyStop(i)
  <2>1. Serving(i, "stop") /\ DOMAIN drv = Fields
    BY <1>6, ServingNext DEF ApplyStop
  <2> QED
    BY <1>6, <2>1, TakenUp DEF ApplyStop, Reply, Fields, disk
<1>7. CASE ApplyGrowCase(i)
  <2>1. Serving(i, "grow_case") /\ DOMAIN drv = Fields
    BY <1>7, ServingNext DEF ApplyGrowCase
  <2>2. CASE drv' = Reply(i, "refused")
    BY <1>7, <2>1, <2>2, TakenUp DEF ApplyGrowCase, Reply, Fields
  <2>3. CASE drv' = [Reply(i, "applied") EXCEPT !.seq = @ + 1,
                         !.hist = Append(@, Grew(requests[i].arg))]
    BY <1>7, <2>1, <2>3, TakenUp DEF ApplyGrowCase, Reply, Fields
  <2> QED
    BY <1>7, <2>2, <2>3 DEF ApplyGrowCase
<1> QED
  BY <1>1, <1>2, <1>3, <1>4, <1>5, <1>6, <1>7

LEMMA PollInv == ASSUME ControlInv, Poll PROVE ControlInv'
<1>1. DOMAIN drv = Fields /\ ReqInPlace /\ AcksCount /\ Len(requests) \in Nat
  BY DEF ControlInv, Poll, Live, AcksCount, IsSeq
<1>2. /\ drv' = [drv EXCEPT !.pc = "control", !.limit = Len(requests)]
      /\ UNCHANGED <<requests, acks>> /\ drv.pc = "poll"
  BY DEF Poll, disk
<1>3. AcksCount'
  BY <1>1, <1>2 DEF AcksCount, IsSeq
<1>4. DOMAIN drv' = Fields /\ ReqInPlace'
  BY <1>1, <1>2 DEF ReqInPlace, Fields
<1>5. PausedOnlySteps'
  BY <1>1, <1>2 DEF PausedOnlySteps, Fields
<1> QED
  BY <1>3, <1>4, <1>5 DEF ControlInv

(* An answer: one more line, for the request the driver was at. *)
LEMMA AckInv == ASSUME ControlInv, Ack PROVE ControlInv'
<1>1. /\ DOMAIN drv = Fields /\ ReqInPlace /\ AcksCount
      /\ Len(requests) \in Nat /\ Len(acks) \in Nat /\ drv.req = Len(acks) + 1
  BY DEF ControlInv, Ack, Live, AcksCount, IsSeq, ReqInPlace
<1>2. /\ requests' = requests
      /\ acks' = Append(acks, [req |-> drv.req, outcome |-> drv.reply, batch |-> Batch])
      /\ drv' = [drv EXCEPT !.pc = "control", !.acked = @ \cup {drv.req}, !.req = 0]
  BY DEF Ack
<1>3. /\ IsSeq(acks') /\ Len(acks') = Len(acks) + 1
      /\ acks'[Len(acks) + 1].req = drv.req
      /\ \A i \in 1..Len(acks) : acks'[i] = acks[i]
  <2>1. IsSeq(acks)
    BY <1>1 DEF AcksCount
  <2> QED
    BY <1>2, <2>1, Appended
<1>4. AcksCount'
  <2>1. IsSeq(requests')
    BY <1>1, <1>2 DEF AcksCount, IsSeq
  <2>2. \A i \in 1..Len(acks') : acks'[i].req = i
    BY <1>1, <1>3 DEF AcksCount
  <2> QED
    BY <1>3, <2>1, <2>2 DEF AcksCount
<1>5. DOMAIN drv' = Fields /\ ReqInPlace'
  <2>1. drv'.acked = 1..Len(acks')
    BY <1>1, <1>2, <1>3 DEF ReqInPlace, Fields
  <2> QED
    BY <1>1, <1>2, <2>1 DEF ReqInPlace, Fields
<1>6. PausedOnlySteps'
  BY <1>1, <1>2 DEF PausedOnlySteps, Fields
<1> QED
  BY <1>4, <1>5, <1>6 DEF ControlInv

(* The only way to a batch without a request: not paused. *)
LEMMA ControlDoneInv == ASSUME ControlInv, ControlDone PROVE ControlInv'
<1>1. /\ DOMAIN drv = Fields /\ ReqInPlace /\ AcksCount /\ drv.pc = "control" /\ drv.req = 0
      /\ UNCHANGED <<requests, acks>>
  BY DEF ControlInv, ControlDone, Live, ReqInPlace, disk
<1>2. CASE drv' = Off
  BY <1>1, <1>2, OffInv
<1>3. CASE drv' = At(IF drv.paused THEN "poll" ELSE "batch")
  <2>1. /\ DOMAIN drv' = Fields
        /\ drv'.acked = drv.acked /\ drv'.limit = drv.limit /\ drv'.req = 0
        /\ drv'.pc \in {"poll", "batch"}
        /\ drv'.paused => drv'.pc = "poll"
    BY <1>1, <1>3 DEF At, Fields
  <2>2. AcksCount'
    BY <1>1 DEF AcksCount, IsSeq
  <2>3. ReqInPlace'
    BY <1>1, <2>1 DEF ReqInPlace
  <2>4. PausedOnlySteps'
    BY <2>1 DEF PausedOnlySteps
  <2> QED
    BY <2>1, <2>2, <2>3, <2>4 DEF ControlInv
<1> QED
  BY <1>2, <1>3 DEF ControlDone

(* A driver that opens takes its answered requests from acks.jsonl. *)
LEMMA OpenedInPlace ==
    ASSUME ControlInv, NEW j, NEW h, NEW last, UNCHANGED <<requests, acks>>,
           DOMAIN drv' = DOMAIN Opened(j, h, last),
           \A f \in {"paused", "acked", "req", "limit"} : drv'[f] = Opened(j, h, last)[f],
           drv'.pc \in {"seed", "poll"}
    PROVE  ControlInv'
<1>1. AcksCount /\ Len(acks) \in Nat /\ Len(requests) \in Nat
  BY DEF ControlInv, AcksCount, IsSeq
<1>2. Answered = 1..Len(acks)
  BY <1>1 DEF Answered, AcksCount
<1>3. /\ DOMAIN drv' = Fields
      /\ drv'.paused = FALSE /\ drv'.acked = Answered /\ drv'.req = 0 /\ drv'.limit = 0
  BY DEF Opened, Fields
<1>4. AcksCount'
  BY <1>1 DEF AcksCount, IsSeq
<1>5. ReqInPlace'
  BY <1>1, <1>2, <1>3 DEF ReqInPlace
<1>6. PausedOnlySteps'
  BY DEF PausedOnlySteps
<1> QED
  BY <1>3, <1>4, <1>5, <1>6 DEF ControlInv

LEMMA OpenInv == ASSUME ControlInv, Open PROVE ControlInv'
<1>1. CASE OpenFresh
  <2>1. /\ drv' = [Opened(journal', <<>>, MaxBatches + 1) EXCEPT !.pc = "seed"]
        /\ UNCHANGED <<requests, acks>>
    BY <1>1 DEF OpenFresh
  <2>2. /\ DOMAIN drv' = DOMAIN Opened(journal', <<>>, MaxBatches + 1)
        /\ \A f \in {"paused", "acked", "req", "limit"} :
              drv'[f] = Opened(journal', <<>>, MaxBatches + 1)[f]
        /\ drv'.pc = "seed"
    BY <2>1 DEF Opened
  <2> QED
    BY <2>1, <2>2, OpenedInPlace
<1>2. CASE OpenResume
  <2> DEFINE kept == KeptAt(journal, RestartAt)
             o == Opened(kept, RestoredHistory(RestartAt, kept), LastCheckpoint(RestartAt))
  <2>1. /\ drv' = [o EXCEPT !.deferred = Deferred(journal, RestartAt)]
        /\ UNCHANGED <<requests, acks>>
    BY <1>2 DEF OpenResume
  <2>2. /\ DOMAIN drv' = DOMAIN o
        /\ \A f \in {"paused", "acked", "req", "limit"} : drv'[f] = o[f]
        /\ drv'.pc = "poll"
    BY <2>1 DEF Opened
  <2> QED
    BY <2>1, <2>2, OpenedInPlace
<1>3. CASE OpenRefused \/ OpenFault
  <2>1. UNCHANGED <<requests, acks, drv>>
    BY <1>3 DEF OpenRefused, OpenFault
  <2> QED
    BY <2>1 DEF ControlInv, AcksCount, IsSeq, ReqInPlace, PausedOnlySteps, Live
<1> QED
  BY <1>1, <1>2, <1>3 DEF Open

(* A request is only ever added behind those there are. *)
LEMMA SendInv == ASSUME ControlInv, NEW a, NEW c, SendRequest(a, c) PROVE ControlInv'
<1>1. /\ requests' = Append(requests, [action |-> a, arg |-> c])
      /\ UNCHANGED <<acks, drv>>
  BY DEF SendRequest, Viewer
<1>2. /\ IsSeq(requests') /\ Len(requests) \in Nat /\ Len(requests') = Len(requests) + 1
      /\ \A i \in 1..Len(requests) : requests'[i] = requests[i]
  <2>1. IsSeq(requests)
    BY DEF ControlInv, AcksCount
  <2> QED
    BY <1>1, <2>1, Appended
<1>3. AcksCount'
  BY <1>1, <1>2 DEF ControlInv, AcksCount, IsSeq
<1>4. Live => DOMAIN drv' = Fields /\ ReqInPlace'
  BY <1>1, <1>2 DEF ControlInv, ReqInPlace
<1>5. PausedOnlySteps'
  <2>1. SUFFICES ASSUME Live, drv.paused, drv.pc \in {"batch", "inbox", "commit"}
                 PROVE  drv.req # 0 /\ requests'[drv.req].action = "step"
    BY <1>1 DEF PausedOnlySteps, Live
  <2>2. drv.req # 0 /\ requests[drv.req].action = "step" /\ drv.req \in 0..Len(requests)
    BY <2>1 DEF ControlInv, PausedOnlySteps, ReqInPlace
  <2> QED
    BY <1>2, <2>2
<1> QED
  BY <1>1, <1>3, <1>4, <1>5 DEF ControlInv, Live

(* A fork starts with no request and no answer, and no driver. *)
LEMMA ForkInv == ASSUME ControlInv, NEW k \in ckpts, Fork(k) PROVE ControlInv'
<1>1. requests' = <<>> /\ acks' = <<>> /\ ~Live'
  BY DEF Fork, Live, Off
<1>2. IsSeq(requests') /\ IsSeq(acks') /\ Len(acks') = 0
  BY <1>1, NoneYet
<1>3. AcksCount'
  BY <1>2 DEF AcksCount
<1> QED
  BY <1>1, <1>3 DEF ControlInv, PausedOnlySteps, Live

LEMMA InitControl == ASSUME Init PROVE ControlInv
<1>1. requests = <<>> /\ acks = <<>> /\ drv.pc = "off"
  BY DEF Init, Off
<1>2. IsSeq(requests) /\ IsSeq(acks) /\ Len(acks) = 0
  BY <1>1, NoneYet
<1>3. AcksCount
  BY <1>2 DEF AcksCount
<1> QED
  BY <1>1, <1>3 DEF ControlInv, PausedOnlySteps, Live

LEMMA StepControl == ASSUME ControlInv, [Next]_vars PROVE ControlInv'
<1>1. CASE Open
  BY <1>1, OpenInv
<1>2. CASE EmitSeed \/ RunBatch
  BY <1>2, BatchMoves, MoveInv DEF RunBatch
<1>3. CASE Close \/ Fault
  BY <1>3, EndMoves, MoveInv
<1>4. CASE End
  <2>1. CASE EscapedFault
    BY <2>1, OffInv DEF EscapedFault
  <2> QED
    BY <1>4, <2>1, EndMoves, MoveInv DEF End
<1>5. CASE Control
  BY <1>5, PollInv, AckInv, ControlDoneInv, ApplyInv DEF Control
<1>6. CASE Environment
  <2>1. CASE Crash
    BY <2>1, OffInv DEF Crash, disk
  <2>2. ASSUME NEW f \in Files, DropFile(f)
        PROVE  ControlInv'
    <3>1. UNCHANGED <<requests, acks, drv>>
      BY <2>2 DEF DropFile, Viewer
    <3> QED
      BY <3>1 DEF ControlInv, AcksCount, IsSeq, ReqInPlace, PausedOnlySteps, Live
  <2> QED
    BY <1>6, <2>1, <2>2, SendInv, ForkInv DEF Environment
<1>7. CASE UNCHANGED vars
  BY <1>7 DEF vars, ControlInv, AcksCount, IsSeq, ReqInPlace, PausedOnlySteps, Live
<1> QED
  BY <1>1, <1>2, <1>3, <1>4, <1>5, <1>6, <1>7 DEF Next, DriverStep

(* The four counts agree in every reachable state. *)
THEOREM ControlInvariant == Spec => []ControlInv
<1>1. Init => ControlInv
  BY InitControl
<1>2. ControlInv /\ [Next]_vars => ControlInv'
  BY StepControl
<1> QED
  BY <1>1, <1>2, PTL DEF Spec

(* apply and poll_control: every request is answered at most once and in
   file order, whatever was killed between a request's effect and its line
   in acks.jsonl. *)
THEOREM RequestsInOrder == Spec => []AnsweredInOrder
<1>1. ControlInv => AnsweredInOrder
  <2> SUFFICES ASSUME ControlInv, NEW i \in 1..Len(acks), NEW k \in 1..Len(acks), i < k
               PROVE  acks[i].req < acks[k].req
    BY DEF AnsweredInOrder
  <2> QED
    BY DEF ControlInv, AcksCount
<1> QED
  BY <1>1, ControlInvariant, PTL

(* run and apply: a run that is paused goes into a batch, and commits one,
   only in the handling of a step request. *)
THEOREM PausedMovesByStep == Spec => []PausedOnlySteps
<1>1. ControlInv => PausedOnlySteps
  BY DEF ControlInv
<1> QED
  BY <1>1, ControlInvariant, PTL

-----------------------------------------------------------------------------
(* The journal *)

(* The history of checkpoint k leads from the base of the level in force at
   its batch to its batch - or a level began at its batch. *)
Saved(j, k) ==
    /\ k.batch \in Nat /\ k.batch <= LastBatch(j) /\ IsSeq(k.hist)
    /\ \/ /\ \A i \in 1..Len(j) : j[i].t = "level_next" => j[i].batch > k.batch
          /\ Batches(k.hist) = k.batch
       \/ \E i \in 1..Len(j) :
             /\ j[i].t = "level_next" /\ j[i].batch <= k.batch
             /\ \A n \in 1..Len(j) : j[n].t = "level_next" /\ j[n].batch <= k.batch => n <= i
             /\ j[i].batch = k.batch \/ j[i].batch + Batches(k.hist) = k.batch

(* Where in its loop a driver whose run has ended can be, and one that has
   journaled the level event. *)
AfterEnd == {"poll", "control", "ack"}
Closing == {"end", "emitEnd"}

(* What the driver holds is what the journal says. *)
AtJournal ==
    /\ journal # <<>> /\ drv.seq = Len(journal)
    /\ drv.base = Base(journal) /\ drv.level = Level(journal)
    /\ drv.base \in Nat /\ drv.level \in Nat \ {0} /\ IsSeq(drv.hist)
    /\ Batch = IF drv.pc = "commit" THEN LastBatch(journal) + 1 ELSE LastBatch(journal)
    /\ \A i \in 1..Len(journal) : journal[i].batch <= Batch
    /\ drv.pc = "seed" => Batch = 0
    /\ drv.taken = Taken(journal)
    /\ drv.pc = "inbox" => drv.queue \subseteq Files \ drv.taken
    /\ drv.ended \in BOOLEAN
    /\ drv.ended => drv.pc \in AfterEnd
    /\ ~drv.ended => \A i \in 1..Len(journal) : journal[i].t # "end"
    /\ HasLevel(journal) => drv.pc \in Closing \/ drv.ended

(* The first line is the start, of batch 0. *)
Starts(j) == j # <<>> => Len(j) # 0 /\ j[1].t = "start" /\ j[1].batch = 0

RunInv ==
    /\ InOrder(journal) /\ Starts(journal)
    /\ \A k \in ckpts : Saved(journal, k)
    /\ Live => AtJournal
    /\ inbox \subseteq Files /\ forks \in Nat

(* What holds also after an unknown verdict: what was taken, and where the
   driver of a run that closed or ended is in its loop. *)
Tracks ==
    /\ drv.taken = Taken(journal)
    /\ drv.pc = "inbox" => drv.queue \subseteq Files \ drv.taken
    /\ drv.ended \in BOOLEAN
    /\ drv.ended => drv.pc \in AfterEnd
    /\ HasLevel(journal) => drv.pc \in Closing \/ drv.ended

KeepsInv ==
    /\ IsSeq(journal) /\ FilesOnce(journal)
    /\ Live => Tracks
    /\ inbox \subseteq Files /\ forks \in Nat

LEMMA RunKeeps == ASSUME RunInv PROVE KeepsInv
BY DEF RunInv, InOrder, Counted, AtJournal, KeepsInv, Tracks

(* What a step may do to the journal. *)
JournalStep ==
    \/ journal' = journal
    \/ \E e : /\ Fits(journal, e) /\ journal' = Append(journal, e)
              /\ HasLevel(journal) => e.t = "end"
    \/ CutTo(journal, RestartAt, journal') /\ ~HasLevel(journal)
    \/ forks' = forks + 1

(* The level in force after an append. *)
LEMMA LevelAppended ==
    ASSUME NEW j, NEW e, IsSeq(j)
    PROVE  LET t == Append(j, e)
           IN  /\ e.t = "level_next" => Level(t) = e.val /\ Base(t) = e.batch
               /\ e.t # "level_next" => Level(t) = Level(j) /\ Base(t) = Base(j)
<1> DEFINE t == Append(j, e)
           n == Len(j) + 1
<1>1. /\ IsSeq(t) /\ Len(j) \in Nat /\ Len(t) = n /\ t[n] = e
      /\ \A i \in 1..Len(j) : t[i] = j[i]
  BY Appended
<1> HIDE DEF t
<1>2. \A i \in 1..Len(t) : i = n \/ i \in 1..Len(j)
  BY <1>1
<1>3. n \in 1..Len(t) /\ \A i \in 1..Len(j) : i \in 1..Len(t) /\ i < n
  BY <1>1
<1>4. ASSUME e.t = "level_next"
      PROVE  Level(t) = e.val /\ Base(t) = e.batch
  <2>1. LevelIndex(t) = n /\ Level(t) = t[LevelIndex(t)].val /\ Base(t) = t[LevelIndex(t)].batch
    BY <1>1, <1>2, <1>3, <1>4, LevelIs
  <2> QED
    BY <1>1, <2>1
<1>5. ASSUME e.t # "level_next"
      PROVE  Level(t) = Level(j) /\ Base(t) = Base(j)
  <2>1. CASE \A i \in 1..Len(j) : j[i].t # "level_next"
    <3>1. \A i \in 1..Len(t) : t[i].t # "level_next"
      BY <1>1, <1>2, <1>5, <2>1
    <3>2. Level(t) = 1 /\ Base(t) = 0
      BY <1>1, <3>1, LevelIs
    <3>3. Level(j) = 1 /\ Base(j) = 0
      BY <2>1, LevelIs
    <3> QED
      BY <3>2, <3>3
  <2>2. CASE \E i \in 1..Len(j) : j[i].t = "level_next"
    <3>1. /\ LevelIndex(j) \in 1..Len(j) /\ j[LevelIndex(j)].t = "level_next"
          /\ Level(j) = j[LevelIndex(j)].val /\ Base(j) = j[LevelIndex(j)].batch
          /\ \A k \in 1..Len(j) : j[k].t = "level_next" => k <= LevelIndex(j)
      BY <2>2, LevelIs
    <3>2. /\ LevelIndex(t) \in 1..Len(t) /\ t[LevelIndex(t)].t = "level_next"
          /\ Level(t) = t[LevelIndex(t)].val /\ Base(t) = t[LevelIndex(t)].batch
          /\ \A k \in 1..Len(t) : t[k].t = "level_next" => k <= LevelIndex(t)
      BY <1>1, <1>3, <3>1, LevelIs
    <3>3. LevelIndex(t) \in 1..Len(j)
      BY <1>1, <1>2, <1>5, <3>2
    <3>4. LevelIndex(t) = LevelIndex(j)
      BY <1>1, <1>3, <3>1, <3>2, <3>3
    <3> QED
      BY <1>1, <3>1, <3>2, <3>4
  <2> QED
    BY <2>1, <2>2
<1> QED
  BY <1>4, <1>5 DEF t

(* A checkpoint stays good under an append that fits ... *)
LEMMA SavedAppended ==
    ASSUME NEW j, NEW e, InOrder(j), Fits(j, e), NEW k, Saved(j, k)
    PROVE  Saved(Append(j, e), k)
<1> DEFINE t == Append(j, e)
           n == Len(j) + 1
<1>1. /\ IsSeq(t) /\ Len(j) \in Nat /\ Len(t) = n /\ t[n] = e
      /\ \A i \in 1..Len(j) : t[i] = j[i]
  BY Appended DEF InOrder, Counted
<1>2. /\ LastBatch(t) = IF IsBatch(e) THEN e.batch ELSE LastBatch(j)
      /\ LastBatch(j) \in Nat
  BY AppendInOrder, LastBatchTops DEF InOrder
<1> HIDE DEF t
<1>3. \A i \in 1..Len(t) : i = n \/ i \in 1..Len(j)
  BY <1>1
<1>4. n \in 1..Len(t) /\ \A i \in 1..Len(j) : i \in 1..Len(t) /\ i < n
  BY <1>1
<1>5. k.batch \in Nat /\ k.batch <= LastBatch(j) /\ k.batch <= LastBatch(t) /\ IsSeq(k.hist)
  BY <1>2 DEF Saved, Fits
<1>6. CASE e.t = "level_next" /\ e.batch <= k.batch
  <2>1. e.batch = k.batch
    <3>1. LastBatch(j) = 0 \/ \E i \in 1..Len(j) : LastBatch(j) = j[i].batch
      BY LastBatchIs DEF InOrder, Counted
    <3>2. LastBatch(j) <= e.batch
      BY <1>6, <3>1 DEF Fits
    <3> QED
      BY <1>2, <1>5, <1>6, <3>2 DEF Fits
  <2> QED
    BY <1>1, <1>3, <1>4, <1>5, <1>6, <2>1 DEF Saved, t
<1>7. CASE ~(e.t = "level_next" /\ e.batch <= k.batch)
  <2>1. CASE /\ \A i \in 1..Len(j) : j[i].t = "level_next" => j[i].batch > k.batch
             /\ Batches(k.hist) = k.batch
    <3>1. \A i \in 1..Len(t) : t[i].t = "level_next" => t[i].batch > k.batch
      BY <1>1, <1>3, <1>5, <1>7, <2>1 DEF Fits
    <3> QED
      BY <1>5, <2>1, <3>1 DEF Saved, t
  <2>2. ASSUME NEW i \in 1..Len(j),
               j[i].t = "level_next", j[i].batch <= k.batch,
               \A m \in 1..Len(j) : j[m].t = "level_next" /\ j[m].batch <= k.batch => m <= i,
               j[i].batch = k.batch \/ j[i].batch + Batches(k.hist) = k.batch
        PROVE  Saved(t, k)
    <3>1. \A m \in 1..Len(t) : t[m].t = "level_next" /\ t[m].batch <= k.batch => m <= i
      BY <1>1, <1>3, <1>7, <2>2
    <3>2. i \in 1..Len(t) /\ t[i] = j[i]
      BY <1>1, <1>4
    <3> QED
      BY <1>5, <2>2, <3>1, <3>2 DEF Saved
  <2> QED
    BY <2>1, <2>2 DEF Saved, t
<1> QED
  BY <1>6, <1>7

(* ... and under a cut at its batch or later. *)
LEMMA SavedCut ==
    ASSUME NEW j, InOrder(j), NEW c \in Nat, c <= LastBatch(j), NEW t, CutTo(j, c, t),
           NEW k, Saved(j, k), k.batch <= c
    PROVE  Saved(t, k)
<1>1. /\ Len(j) \in Nat /\ Len(t) \in Nat
      /\ \A i \in 1..Len(t) : i \in 1..Len(j) /\ t[i] = j[i]
      /\ \A i \in 1..Len(j) : j[i].batch \in Nat
  <2>1. Len(j) \in Nat /\ \A i \in 1..Len(j) : j[i].batch \in Nat
    BY DEF InOrder, Counted, IsSeq
  <2> QED
    BY <2>1 DEF CutTo, IsSeq
<1>2. LastBatch(t) = c
  BY CutInOrder
<1>3. k.batch \in Nat /\ IsSeq(k.hist)
  BY DEF Saved
<1>4. CASE /\ \A i \in 1..Len(j) : j[i].t = "level_next" => j[i].batch > k.batch
           /\ Batches(k.hist) = k.batch
  BY <1>1, <1>2, <1>3, <1>4 DEF Saved
<1>5. ASSUME NEW i \in 1..Len(j),
             j[i].t = "level_next", j[i].batch <= k.batch,
             \A m \in 1..Len(j) : j[m].t = "level_next" /\ j[m].batch <= k.batch => m <= i,
             j[i].batch = k.batch \/ j[i].batch + Batches(k.hist) = k.batch
      PROVE  Saved(t, k)
  <2>1. i \in 1..Len(t)
    BY <1>1, <1>3, <1>5 DEF CutTo
  <2> QED
    BY <1>1, <1>2, <1>3, <1>5, <2>1 DEF Saved
<1> QED
  BY <1>4, <1>5 DEF Saved

(* The checkpoint a driver writes is good: it is at the journal's batch. *)
LEMMA CheckpointSaved ==
    ASSUME RunInv, Live, drv.pc # "commit", Checkpoint
    PROVE  \A k \in ckpts' : Saved(journal, k)
<1> DEFINE new == [batch |-> Batch, level |-> drv.level, hist |-> drv.hist]
<1>1. \A k \in ckpts' : k \in ckpts \/ k = new
  BY DEF Checkpoint, Newest, CheckpointAt
<1>2. Saved(journal, new)
  <2>1. /\ AtJournal /\ IsSeq(journal) /\ Counted(journal)
        /\ Batch = LastBatch(journal) /\ Batch \in Nat
    BY LastBatchTops DEF RunInv, InOrder, Counted, AtJournal
  <2>2. new.batch = Batch /\ new.hist = drv.hist
    OBVIOUS
  <2>3. Batch = drv.base + Batches(drv.hist) /\ Batches(drv.hist) \in Nat
    BY <2>1, BatchesOf DEF Batch, AtJournal
  <2>4. \A i \in 1..Len(journal) : journal[i].batch <= Batch /\ journal[i].batch \in Nat
    BY <2>1 DEF AtJournal, Counted
  <2> HIDE DEF new
  <2>5. CASE (\A i \in 1..Len(journal) : journal[i].t # "level_next") /\ Base(journal) = 0
    BY <2>1, <2>2, <2>3, <2>5 DEF Saved, AtJournal
  <2>6. CASE /\ LevelIndex(journal) \in 1..Len(journal)
             /\ journal[LevelIndex(journal)].t = "level_next"
             /\ Base(journal) = journal[LevelIndex(journal)].batch
             /\ \A k \in 1..Len(journal) :
                   journal[k].t = "level_next" => k <= LevelIndex(journal)
    BY <2>1, <2>2, <2>3, <2>4, <2>6 DEF Saved, AtJournal
  <2> QED
    BY <2>1, <2>5, <2>6, LevelIs
<1> HIDE DEF new
<1> QED
  BY <1>1, <1>2 DEF RunInv

(* Steps that write no journal line: the driver stays at its journal. *)
Quiet ==
    /\ Live /\ drv.pc # "commit"
    /\ UNCHANGED <<journal, inbox, forks>>
    /\ UNCHANGED ckpts \/ Checkpoint
    /\ drv'.base = drv.base /\ drv'.hist = drv.hist /\ drv'.level = drv.level
    /\ drv'.seq = drv.seq /\ drv'.taken = drv.taken /\ drv'.ended = drv.ended
    /\ drv'.pc \notin {"commit", "seed"}
    /\ drv'.pc = "inbox" => drv'.queue \subseteq Files \ drv.taken
    /\ drv.ended => drv'.pc \in AfterEnd
    /\ drv.pc \in Closing => drv'.pc \in Closing

LEMMA QuietInv == ASSUME RunInv, Quiet PROVE RunInv' /\ JournalStep
<1>1. AtJournal /\ UNCHANGED <<journal, inbox, forks>>
  BY DEF RunInv, Quiet
<1>2. \A k \in ckpts' : Saved(journal', k)
  <2>1. CASE UNCHANGED ckpts
    BY <1>1, <2>1 DEF RunInv
  <2>2. CASE Checkpoint
    BY <1>1, <2>2, CheckpointSaved DEF Quiet
  <2> QED
    BY <2>1, <2>2 DEF Quiet
<1>3. Batch' = Batch /\ drv.pc # "commit" /\ drv'.pc # "commit"
  BY DEF Quiet, Batch
<1>4. AtJournal'
  <2>1. /\ drv'.seq = Len(journal) /\ drv'.base = Base(journal) /\ drv'.level = Level(journal)
        /\ drv'.base \in Nat /\ drv'.level \in Nat \ {0} /\ IsSeq(drv'.hist)
        /\ drv'.taken = Taken(journal) /\ drv'.ended \in BOOLEAN
        /\ Batch' = LastBatch(journal)
    BY <1>1, <1>3 DEF AtJournal, Quiet
  <2>2. HasLevel(journal) => drv'.pc \in Closing \/ drv'.ended
    BY <1>1 DEF AtJournal, Quiet
  <2>3. ~drv'.ended => \A i \in 1..Len(journal) : journal[i].t # "end"
    BY <1>1 DEF AtJournal, Quiet
  <2> QED
    BY <1>1, <1>3, <2>1, <2>2, <2>3 DEF AtJournal, Quiet
<1> QED
  BY <1>1, <1>2, <1>4 DEF RunInv, JournalStep

LEMMA LeaveInv ==
    ASSUME RunInv, drv' = Off, UNCHANGED <<journal, ckpts, inbox, forks>>
    PROVE  RunInv' /\ JournalStep
<1>1. drv'.pc = "off"
  BY DEF Off
<1> QED
  BY <1>1 DEF RunInv, JournalStep, Live

(* The quiet steps, control first. *)
LEMMA QuietControl ==
    ASSUME KeepsInv, Live => DOMAIN drv = Fields, NEW i,
           \/ Poll \/ Ack
           \/ ApplyAfterEnd(i) \/ ApplyPause(i) \/ ApplyResume(i) \/ ApplyCheckpoint(i)
           \/ ApplyStep(i) \/ ApplyStop(i)
           \/ ApplyGrowCase(i) /\ UNCHANGED journal
           \/ ControlDone /\ drv' # Off
    PROVE  Quiet
<1>1. CASE Poll
  BY <1>1 DEF Poll, Quiet, Live, Fields, disk, AfterEnd, Closing
<1>2. CASE Ack
  BY <1>2 DEF Ack, Quiet, Live, Fields, disk, AfterEnd, Closing
<1>3. CASE ApplyAfterEnd(i)
  BY <1>3 DEF ApplyAfterEnd, Serving, Reply, Quiet, Live, Fields, disk, AfterEnd, Closing
<1>4. CASE ApplyPause(i)
  BY <1>4 DEF ApplyPause, Serving, Reply, Quiet, Live, Fields, disk, AfterEnd, Closing
<1>5. CASE ApplyResume(i)
  BY <1>5 DEF ApplyResume, Serving, Reply, Quiet, Live, Fields, disk, AfterEnd, Closing
<1>6. CASE ApplyCheckpoint(i)
  BY <1>6 DEF ApplyCheckpoint, Serving, Reply, Quiet, Live, Fields, disk, AfterEnd, Closing
<1>7. CASE ApplyStep(i)
  <2>1. CASE drv' = [Reply(i, "applied") EXCEPT !.pc = "batch"]
    BY <1>7, <2>1 DEF ApplyStep, Serving, Reply, Quiet, Live, Fields, disk, AfterEnd, Closing
  <2>2. CASE drv' = Reply(i, "refused")
    BY <1>7, <2>2 DEF ApplyStep, Serving, Reply, Quiet, Live, Fields, disk, AfterEnd, Closing
  <2> QED
    BY <1>7, <2>1, <2>2 DEF ApplyStep
<1>8. CASE ApplyStop(i)
  BY <1>8 DEF ApplyStop, Serving, Reply, Quiet, Live, Fields, disk, AfterEnd, Closing
<1>9. CASE ApplyGrowCase(i) /\ UNCHANGED journal
  <2>1. journal' # Append(journal, Event(drv.seq + 1, "steer", Batch, requests[i].arg))
    BY <1>9, Appended DEF KeepsInv
  <2>2. drv' = Reply(i, "refused")
    BY <1>9, <2>1 DEF ApplyGrowCase, Emit
  <2> QED
    BY <1>9, <2>2 DEF ApplyGrowCase, Serving, Reply, Quiet, Live, Fields, disk, AfterEnd, Closing
<1>10. CASE ControlDone /\ drv' # Off
  BY <1>10 DEF ControlDone, At, Quiet, Live, Fields, disk, AfterEnd, Closing
<1> QED
  BY <1>1, <1>2, <1>3, <1>4, <1>5, <1>6, <1>7, <1>8, <1>9, <1>10

LEMMA QuietBatch ==
    ASSUME KeepsInv, Live => DOMAIN drv = Fields,
           \/ BatchStart \/ KeepDone \/ RaisePastCeiling \/ PeriodicCheckpoint
           \/ Fault \/ EndCheckpoint
    PROVE  Quiet
<1>0. Live /\ drv.pc \notin AfterEnd => ~drv.ended
  BY DEF KeepsInv, Tracks
<1>1. CASE BatchStart
  <2>1. ~drv.ended
    BY <1>0, <1>1 DEF BatchStart, Live, AfterEnd
  <2>2. Ready \subseteq Files \ drv.taken
    BY DEF Ready, KeepsInv
  <2> QED
    BY <1>1, <2>1, <2>2 DEF BatchStart, Quiet, Live, Fields, disk, AfterEnd, Closing
<1>2. CASE KeepDone
  BY <1>0, <1>2 DEF KeepDone, At, Caller, Quiet, Live, Fields, disk, AfterEnd, Closing
<1>3. CASE RaisePastCeiling
  BY <1>0, <1>3 DEF RaisePastCeiling, Quiet, Live, Fields, disk, AfterEnd, Closing
<1>4. CASE PeriodicCheckpoint
  BY <1>0, <1>4 DEF PeriodicCheckpoint, Caller, Quiet, Live, Fields, disk, AfterEnd, Closing
<1>5. ASSUME NEW code \in Faults, AdvanceFault(code)
      PROVE  Quiet
  BY <1>0, <1>5 DEF AdvanceFault, Quiet, Live, Fields, disk, AfterEnd, Closing
<1>6. ASSUME NEW code \in Faults, KeepFault(code)
      PROVE  Quiet
  BY <1>0, <1>6 DEF KeepFault, Quiet, Live, Fields, disk, AfterEnd, Closing
<1>7. ASSUME NEW code \in Faults, ChainFault(code)
      PROVE  Quiet
  BY <1>0, <1>7 DEF ChainFault, At, Quiet, Live, Fields, disk, AfterEnd, Closing
<1>8. ASSUME NEW code \in Faults, FinishFault(code)
      PROVE  Quiet
  BY <1>0, <1>8 DEF FinishFault, Quiet, Live, Fields, disk, AfterEnd, Closing
<1>9. CASE EndCheckpoint
  BY <1>0, <1>9 DEF EndCheckpoint, Quiet, Live, Fields, disk, AfterEnd, Closing
<1> QED
  BY <1>1, <1>2, <1>3, <1>4, <1>5, <1>6, <1>7, <1>8, <1>9 DEF Fault

(* Steps that write one line: what it says and what the driver becomes. *)
Writes(e) ==
    /\ Live /\ UNCHANGED <<ckpts, inbox, forks>>
    /\ journal' = Append(journal, e) /\ drv'.seq = drv.seq + 1
    /\ IF e.t = "level_next" THEN drv'.base = e.batch /\ drv'.level = e.val
                             ELSE drv'.base = drv.base /\ drv'.level = drv.level
    /\ IsSeq(drv'.hist)
    /\ Batch' = IF drv'.pc = "commit" THEN LastBatch(journal') + 1 ELSE LastBatch(journal')
    /\ Batch <= Batch' /\ e.batch <= Batch'
    /\ drv'.taken = IF TakesFile(e) THEN drv.taken \cup {e.val} ELSE drv.taken
    /\ drv'.pc # "seed"
    /\ drv'.pc = "inbox" => drv'.queue \subseteq Files \ drv'.taken
    /\ drv'.ended \in BOOLEAN
    /\ drv'.ended <=> e.t = "end"
    /\ drv'.ended => drv'.pc \in AfterEnd
    /\ e.t = "level" => drv'.pc \in Closing
    /\ HasLevel(journal) => e.t = "end"

LEMMA WritesInv ==
    ASSUME RunInv, NEW e, Fits(journal, e), Writes(e)
    PROVE  RunInv' /\ JournalStep
<1> DEFINE n == Len(journal) + 1
<1>0. /\ AtJournal /\ InOrder(journal) /\ IsSeq(journal)
      /\ journal' = Append(journal, e) /\ UNCHANGED <<ckpts, inbox, forks>>
  BY DEF RunInv, Writes, InOrder, Counted
<1>1. /\ Len(journal) \in Nat /\ Len(journal') = n /\ journal'[n] = e /\ IsSeq(journal')
      /\ \A i \in 1..Len(journal) : journal'[i] = journal[i]
  BY <1>0, Appended
<1>2. \A i \in 1..Len(journal') : i = n \/ i \in 1..Len(journal)
  BY <1>1
<1>3. InOrder(journal')
  BY <1>0, AppendInOrder
<1>4. \A k \in ckpts' : Saved(journal', k)
  BY <1>0, SavedAppended DEF RunInv
<1>5. AtJournal'
  <2>1. journal' # <<>> /\ drv'.seq = Len(journal')
    <3>1. Len(journal') # 0
      BY <1>1
    <3> QED
      BY <1>0, <1>1, <3>1, NoneYet DEF AtJournal, Writes
  <2>2. /\ drv'.base = Base(journal') /\ drv'.level = Level(journal')
        /\ drv'.base \in Nat /\ drv'.level \in Nat \ {0} /\ IsSeq(drv'.hist)
    BY <1>0, LevelAppended DEF AtJournal, Writes, Fits
  <2>3. \A i \in 1..Len(journal') : journal'[i].batch <= Batch'
    <3>1. Batch \in Nat /\ Batch' \in Nat
      BY <1>0, <1>3, LastBatchTops DEF AtJournal, Writes, InOrder
    <3>2. \A i \in 1..Len(journal) : journal[i].batch <= Batch /\ journal[i].batch \in Nat
      BY <1>0 DEF AtJournal, InOrder, Counted
    <3> QED
      BY <1>1, <1>2, <3>1, <3>2 DEF Writes
  <2>4. drv'.taken = Taken(journal')
    <3>1. Taken(journal') = IF TakesFile(e) THEN Taken(journal) \cup {e.val} ELSE Taken(journal)
      <4>1. n \in 1..Len(journal') /\ \A i \in 1..Len(journal) : i \in 1..Len(journal')
        BY <1>1
      <4> QED
        BY <1>1, <1>2, <4>1 DEF Taken
    <3> QED
      BY <1>0, <3>1 DEF AtJournal, Writes
  <2>5. ~drv'.ended => \A i \in 1..Len(journal') : journal'[i].t # "end"
    BY <1>1, <1>2 DEF Writes, Fits
  <2>6. HasLevel(journal') => drv'.pc \in Closing \/ drv'.ended
    BY <1>1, <1>2 DEF Writes, HasLevel
  <2> QED
    BY <2>1, <2>2, <2>3, <2>4, <2>5, <2>6 DEF AtJournal, Writes
<1>6. JournalStep
  BY <1>0 DEF JournalStep, Writes
<1>7. Starts(journal')
  <2>1. Starts(journal) /\ journal # <<>> /\ Len(journal) # 0
    BY <1>0 DEF RunInv, AtJournal, Starts
  <2>2. 1 \in 1..Len(journal)
    BY <1>1, <2>1
  <2>3. journal'[1] = journal[1] /\ Len(journal') # 0
    BY <1>1, <2>2
  <2> QED
    BY <2>1, <2>3 DEF Starts
<1> QED
  BY <1>0, <1>3, <1>4, <1>5, <1>6, <1>7 DEF RunInv

(* What Event makes. *)
LEMMA EventIs ==
    ASSUME NEW s, NEW t, NEW b, NEW v
    PROVE  /\ Event(s, t, b, v).seq = s /\ Event(s, t, b, v).t = t
           /\ Event(s, t, b, v).batch = b /\ Event(s, t, b, v).val = v
BY DEF Event

(* An event of the running batch, or the one being committed, fits. *)
LEMMA RunningFits ==
    ASSUME RunInv, Live, ~drv.ended, NEW e, e.seq = drv.seq + 1,
           e.batch \in Nat, Batch <= e.batch,
           IsBatch(e) => e.batch = LastBatch(journal) + 1,
           e.t = "level_next" => e.val = drv.level + 1,
           TakesFile(e) => e.val \notin drv.taken
    PROVE  Fits(journal, e)
<1>1. AtJournal /\ Counted(journal)
  BY DEF RunInv, InOrder
<1>2. Batch \in Nat
  BY <1>1, LastBatchTops DEF AtJournal
<1>3. \A i \in 1..Len(journal) : journal[i].batch <= e.batch
  BY <1>1, <1>2 DEF AtJournal, Counted
<1>4. e.t = "level_next" => e.val \in Nat /\ e.val >= 2
  BY <1>1 DEF AtJournal
<1> QED
  BY <1>1, <1>3, <1>4 DEF Fits, AtJournal

(* What a line that is no batch line leaves: the last batch, and Batch as
   long as base and the batches of the history stay. *)
LEMMA SameBatch ==
    ASSUME RunInv, Live, DOMAIN drv = Fields, NEW e, Fits(journal, e),
           journal' = Append(journal, e), ~IsBatch(e)
    PROVE  /\ LastBatch(journal') = LastBatch(journal)
           /\ Batch \in Nat /\ drv.base \in Nat /\ Batches(drv.hist) \in Nat
           /\ drv'.base = drv.base /\ drv'.hist = drv.hist => Batch' = Batch
<1>1. AtJournal /\ InOrder(journal) /\ Counted(journal)
  BY DEF RunInv, InOrder
<1>2. LastBatch(journal') = LastBatch(journal)
  BY <1>1, AppendInOrder
<1>3. Batches(drv.hist) \in Nat /\ drv.base \in Nat
  BY <1>1, BatchesOf DEF AtJournal
<1>4. Batch \in Nat
  BY <1>3 DEF Batch
<1> QED
  BY <1>2, <1>3, <1>4 DEF Batch

(* Lines about the batch the driver is at: no more changes than pc. *)
LEMMA NotesInv ==
    ASSUME RunInv, Live, DOMAIN drv = Fields, ~drv.ended, ~HasLevel(journal),
           drv.pc # "commit",
           NEW t \in {"seed", "kept", "budget", "level_rejected", "level", "steer"}, NEW v,
           Emit(t, Batch, v), UNCHANGED <<ckpts, inbox, forks>>,
           drv'.seq = drv.seq + 1, drv'.base = drv.base, drv'.level = drv.level,
           IsSeq(drv'.hist), Batches(drv'.hist) = Batches(drv.hist),
           drv'.taken = drv.taken, drv'.ended = drv.ended,
           drv'.pc \notin {"seed", "commit", "inbox"},
           t = "level" => drv'.pc \in Closing
    PROVE  RunInv' /\ JournalStep
<1> DEFINE e == Event(drv.seq + 1, t, Batch, v)
<1>0. /\ AtJournal /\ Batch = LastBatch(journal) /\ Batch \in Nat
  BY LastBatchTops DEF RunInv, AtJournal, InOrder
<1>1. e.seq = drv.seq + 1 /\ e.t = t /\ e.batch = Batch /\ e.val = v
  BY EventIs
<1>2. journal' = Append(journal, e)
  BY DEF Emit
<1> HIDE DEF e
<1>3. ~IsBatch(e) /\ ~TakesFile(e) /\ e.t # "level_next" /\ e.t # "end"
  BY <1>1 DEF IsBatch, TakesFile
<1>4. Fits(journal, e)
  BY <1>0, <1>1, <1>3, RunningFits
<1>5. LastBatch(journal') = LastBatch(journal)
  BY <1>2, <1>3, <1>4, SameBatch
<1>6. Batch' = Batch
  BY DEF Batch
<1>7. Writes(e)
  BY <1>0, <1>1, <1>2, <1>3, <1>5, <1>6 DEF Writes, AtJournal
<1> QED
  BY <1>4, <1>7, WritesInv

LEMMA NotingSteps ==
    ASSUME RunInv, Live => DOMAIN drv = Fields, NEW i,
           \/ EmitSeed \/ KeepNew \/ Raise \/ LevelRejected \/ Finish
           \/ ApplyGrowCase(i)
    PROVE  RunInv' /\ JournalStep
<1>0. Live => AtJournal /\ DOMAIN drv = Fields
  BY DEF RunInv
<1>1. CASE KeepNew
  <2>1. /\ Live /\ ~drv.ended /\ ~HasLevel(journal) /\ drv.pc \in {"keepBatch", "keepSeam"}
    BY <1>0, <1>1 DEF KeepNew, Live, AtJournal, AfterEnd, Closing
  <2>2. /\ Emit("kept", Batch, Min(Reported)) /\ UNCHANGED <<ckpts, inbox, forks>>
        /\ drv' = [Wrote(drv.pc) EXCEPT !.kept = @ \cup {Min(Reported)}]
    BY <1>1 DEF KeepNew
  <2>3. /\ drv'.seq = drv.seq + 1 /\ drv'.base = drv.base /\ drv'.level = drv.level
        /\ drv'.hist = drv.hist /\ drv'.taken = drv.taken /\ drv'.ended = drv.ended
        /\ drv'.pc = drv.pc
    BY <1>0, <2>1, <2>2 DEF Wrote, Fields
  <2> QED
    BY <1>0, <2>1, <2>2, <2>3, NotesInv DEF AtJournal
<1>2. CASE Raise
  <2>1. Live /\ ~drv.ended /\ ~HasLevel(journal) /\ drv.pc = "raise"
    BY <1>0, <1>2 DEF Raise, Live, AtJournal, AfterEnd, Closing
  <2>2. /\ Emit("budget", Batch, drv.wm) /\ UNCHANGED <<ckpts, inbox, forks>>
        /\ drv' = [Wrote("ckpt") EXCEPT !.raised = FALSE]
    BY <1>2 DEF Raise
  <2>3. /\ drv'.seq = drv.seq + 1 /\ drv'.base = drv.base /\ drv'.level = drv.level
        /\ drv'.hist = drv.hist /\ drv'.taken = drv.taken /\ drv'.ended = drv.ended
        /\ drv'.pc = "ckpt"
    BY <1>0, <2>1, <2>2 DEF Wrote, Fields
  <2> QED
    BY <1>0, <2>1, <2>2, <2>3, NotesInv DEF AtJournal
<1>3. CASE LevelRejected
  <2>1. Live /\ ~drv.ended /\ ~HasLevel(journal) /\ drv.pc = "close"
    BY <1>0, <1>3 DEF LevelRejected, Live, AtJournal, AfterEnd, Closing
  <2>2. /\ Emit("level_rejected", Batch, drv.level + 1) /\ UNCHANGED <<ckpts, inbox, forks>>
        /\ drv' = Wrote("finish")
    BY <1>3 DEF LevelRejected
  <2>3. /\ drv'.seq = drv.seq + 1 /\ drv'.base = drv.base /\ drv'.level = drv.level
        /\ drv'.hist = drv.hist /\ drv'.taken = drv.taken /\ drv'.ended = drv.ended
        /\ drv'.pc = "finish"
    BY <1>0, <2>1, <2>2 DEF Wrote, Fields
  <2> QED
    BY <1>0, <2>1, <2>2, <2>3, NotesInv DEF AtJournal
<1>4. CASE Finish
  <2>1. Live /\ ~drv.ended /\ ~HasLevel(journal) /\ drv.pc \in {"close", "finish"}
    BY <1>0, <1>4 DEF Finish, Live, AtJournal, AfterEnd, Closing
  <2>2. /\ Emit("level", Batch, 0) /\ UNCHANGED <<ckpts, inbox, forks>>
        /\ drv' = [Wrote("end") EXCEPT !.outcome = "closed"]
    BY <1>4 DEF Finish
  <2>3. /\ drv'.seq = drv.seq + 1 /\ drv'.base = drv.base /\ drv'.level = drv.level
        /\ drv'.hist = drv.hist /\ drv'.taken = drv.taken /\ drv'.ended = drv.ended
        /\ drv'.pc = "end"
    BY <1>0, <2>1, <2>2 DEF Wrote, Fields
  <2> QED
    BY <1>0, <2>1, <2>2, <2>3, NotesInv DEF AtJournal, Closing
<1>5. CASE ApplyGrowCase(i)
  <2>1. CASE UNCHANGED journal
    BY <1>0, <1>5, <2>1, RunKeeps, QuietControl, QuietInv
  <2>2. CASE journal' # journal
    <3> DEFINE c == requests[i].arg
    <3>1. Live /\ ~drv.ended /\ ~HasLevel(journal) /\ drv.pc = "control"
      BY <1>0, <1>5 DEF ApplyGrowCase, Serving, Live, AtJournal, Closing
    <3>2. /\ Emit("steer", Batch, c) /\ UNCHANGED <<ckpts, inbox, forks>>
          /\ drv' = [Reply(i, "applied") EXCEPT !.seq = @ + 1, !.hist = Append(@, Grew(c))]
      BY <1>5, <2>2 DEF ApplyGrowCase
    <3>3. /\ drv'.seq = drv.seq + 1 /\ drv'.base = drv.base /\ drv'.level = drv.level
          /\ drv'.hist = Append(drv.hist, Grew(c))
          /\ drv'.taken = drv.taken /\ drv'.ended = drv.ended /\ drv'.pc = "ack"
      BY <1>0, <3>1, <3>2 DEF Reply, Fields
    <3>4. IsSeq(drv.hist) /\ Grew(c).kind = "grow"
      BY <1>0, <3>1 DEF AtJournal, Grew
    <3>5. IsSeq(drv'.hist) /\ Batches(drv'.hist) = Batches(drv.hist)
      BY <3>3, <3>4, Appended, BatchesOf
    <3> QED
      BY <1>0, <3>1, <3>2, <3>3, <3>5, NotesInv
  <2> QED
    BY <2>1, <2>2
<1>6. CASE EmitSeed
  <2>1. /\ Live /\ ~drv.ended /\ ~HasLevel(journal) /\ drv.pc = "seed" /\ Batch = 0
    BY <1>0, <1>6 DEF EmitSeed, Live, AtJournal, AfterEnd, Closing
  <2>2. /\ Emit("seed", Batch, 0) /\ UNCHANGED <<ckpts, inbox, forks>>
        /\ drv' = Wrote("keepSeam")
    BY <1>6, <2>1 DEF EmitSeed
  <2>3. /\ drv'.seq = drv.seq + 1 /\ drv'.base = drv.base /\ drv'.level = drv.level
        /\ drv'.hist = drv.hist /\ drv'.taken = drv.taken /\ drv'.ended = drv.ended
        /\ drv'.pc = "keepSeam"
    BY <1>0, <2>1, <2>2 DEF Wrote, Fields
  <2> QED
    BY <1>0, <2>1, <2>2, <2>3, NotesInv DEF AtJournal
<1> QED
  BY <1>1, <1>2, <1>3, <1>4, <1>5, <1>6

(* A file taken is one that was not taken before. *)
LEMMA TakeFileInv ==
    ASSUME RunInv, Live => DOMAIN drv = Fields, TakeFile
    PROVE  RunInv' /\ JournalStep
<1> DEFINE f == Min(drv.queue)
           t == IF f \notin BadFiles THEN "evidence" ELSE "evidence_rejected"
           e == Event(drv.seq + 1, t, Batch, f)
<1>0. /\ Live /\ AtJournal /\ DOMAIN drv = Fields /\ drv.pc = "inbox" /\ ~drv.ended
      /\ ~HasLevel(journal) /\ Batch = LastBatch(journal) /\ Batch \in Nat
  BY LastBatchTops DEF RunInv, InOrder, TakeFile, Live, AtJournal, AfterEnd, Closing
<1>1. f \in drv.queue /\ f \in Files /\ f \notin drv.taken
  <2>1. drv.queue \in SUBSET Nat /\ drv.queue # {}
    BY <1>0, ConfigAssumption DEF AtJournal, TakeFile
  <2> QED
    BY <1>0, <2>1, MinIs DEF AtJournal
<1>2. /\ journal' = Append(journal, e) /\ UNCHANGED <<ckpts, inbox, forks>>
      /\ drv' = [Wrote("inbox") EXCEPT !.queue = @ \ {f}, !.taken = @ \cup {f},
                     !.evid = IF f \notin BadFiles THEN Append(@, f) ELSE @]
  BY DEF TakeFile, Emit
<1>3. e.seq = drv.seq + 1 /\ e.t = t /\ e.batch = Batch /\ e.val = f
  BY EventIs
<1> HIDE DEF e
<1>4. TakesFile(e) /\ ~IsBatch(e) /\ e.t # "level_next" /\ e.t # "end" /\ e.t # "level"
  BY <1>3 DEF TakesFile, IsBatch
<1>5. Fits(journal, e)
  BY <1>0, <1>1, <1>3, <1>4, RunningFits
<1>6. /\ drv'.seq = drv.seq + 1 /\ drv'.base = drv.base /\ drv'.level = drv.level
      /\ drv'.hist = drv.hist /\ drv'.taken = drv.taken \cup {f} /\ drv'.ended = drv.ended
      /\ drv'.pc = "inbox" /\ drv'.queue = drv.queue \ {f}
  BY <1>0, <1>2 DEF Wrote, Fields
<1>7. LastBatch(journal') = LastBatch(journal) /\ Batch' = Batch
  BY <1>0, <1>2, <1>4, <1>5, <1>6, SameBatch
<1>8. drv'.queue \subseteq Files \ drv'.taken
  BY <1>0, <1>6 DEF AtJournal
<1> HIDE DEF f
<1>9. Writes(e)
  BY <1>0, <1>2, <1>3, <1>4, <1>6, <1>7, <1>8 DEF Writes, AtJournal
<1> QED
  BY <1>5, <1>9, WritesInv

(* advance: the session is one batch ahead of the journal until Commit. *)
LEMMA AdvanceInv ==
    ASSUME RunInv, Live => DOMAIN drv = Fields, NEW v, Advance(v)
    PROVE  RunInv' /\ JournalStep
<1> DEFINE e == Event(drv.seq + 1, "records", Batch + 1, 0)
<1>0. /\ Live /\ AtJournal /\ DOMAIN drv = Fields /\ drv.pc = "inbox" /\ ~drv.ended
      /\ ~HasLevel(journal) /\ Batch = LastBatch(journal) /\ Batch \in Nat
      /\ UNCHANGED <<ckpts, inbox, forks>>
  BY LastBatchTops DEF RunInv, InOrder, Advance, Live, AtJournal, AfterEnd, Closing
<1>1. \/ journal' = Append(journal, e) /\ drv' = [Advanced(v) EXCEPT !.seq = @ + 1]
      \/ journal' = journal /\ drv' = Advanced(v)
  BY DEF Advance, Emit
<1>2. /\ drv'.base = drv.base /\ drv'.level = drv.level
      /\ drv'.hist = Append(drv.hist, Ran(drv.wm, drv.evid, v))
      /\ drv'.taken = drv.taken /\ drv'.ended = drv.ended /\ drv'.pc = "commit"
      /\ drv'.seq = IF journal' = journal /\ drv' = Advanced(v) THEN drv.seq ELSE drv.seq + 1
  <2>1. /\ Advanced(v).base = drv.base /\ Advanced(v).level = drv.level
        /\ Advanced(v).hist = Append(drv.hist, Ran(drv.wm, drv.evid, v))
        /\ Advanced(v).taken = drv.taken /\ Advanced(v).ended = drv.ended
        /\ Advanced(v).pc = "commit" /\ Advanced(v).seq = drv.seq
        /\ DOMAIN Advanced(v) = Fields
    BY <1>0 DEF Advanced, Fields
  <2> HIDE DEF e
  <2> QED
    BY <1>1, <2>1 DEF Fields
<1>3. /\ IsSeq(drv'.hist) /\ Batches(drv'.hist) = Batches(drv.hist) + 1
      /\ Batch' = Batch + 1
  <2>1. IsSeq(drv.hist) /\ drv.base \in Nat /\ Ran(drv.wm, drv.evid, v).kind = "batch"
    BY <1>0 DEF AtJournal, Ran
  <2>2. /\ IsSeq(drv'.hist) /\ Batches(drv'.hist) = Batches(drv.hist) + 1
        /\ Batches(drv.hist) \in Nat
    BY <1>2, <2>1, Appended, BatchesOf
  <2> QED
    BY <1>2, <2>1, <2>2 DEF Batch
<1>4. CASE journal' = journal /\ drv' = Advanced(v)
  <2>1. \A i \in 1..Len(journal) : journal[i].batch <= Batch'
    <3>1. \A i \in 1..Len(journal) : journal[i].batch <= Batch /\ journal[i].batch \in Nat
      BY <1>0 DEF RunInv, InOrder, Counted, AtJournal
    <3> QED
      BY <1>0, <1>3, <3>1
  <2>2. AtJournal'
    BY <1>0, <1>2, <1>3, <1>4, <2>1 DEF AtJournal
  <2> QED
    BY <1>0, <1>4, <2>2 DEF RunInv, JournalStep
<1>5. CASE journal' = Append(journal, e) /\ drv'.seq = drv.seq + 1
  <2>1. e.seq = drv.seq + 1 /\ e.t = "records" /\ e.batch = Batch + 1
    BY EventIs
  <2> HIDE DEF e
  <2>2. ~TakesFile(e) /\ ~IsBatch(e)
    BY <2>1 DEF TakesFile, IsBatch
  <2>3. Fits(journal, e)
    BY <1>0, <2>1, <2>2, RunningFits
  <2>4. LastBatch(journal') = LastBatch(journal)
    BY <1>0, <1>5, <2>2, <2>3, SameBatch
  <2>5. Writes(e)
    BY <1>0, <1>2, <1>3, <1>5, <2>1, <2>2, <2>4 DEF Writes, AtJournal
  <2> QED
    BY <2>3, <2>5, WritesInv
<1> QED
  BY <1>1, <1>2, <1>4, <1>5

(* The batch line: the next number. *)
LEMMA CommitInv ==
    ASSUME RunInv, Live => DOMAIN drv = Fields, Commit
    PROVE  RunInv' /\ JournalStep
<1> DEFINE e == BatchEvent(drv.seq + 1, Batch, drv.ranAt, drv.verdict, drv.streak)
<1>0. /\ Live /\ AtJournal /\ DOMAIN drv = Fields /\ drv.pc = "commit" /\ ~drv.ended
      /\ ~HasLevel(journal) /\ Batch = LastBatch(journal) + 1 /\ Batch \in Nat
      /\ UNCHANGED <<ckpts, inbox, forks>>
  BY LastBatchTops DEF RunInv, InOrder, Commit, Live, AtJournal, AfterEnd, Closing
<1>1. journal' = Append(journal, e) /\ drv' = Wrote("keepBatch")
  BY DEF Commit
<1>2. e.seq = drv.seq + 1 /\ e.t = "batch" /\ e.batch = Batch
  BY DEF BatchEvent, Event
<1> HIDE DEF e
<1>3. IsBatch(e) /\ ~TakesFile(e)
  BY <1>2 DEF TakesFile, IsBatch
<1>4. Fits(journal, e)
  BY <1>0, <1>2, <1>3, RunningFits
<1>5. LastBatch(journal') = Batch
  BY <1>1, <1>2, <1>3, <1>4, AppendInOrder DEF RunInv
<1>6. /\ drv'.seq = drv.seq + 1 /\ drv'.base = drv.base /\ drv'.level = drv.level
      /\ drv'.hist = drv.hist /\ drv'.taken = drv.taken /\ drv'.ended = drv.ended
      /\ drv'.pc = "keepBatch"
  BY <1>0, <1>1 DEF Wrote, Fields
<1>7. Batch' = Batch
  BY <1>6 DEF Batch
<1>8. Writes(e)
  BY <1>0, <1>1, <1>2, <1>3, <1>5, <1>6, <1>7 DEF Writes, AtJournal
<1> QED
  BY <1>4, <1>8, WritesInv

(* The next level begins where this one ended. *)
LEMMA NextLevelInv ==
    ASSUME RunInv, Live => DOMAIN drv = Fields, NextLevel
    PROVE  RunInv' /\ JournalStep
<1> DEFINE e == Event(drv.seq + 1, "level_next", Batch, drv.level + 1)
<1>0. /\ Live /\ AtJournal /\ DOMAIN drv = Fields /\ drv.pc = "close" /\ ~drv.ended
      /\ ~HasLevel(journal) /\ Batch = LastBatch(journal) /\ Batch \in Nat
      /\ UNCHANGED <<ckpts, inbox, forks>>
  BY LastBatchTops DEF RunInv, InOrder, NextLevel, Live, AtJournal, AfterEnd, Closing
<1>1. /\ journal' = Append(journal, e)
      /\ drv' = [Wrote("keepSeam") EXCEPT !.level = @ + 1, !.base = Batch, !.hist = <<>>,
                     !.wm = 0, !.streak = 0, !.close = FALSE]
  BY DEF NextLevel, Emit
<1>2. e.seq = drv.seq + 1 /\ e.t = "level_next" /\ e.batch = Batch /\ e.val = drv.level + 1
  BY EventIs
<1> HIDE DEF e
<1>3. ~IsBatch(e) /\ ~TakesFile(e)
  BY <1>2 DEF TakesFile, IsBatch
<1>4. Fits(journal, e)
  BY <1>0, <1>2, <1>3, RunningFits
<1>5. LastBatch(journal') = LastBatch(journal)
  BY <1>0, <1>1, <1>3, <1>4, SameBatch
<1>6. /\ drv'.seq = drv.seq + 1 /\ drv'.base = Batch /\ drv'.level = drv.level + 1
      /\ drv'.hist = <<>> /\ drv'.taken = drv.taken /\ drv'.ended = drv.ended
      /\ drv'.pc = "keepSeam"
  BY <1>0, <1>1 DEF Wrote, Fields
<1>7. Batch' = Batch /\ IsSeq(drv'.hist)
  BY <1>0, <1>6, NoneYet, BatchesOf DEF Batch
<1>8. Writes(e)
  BY <1>0, <1>1, <1>2, <1>3, <1>5, <1>6, <1>7 DEF Writes, AtJournal
<1> QED
  BY <1>4, <1>8, WritesInv

LEMMA EmitEndInv ==
    ASSUME RunInv, Live => DOMAIN drv = Fields, EmitEnd
    PROVE  RunInv' /\ JournalStep
<1> DEFINE e == EndEvent(drv.seq + 1, Batch, drv.outcome)
<1>0. /\ Live /\ AtJournal /\ DOMAIN drv = Fields /\ drv.pc = "emitEnd" /\ ~drv.ended
      /\ Batch = LastBatch(journal) /\ Batch \in Nat
      /\ UNCHANGED <<ckpts, inbox, forks>>
  BY LastBatchTops DEF RunInv, InOrder, EmitEnd, Live, AtJournal, AfterEnd, Closing
<1>1. journal' = Append(journal, e) /\ drv' = [Wrote(Caller) EXCEPT !.ended = TRUE]
  BY DEF EmitEnd
<1>2. e.seq = drv.seq + 1 /\ e.t = "end" /\ e.batch = Batch
  BY DEF EndEvent, Event
<1> HIDE DEF e
<1>3. ~IsBatch(e) /\ ~TakesFile(e)
  BY <1>2 DEF TakesFile, IsBatch
<1>4. Fits(journal, e)
  BY <1>0, <1>2, <1>3, RunningFits
<1>5. LastBatch(journal') = LastBatch(journal)
  BY <1>0, <1>1, <1>3, <1>4, SameBatch
<1>6. /\ drv'.seq = drv.seq + 1 /\ drv'.base = drv.base /\ drv'.level = drv.level
      /\ drv'.hist = drv.hist /\ drv'.taken = drv.taken /\ drv'.ended = TRUE
      /\ drv'.pc \in {"poll", "ack"}
  BY <1>0, <1>1 DEF Wrote, Caller, Fields
<1>7. Batch' = Batch
  BY <1>6 DEF Batch
<1>8. Writes(e)
  BY <1>0, <1>1, <1>2, <1>3, <1>5, <1>6, <1>7 DEF Writes, AtJournal, AfterEnd
<1> QED
  BY <1>4, <1>8, WritesInv

(* record_fault: an end after whatever the journal ends in, if not an end. *)
LEMMA RecordFaultInv ==
    ASSUME RunInv, journal # <<>>, NEW code, RecordFault(code), ~Live',
           UNCHANGED <<ckpts, inbox, forks>>
    PROVE  RunInv' /\ JournalStep
<1> DEFINE e == EndEvent(LastSeq(journal) + 1, LastBatch(journal), code)
<1>0. /\ InOrder(journal) /\ Counted(journal) /\ IsSeq(journal) /\ Len(journal) \in Nat
      /\ LastBatch(journal) \in Nat
  BY LastBatchTops DEF RunInv, InOrder, Counted, IsSeq
<1>1. CASE journal' = journal
  BY <1>1 DEF RunInv, JournalStep
<1>2. CASE Last(journal).t # "end" /\ journal' = Append(journal, e)
  <2>1. Len(journal) \in 1..Len(journal)
    <3>1. Len(journal) # 0
      BY <1>0 DEF IsSeq
    <3> QED
      BY <1>0, <3>1
  <2>2. \A i \in 1..Len(journal) : journal[i].t # "end"
    BY <1>0, <1>2, <2>1 DEF Counted, Last
  <2>3. LastSeq(journal) = Len(journal)
    BY <1>0, <2>1 DEF Counted, LastSeq, Last
  <2>4. e.seq = Len(journal) + 1 /\ e.t = "end" /\ e.batch = LastBatch(journal)
    BY <2>3 DEF EndEvent, Event
  <2> HIDE DEF e
  <2>5. Fits(journal, e)
    BY <1>0, <2>2, <2>4 DEF Fits, IsBatch, TakesFile
  <2>6. InOrder(journal') /\ \A k \in ckpts' : Saved(journal', k)
    BY <1>0, <1>2, <2>5, AppendInOrder, SavedAppended DEF RunInv
  <2>7. Starts(journal')
    <3>1. Len(journal') = Len(journal) + 1 /\ journal'[1] = journal[1]
      BY <1>0, <1>2, <2>1, Appended
    <3> QED
      BY <1>0, <3>1 DEF RunInv, Starts
  <2> QED
    BY <1>2, <2>4, <2>5, <2>6, <2>7 DEF RunInv, JournalStep
<1> QED
  BY <1>1, <1>2 DEF RecordFault

(* The newest checkpoint at or before the last batch. *)
LEMMA RestartIs ==
    ASSUME RunInv
    PROVE  /\ RestartAt \in Nat /\ RestartAt <= LastBatch(journal)
           /\ \A k \in ckpts : k.batch <= RestartAt
           /\ CheckpointAt(RestartAt) = {} => RestartAt = 0 /\ ckpts = {}
<1> DEFINE B == {k.batch : k \in RestartSet}
<1>1. LastBatch(journal) \in Nat
  BY LastBatchTops DEF RunInv, InOrder
<1>2. RestartSet = ckpts /\ B \in SUBSET (0..LastBatch(journal))
  BY <1>1 DEF RestartSet, RunInv, Saved
<1>3. CASE RestartSet = {}
  BY <1>1, <1>2, <1>3 DEF RestartAt
<1>4. CASE RestartSet # {}
  <2>1. RestartAt = Max(B) /\ B # {}
    BY <1>4 DEF RestartAt
  <2>2. \A k \in ckpts : k.batch \in B
    BY <1>2
  <2>3. \A b \in B : \E k \in ckpts : k.batch = b
    BY <1>2
  <2> HIDE DEF B
  <2>4. Max(B) \in B /\ \A y \in B : y <= Max(B)
    BY <1>1, <1>2, <2>1, MaxIs
  <2>5. CheckpointAt(RestartAt) # {}
    BY <2>1, <2>3, <2>4 DEF CheckpointAt
  <2>6. RestartAt \in 0..LastBatch(journal)
    BY <1>2, <2>1, <2>4
  <2>7. \A k \in ckpts : k.batch <= RestartAt
    BY <2>1, <2>2, <2>4
  <2> QED
    BY <1>1, <2>5, <2>6, <2>7
<1> QED
  BY <1>3, <1>4

(* What a restart restores counts the batches since the level began. *)
LEMMA RestoredIs ==
    ASSUME RunInv, NEW kept, CutTo(journal, RestartAt, kept)
    PROVE  LET h == RestoredHistory(RestartAt, kept)
           IN  /\ IsSeq(h)
               /\ Base(kept) \in Nat /\ Base(kept) + Batches(h) = RestartAt
<1> DEFINE c == RestartAt
           atSeed == CheckpointAt(c) = {} \/ (Level(kept) > 1 /\ c = Base(kept))
           saved == IF atSeed THEN <<>> ELSE (CHOOSE k \in ckpts : k.batch = c).hist
           P == {i \in 1..Len(kept) : /\ kept[i].t = "steer" /\ kept[i].batch = c
                                      /\ kept[i].val \notin Cases(saved)}
           missed == AtPositions(kept, P)
<1>0. /\ c \in Nat /\ c <= LastBatch(journal)
      /\ \A k \in ckpts : k.batch <= c /\ Saved(journal, k)
      /\ CheckpointAt(c) = {} => c = 0
  BY RestartIs DEF RunInv
<1>1. /\ InOrder(kept) /\ Counted(kept) /\ IsSeq(kept) /\ Len(kept) \in Nat
      /\ \A i \in 1..Len(kept) : kept[i].batch <= c /\ kept[i].batch \in Nat
  <2>1. InOrder(kept)
    BY <1>0, CutInOrder DEF RunInv
  <2>2. \A i \in 1..Len(kept) : kept[i].batch <= c
    BY DEF CutTo
  <2> QED
    BY <2>1, <2>2 DEF InOrder, Counted, IsSeq
<1>2. Base(kept) \in Nat /\ Base(kept) <= c
  BY <1>0, <1>1, LevelIs
<1>3. IsSeq(saved) /\ Base(kept) + Batches(saved) = c
  <2>1. CASE atSeed
    <3>1. saved = <<>>
      BY <2>1
    <3>2. IsSeq(saved) /\ Batches(saved) = 0
      BY <3>1, NoneYet, BatchesOf
    <3>3. Base(kept) = c
      BY <1>0, <1>2, <2>1
    <3> QED
      BY <1>2, <3>2, <3>3
  <2>2. CASE ~atSeed
    <3>1. PICK k \in ckpts : k.batch = c /\ saved = k.hist
      BY <2>2 DEF CheckpointAt
    <3>2. Saved(kept, k)
      BY <1>0, <3>1, SavedCut DEF RunInv
    <3>3. CASE \A i \in 1..Len(kept) : kept[i].t # "level_next"
      <4>1. Base(kept) = 0 /\ Batches(k.hist) = c
        BY <1>1, <3>1, <3>2, <3>3, LevelIs DEF Saved
      <4> QED
        BY <1>0, <3>1, <3>2, <4>1 DEF Saved
    <3>4. CASE \E i \in 1..Len(kept) : kept[i].t = "level_next"
      <4>1. /\ LevelIndex(kept) \in 1..Len(kept) /\ kept[LevelIndex(kept)].t = "level_next"
            /\ Level(kept) = kept[LevelIndex(kept)].val
            /\ Base(kept) = kept[LevelIndex(kept)].batch
            /\ \A n \in 1..Len(kept) : kept[n].t = "level_next" => n <= LevelIndex(kept)
        BY <1>1, <3>4, LevelIs
      <4>2. PICK i \in 1..Len(kept) :
               /\ kept[i].t = "level_next"
               /\ \A n \in 1..Len(kept) :
                     kept[n].t = "level_next" /\ kept[n].batch <= c => n <= i
               /\ kept[i].batch = c \/ kept[i].batch + Batches(k.hist) = c
        <5>1. ~ (\A i \in 1..Len(kept) : kept[i].t = "level_next" => kept[i].batch > c)
          BY <1>0, <1>1, <3>4
        <5> QED
          BY <3>1, <3>2, <5>1 DEF Saved
      <4>3. i = LevelIndex(kept)
        <5>1. i <= LevelIndex(kept) /\ LevelIndex(kept) <= i
          BY <1>1, <4>1, <4>2
        <5> QED
          BY <1>1, <4>1, <5>1
      <4>4. Level(kept) > 1
        BY <1>1, <4>1 DEF Counted
      <4>5. kept[i].batch # c
        BY <2>2, <4>1, <4>3, <4>4
      <4> QED
        BY <3>1, <3>2, <4>1, <4>2, <4>3, <4>5 DEF Saved
    <3> QED
      BY <3>3, <3>4
  <2> QED
    BY <2>1, <2>2
<1>4. Len(missed) \in Nat
  <2>1. IsFiniteSet(P)
    <3>1. IsFiniteSet(1..Len(kept)) /\ P \in SUBSET (1..Len(kept))
      BY <1>1, FS_Interval
    <3> HIDE DEF P
    <3> QED
      BY <3>1, FS_Subset
  <2> HIDE DEF P
  <2>2. Cardinality(P) \in Nat
    BY <2>1, FS_CardinalityType
  <2> QED
    BY <2>2 DEF AtPositions
<1>5. RestoredHistory(c, kept) = saved \o [i \in 1..Len(missed) |-> Grew(missed[i].val)]
  BY DEF RestoredHistory, AtSeed
<1> DEFINE v == [i \in 1..Len(missed) |-> missed[i].val]
<1>6. RestoredHistory(c, kept) = saved \o [i \in 1..Len(missed) |-> Grew(v[i])]
  <2>1. [i \in 1..Len(missed) |-> Grew(missed[i].val)] = [i \in 1..Len(missed) |-> Grew(v[i])]
    <3> HIDE DEF missed
    <3> QED
      OBVIOUS
  <2> QED
    BY <1>5, <2>1, Zenon
<1> HIDE DEF v, missed, saved
<1>7. IsSeq(RestoredHistory(c, kept)) /\ Batches(RestoredHistory(c, kept)) = Batches(saved)
  BY <1>3, <1>4, <1>6, BatchesSteered
<1> QED
  BY <1>2, <1>3, <1>7

LEMMA OpenFreshInv ==
    ASSUME RunInv, OpenFresh
    PROVE  RunInv' /\ JournalStep
<1> DEFINE e == Event(1, "start", 0, 0)
           o == Opened(journal', <<>>, MaxBatches + 1)
<1>0. /\ InOrder(journal) /\ IsSeq(journal) /\ journal = <<>> /\ Len(journal) = 0
      /\ UNCHANGED <<ckpts, inbox, forks>>
  BY NoneYet DEF RunInv, OpenFresh
<1>1. e.seq = 1 /\ e.t = "start" /\ e.batch = 0
  BY EventIs
<1>2. journal' = Append(journal, e)
  BY <1>0 DEF OpenFresh
<1> HIDE DEF e
<1>3. Fits(journal, e) /\ ~IsBatch(e) /\ ~TakesFile(e)
  BY <1>0, <1>1 DEF Fits, IsBatch, TakesFile
<1>4. /\ InOrder(journal') /\ LastBatch(journal') = LastBatch(journal)
      /\ \A k \in ckpts' : Saved(journal', k)
  BY <1>0, <1>2, <1>3, AppendInOrder, SavedAppended DEF RunInv
<1>5. /\ Len(journal') = 1 /\ journal'[1] = e /\ IsSeq(journal')
      /\ \A i \in 1..Len(journal') : journal'[i] = e
  <2>1. /\ Len(journal') = Len(journal) + 1 /\ journal'[Len(journal) + 1] = e
        /\ IsSeq(journal')
    BY <1>0, <1>2, Appended
  <2> QED
    BY <1>0, <2>1
<1>6. LastBatch(journal) = 0 /\ Level(journal') = 1 /\ Base(journal') = 0
  <2>1. LastBatch(journal) = 0
    BY <1>0, LastBatchIs
  <2>2. \A i \in 1..Len(journal') : journal'[i].t # "level_next"
    BY <1>1, <1>5
  <2> QED
    BY <1>5, <2>1, <2>2, LevelIs
<1>7. /\ drv'.base = Base(journal') /\ drv'.level = Level(journal') /\ drv'.hist = <<>>
      /\ drv'.seq = LastSeq(journal') /\ drv'.taken = Taken(journal')
      /\ drv'.ended = FALSE /\ drv'.pc = "seed"
  <2>1. drv' = [o EXCEPT !.pc = "seed"]
    BY DEF OpenFresh
  <2> QED
    BY <2>1 DEF Opened
<1>8. LastSeq(journal') = 1 /\ journal' # <<>>
  <2>1. journal' # <<>>
    BY <1>5, NoneYet
  <2> QED
    BY <1>1, <1>5, <2>1 DEF LastSeq, Last
<1>9. Batch' = 0 /\ IsSeq(drv'.hist)
  BY <1>6, <1>7, NoneYet, BatchesOf DEF Batch
<1>10. ~HasLevel(journal')
  BY <1>1, <1>5 DEF HasLevel
<1>11. AtJournal'
  <2>1. \A i \in 1..Len(journal') : journal'[i].batch <= Batch' /\ journal'[i].t # "end"
    BY <1>1, <1>5, <1>9
  <2>2. drv'.base \in Nat /\ drv'.level \in Nat \ {0} /\ Batch' = LastBatch(journal')
    BY <1>4, <1>6, <1>7, <1>9
  <2> QED
    BY <1>5, <1>7, <1>8, <1>9, <1>10, <2>1, <2>2 DEF AtJournal
<1>12. JournalStep
  BY <1>0, <1>2, <1>3 DEF JournalStep, HasLevel
<1>13. Starts(journal')
  BY <1>1, <1>5 DEF Starts
<1> QED
  BY <1>0, <1>4, <1>11, <1>12, <1>13 DEF RunInv

(* A cut keeps the start. *)
LEMMA CutStarts ==
    ASSUME NEW j, InOrder(j), Starts(j), NEW c \in Nat, NEW t, CutTo(j, c, t)
    PROVE  /\ Starts(t) /\ Len(t) \in Nat
           /\ j # <<>> => Len(t) # 0
<1>1. Len(j) \in Nat /\ Len(t) \in 0..Len(j)
  BY DEF CutTo, InOrder, Counted, IsSeq
<1>2. CASE j = <<>>
  <2>1. Len(t) = 0
    BY <1>1, <1>2
  <2>2. t = <<>>
    BY <2>1 DEF CutTo, IsSeq
  <2> QED
    BY <1>1, <1>2, <2>2 DEF Starts
<1>3. CASE j # <<>>
  <2>1. 1 \in 1..Len(j) /\ j[1].t = "start" /\ j[1].batch = 0
    BY <1>1, <1>3 DEF Starts
  <2>2. 1 <= Len(t)
    BY <2>1 DEF CutTo
  <2>3. t[1] = j[1]
    BY <1>1, <2>2 DEF CutTo
  <2> QED
    BY <1>1, <2>1, <2>2, <2>3 DEF Starts
<1> QED
  BY <1>2, <1>3

(* A restart: the journal is cut to the checkpoint's batch, and the driver
   is at that batch. *)
LEMMA OpenResumeInv ==
    ASSUME RunInv, OpenResume
    PROVE  RunInv' /\ JournalStep
<1> DEFINE c == RestartAt
           kept == KeptAt(journal, c)
           h == RestoredHistory(c, kept)
           o == Opened(kept, h, LastCheckpoint(c))
<1>0. /\ c \in Nat /\ c <= LastBatch(journal) /\ \A k \in ckpts : k.batch <= c
      /\ InOrder(journal) /\ ~HasLevel(journal)
      /\ journal' = kept /\ UNCHANGED <<ckpts, inbox, forks>>
      /\ drv' = [o EXCEPT !.deferred = Deferred(journal, c)]
  BY RestartIs DEF RunInv, OpenResume, Resumable
<1>1. CutTo(journal, c, kept)
  BY <1>0, KeptIsCut DEF InOrder
<1>2. /\ InOrder(kept) /\ LastBatch(kept) = c
      /\ \A i \in 1..Len(kept) : kept[i].t # "end" /\ kept[i].batch <= c
      /\ \A k \in ckpts : Saved(kept, k)
  <2>1. InOrder(kept) /\ LastBatch(kept) = c /\ \A i \in 1..Len(kept) : kept[i].t # "end"
    BY <1>0, <1>1, CutInOrder
  <2>2. \A i \in 1..Len(kept) : kept[i].batch <= c
    BY <1>1 DEF CutTo
  <2>3. \A k \in ckpts : Saved(kept, k)
    BY <1>0, <1>1, SavedCut DEF RunInv
  <2> QED
    BY <2>1, <2>2, <2>3
<1>3. IsSeq(h) /\ Base(kept) \in Nat /\ Base(kept) + Batches(h) = c
  BY <1>1, RestoredIs
<1> HIDE DEF kept, h, c
<1>4. /\ drv'.base = Base(kept) /\ drv'.level = Level(kept) /\ drv'.hist = h
      /\ drv'.seq = LastSeq(kept) /\ drv'.taken = Taken(kept)
      /\ drv'.ended = FALSE /\ drv'.pc = "poll"
  BY <1>0 DEF Opened
<1>5. Batch' = c
  BY <1>3, <1>4 DEF Batch
<1>6. IsSeq(kept) /\ Counted(kept)
  BY <1>2 DEF InOrder, Counted
<1>7. Level(kept) \in Nat \ {0}
  BY <1>6, LevelIs DEF Counted
<1>8. journal # <<>> /\ Starts(journal)
  BY DEF OpenResume, RunInv
<1>9. Starts(kept) /\ Len(kept) \in Nat /\ Len(kept) # 0
  BY <1>0, <1>1, <1>8, CutStarts
<1>10. kept # <<>> /\ LastSeq(kept) = Len(kept)
  <2>1. kept # <<>> /\ Len(kept) \in 1..Len(kept)
    BY <1>9, NoneYet
  <2> QED
    BY <1>6, <2>1 DEF Counted, LastSeq, Last
<1>11. ~HasLevel(kept)
  <2>1. Len(journal) \in Nat
    BY <1>0 DEF InOrder, Counted, IsSeq
  <2>2. \A i \in 1..Len(kept) : i \in 1..Len(journal) /\ kept[i] = journal[i]
    BY <1>1, <2>1 DEF CutTo
  <2> QED
    BY <1>0, <2>2 DEF HasLevel
<1>12. AtJournal'
  BY <1>0, <1>2, <1>3, <1>4, <1>5, <1>7, <1>10, <1>11 DEF AtJournal
<1>13. JournalStep
  BY <1>0, <1>1 DEF JournalStep, c
<1> QED
  BY <1>0, <1>2, <1>9, <1>12, <1>13 DEF RunInv

(* A fork's journal is the source's at its one checkpoint. *)
LEMMA ForkRunInv ==
    ASSUME RunInv, NEW k \in ckpts, Fork(k)
    PROVE  RunInv' /\ JournalStep
<1> DEFINE t == KeptAt(journal, k.batch)
<1>1. /\ journal' = t /\ ckpts' = {k} /\ inbox' = {} /\ forks' = forks + 1 /\ ~Live'
      /\ InOrder(journal) /\ Starts(journal) /\ Saved(journal, k)
  BY DEF RunInv, Fork, Live, Off
<1>2. k.batch \in Nat /\ k.batch <= LastBatch(journal)
  BY <1>1 DEF Saved
<1>3. CutTo(journal, k.batch, t)
  BY <1>1, <1>2, KeptIsCut DEF InOrder
<1> HIDE DEF t
<1>4. InOrder(t) /\ Starts(t) /\ Saved(t, k)
  BY <1>1, <1>2, <1>3, CutInOrder, CutStarts, SavedCut
<1> QED
  BY <1>1, <1>4 DEF RunInv, JournalStep

LEMMA InitRun == ASSUME Init PROVE RunInv
<1>1. journal = <<>> /\ ckpts = {} /\ inbox = {} /\ forks = 0 /\ drv.pc = "off"
  BY DEF Init, Off
<1>2. IsSeq(journal) /\ Len(journal) = 0 /\ LastBatch(journal) = 0
  BY <1>1, NoneYet, LastBatchIs
<1>3. InOrder(journal)
  BY <1>2 DEF InOrder, Counted, BatchLines, FilesOnce
<1> QED
  BY <1>1, <1>3 DEF RunInv, Starts, Live

(* Every step keeps the run in order.  An unknown verdict would not: after
   it the session is a batch ahead of the journal, and end writes a
   checkpoint the journal does not have. *)
LEMMA StepRun ==
    ASSUME RunInv, ControlInv, 5 \notin Verdicts, [Next]_vars
    PROVE  RunInv' /\ JournalStep
<1>0. Live => DOMAIN drv = Fields /\ AtJournal
  BY DEF ControlInv, RunInv
<1>1. CASE Open
  <2>1. ASSUME NEW code, RecordFault(code), journal # <<>>, ~Live,
               UNCHANGED <<ckpts, inbox, drv, forks>>
        PROVE  RunInv' /\ JournalStep
    BY <2>1, RecordFaultInv DEF Live
  <2>2. CASE OpenRefused
    BY <2>1, <2>2 DEF OpenRefused
  <2>3. CASE OpenFault
    BY <2>1, <2>3 DEF OpenFault
  <2> QED
    BY <1>1, <2>2, <2>3, OpenFreshInv, OpenResumeInv DEF Open
<1>2. CASE Control
  <2>1. CASE ControlDone /\ drv' = Off
    BY <2>1, LeaveInv DEF ControlDone, disk
  <2>2. CASE Poll \/ Ack \/ (ControlDone /\ drv' # Off)
    BY <1>0, <2>2, RunKeeps, QuietControl, QuietInv
  <2>3. ASSUME NEW i \in 1..Len(requests),
               \/ ApplyAfterEnd(i) \/ ApplyPause(i) \/ ApplyResume(i) \/ ApplyCheckpoint(i)
               \/ ApplyStep(i) \/ ApplyStop(i)
        PROVE  RunInv' /\ JournalStep
    BY <1>0, <2>3, RunKeeps, QuietControl, QuietInv
  <2>4. ASSUME NEW i \in 1..Len(requests), ApplyGrowCase(i)
        PROVE  RunInv' /\ JournalStep
    BY <1>0, <2>4, NotingSteps
  <2> QED
    BY <1>2, <2>1, <2>2, <2>3, <2>4 DEF Control
<1>3. CASE RunBatch
  <2>1. CASE BatchStart \/ KeepDone \/ RaisePastCeiling \/ PeriodicCheckpoint
    BY <1>0, <2>1, RunKeeps, QuietBatch, QuietInv
  <2>2. CASE KeepNew \/ Raise
    BY <1>0, <2>2, NotingSteps
  <2>3. ~AdvanceUnknown
    BY DEF AdvanceUnknown
  <2> QED
    BY <1>0, <1>3, <2>1, <2>2, <2>3, TakeFileInv, AdvanceInv, CommitInv DEF RunBatch
<1>4. CASE EmitSeed \/ Close
  BY <1>0, <1>4, NotingSteps, NextLevelInv DEF Close
<1>5. CASE Fault
  BY <1>0, <1>5, RunKeeps, QuietBatch, QuietInv
<1>6. CASE End
  <2>1. CASE EscapedFault
    <3>1. journal # <<>> /\ ~Live' /\ RecordFault(drv.outcome)
      BY <1>0, <2>1 DEF EscapedFault, Live, AtJournal, Off
    <3>2. UNCHANGED <<ckpts, inbox, forks>>
      BY <2>1 DEF EscapedFault
    <3> QED
      BY <3>1, <3>2, RecordFaultInv
  <2>2. CASE EndCheckpoint
    BY <1>0, <2>2, RunKeeps, QuietBatch, QuietInv
  <2> QED
    BY <1>0, <1>6, <2>1, <2>2, EmitEndInv DEF End
<1>7. CASE Environment
  <2>1. CASE Crash
    BY <2>1, LeaveInv DEF Crash, disk
  <2>2. ASSUME UNCHANGED <<journal, ckpts, drv, forks>>, inbox' \subseteq Files
        PROVE  RunInv' /\ JournalStep
    BY <2>2 DEF RunInv, JournalStep, AtJournal, Batch, Live
  <2>3. ASSUME NEW f \in Files, DropFile(f)
        PROVE  RunInv' /\ JournalStep
    BY <2>2, <2>3 DEF DropFile, Viewer, RunInv
  <2>4. ASSUME NEW a, NEW c, SendRequest(a, c)
        PROVE  RunInv' /\ JournalStep
    BY <2>2, <2>4 DEF SendRequest, Viewer, RunInv
  <2> QED
    BY <1>7, <2>1, <2>3, <2>4, ForkRunInv DEF Environment
<1>8. CASE UNCHANGED vars
  BY <1>8 DEF vars, RunInv, JournalStep, AtJournal, Batch, Live
<1> QED
  BY <1>1, <1>2, <1>3, <1>4, <1>5, <1>6, <1>7, <1>8 DEF Next, DriverStep

(* The driver is at the batch of its journal in every reachable state. *)
THEOREM RunInvariant == ASSUME 5 \notin Verdicts PROVE Spec => []RunInv
<1>1. Init => RunInv
  BY InitRun
<1>2. RunInv /\ ControlInv /\ [Next]_vars => RunInv'
  BY StepRun
<1> QED
  BY <1>1, <1>2, ControlInvariant, PTL DEF Spec

(* resume, fork_run, kept_at and emit: the journal is numbered without a
   gap, its batches are 1, 2, 3, ... once each and in order, and its end is
   last, whatever was killed, restarted or forked. *)
THEOREM ReadsAsOneRun == ASSUME 5 \notin Verdicts PROVE Spec => []JournalInOrder
<1>1. RunInv => JournalInOrder
  <2> SUFFICES ASSUME RunInv PROVE JournalInOrder
    OBVIOUS
  <2>1. Counted(journal) /\ BatchLines(journal)
    BY DEF RunInv, InOrder
  <2>2. \A i \in 1..Len(journal) :
           journal[i].seq = i /\ (journal[i].t = "end" => i = Len(journal))
    BY <2>1 DEF Counted
  <2>3. \A i, k \in 1..Len(journal) :
           i <= k => journal[i].batch <= journal[k].batch \/ journal[k].t = "end"
    BY <2>1 DEF Counted
  <2>4. ASSUME NEW n \in 1..LastBatch(journal)
        PROVE  Cardinality({i \in BatchIndices : journal[i].batch = n}) = 1
    <3>1. PICK i \in 1..Len(journal) : IsBatch(journal[i]) /\ journal[i].batch = n
      BY <2>1 DEF BatchLines
    <3>2. {m \in BatchIndices : journal[m].batch = n} = {i}
      BY <2>1, <3>1 DEF BatchLines, BatchIndices
    <3> QED
      BY <3>2, FS_Singleton
  <2> QED
    BY <2>2, <2>3, <2>4 DEF JournalInOrder
<1> QED
  BY <1>1, RunInvariant, PTL

(* kept_at at the newest checkpoint: nothing at or before it is taken out
   of the journal or rewritten, but for a trailing end. *)
THEOREM CommittedStays == ASSUME 5 \notin Verdicts PROVE Spec => CommittedSurvives
<1> DEFINE Stays == \A i \in 1..Len(journal) :
                      journal[i].t # "end" /\ journal[i].batch <= RestartAt
                          => i <= Len(journal') /\ journal'[i] = journal[i]
<1>1. RunInv /\ ControlInv /\ [Next]_vars => [forks' = forks => Stays]_vars
  <2> SUFFICES ASSUME RunInv, ControlInv, [Next]_vars, forks' = forks,
                      NEW i \in 1..Len(journal),
                      journal[i].t # "end", journal[i].batch <= RestartAt
               PROVE  i <= Len(journal') /\ journal'[i] = journal[i]
    OBVIOUS
  <2>1. /\ JournalStep /\ Counted(journal) /\ IsSeq(journal) /\ Len(journal) \in Nat
        /\ RestartAt \in Nat /\ forks \in Nat
    <3>1. JournalStep /\ RestartAt \in Nat
      BY StepRun, RestartIs
    <3>2. Counted(journal) /\ IsSeq(journal) /\ forks \in Nat
      BY DEF RunInv, InOrder, Counted
    <3> QED
      BY <3>1, <3>2 DEF IsSeq
  <2>2. CASE journal' = journal
    BY <2>1, <2>2
  <2>3. ASSUME NEW e, journal' = Append(journal, e)
        PROVE  i <= Len(journal') /\ journal'[i] = journal[i]
    BY <2>1, <2>3, Appended
  <2>4. CASE CutTo(journal, RestartAt, journal')
    <3>1. i <= Len(journal')
      BY <2>1, <2>4 DEF CutTo, Counted
    <3>2. Len(journal') \in Nat
      BY <2>1, <2>4 DEF CutTo
    <3> QED
      BY <2>4, <3>1, <3>2 DEF CutTo
  <2> QED
    BY <2>1, <2>2, <2>3, <2>4 DEF JournalStep
<1> QED
  BY <1>1, RunInvariant, ControlInvariant, PTL DEF Spec, CommittedSurvives

-----------------------------------------------------------------------------
(* Whatever the Step reports: an unknown verdict leaves a session and a     *)
(* checkpoint one batch ahead of the journal, but no line of its own, so    *)
(* what the journal says of files and of a closed run holds all the same.  *)

(* Files behind an append ... *)
LEMMA FilesAppended ==
    ASSUME NEW j, IsSeq(j), FilesOnce(j), NEW e, TakesFile(e) => e.val \notin Taken(j)
    PROVE  /\ FilesOnce(Append(j, e))
           /\ Taken(Append(j, e)) = IF TakesFile(e) THEN Taken(j) \cup {e.val} ELSE Taken(j)
           /\ HasLevel(Append(j, e)) <=> HasLevel(j) \/ e.t = "level"
<1> DEFINE t == Append(j, e)
           n == Len(j) + 1
<1>1. /\ Len(j) \in Nat /\ Len(t) = n /\ t[n] = e
      /\ \A i \in 1..Len(j) : t[i] = j[i]
  BY Appended
<1> HIDE DEF t
<1>2. /\ n \in 1..Len(t) /\ \A i \in 1..Len(j) : i \in 1..Len(t)
      /\ \A i \in 1..Len(t) : i = n \/ i \in 1..Len(j)
  BY <1>1
<1>3. Taken(t) = IF TakesFile(e) THEN Taken(j) \cup {e.val} ELSE Taken(j)
  BY <1>1, <1>2 DEF Taken
<1>4. FilesOnce(t)
  <2>1. \A i \in 1..Len(j) : TakesFile(j[i]) => j[i].val \in Taken(j)
    BY DEF Taken
  <2> QED
    BY <1>1, <1>2, <2>1 DEF FilesOnce
<1>5. HasLevel(t) <=> HasLevel(j) \/ e.t = "level"
  BY <1>1, <1>2 DEF HasLevel
<1> QED
  BY <1>3, <1>4, <1>5 DEF t

(* ... and in what a restart or a fork keeps. *)
LEMMA FilesKept ==
    ASSUME NEW j, IsSeq(j), FilesOnce(j), NEW c
    PROVE  /\ IsSeq(KeptAt(j, c)) /\ FilesOnce(KeptAt(j, c))
           /\ HasLevel(KeptAt(j, c)) => HasLevel(j)
<1> DEFINE X == {j[i] : i \in 1..Len(j)}
           S == {i \in 1..Len(j) : j[i].t # "end" /\ j[i].batch <= c}
           t == AtPositions(j, S)
<1>1. j \in Seq(X) /\ S \in SUBSET (1..Len(j))
  BY DEF IsSeq
<1>2. Places(S, Len(j))
  BY <1>1 DEF Places
<1> HIDE DEF X, S
<1>3. /\ t \in Seq(X) /\ Len(t) = Cardinality(S)
      /\ \A n \in 1..Len(t) : t[n] = j[Nth(S, n)] /\ Nth(S, n) \in 1..Len(j)
  <2>1. /\ t \in Seq(X) /\ Len(t) = Cardinality(S)
        /\ \A n \in 1..Cardinality(S) : t[n] = j[Nth(S, n)] /\ Nth(S, n) \in S
    BY <1>1, AtPlaces
  <2> HIDE DEF t
  <2>2. \A i \in S : i \in 1..Len(j)
    BY <1>1
  <2> QED
    BY <2>1, <2>2
<1>4. \A n, m \in 1..Len(t) : Nth(S, n) = Nth(S, m) => n = m
  BY <1>2, <1>3, NthIs
<1> HIDE DEF t
<1>5. IsSeq(t)
  <2>1. t \in Seq(X)
    BY <1>3
  <2>2. t \in Seq({t[i] : i \in 1..Len(t)})
    BY <2>1
  <2> QED
    BY <2>2 DEF IsSeq
<1>6. FilesOnce(t)
  BY <1>3, <1>4 DEF FilesOnce
<1>7. HasLevel(t) => HasLevel(j)
  BY <1>3 DEF HasLevel
<1> QED
  BY <1>5, <1>6, <1>7 DEF KeptAt, t, S

(* What a step may do to the journal of a closed run. *)
StaysClosed ==
    HasLevel(journal) =>
        \/ journal' = journal
        \/ \E e : journal' = Append(journal, e) /\ e.t = "end"
        \/ forks' = forks + 1

(* Steps that write no line. *)
NoLine ==
    /\ Live /\ UNCHANGED <<journal, inbox, forks>>
    /\ drv'.taken = drv.taken /\ drv'.ended = drv.ended
    /\ drv'.pc = "inbox" => drv'.queue \subseteq Files \ drv.taken
    /\ drv.ended => drv'.pc \in AfterEnd
    /\ drv.pc \in Closing => drv'.pc \in Closing

LEMMA NoLineKeeps == ASSUME KeepsInv, NoLine PROVE KeepsInv' /\ StaysClosed
BY DEF KeepsInv, NoLine, Tracks, StaysClosed

(* Steps that write one. *)
Line(e) ==
    /\ Live /\ UNCHANGED <<inbox, forks>>
    /\ journal' = Append(journal, e)
    /\ TakesFile(e) => e.val \notin drv.taken
    /\ drv'.taken = IF TakesFile(e) THEN drv.taken \cup {e.val} ELSE drv.taken
    /\ drv'.pc = "inbox" => drv'.queue \subseteq Files \ drv'.taken
    /\ drv'.ended \in BOOLEAN
    /\ drv'.ended => drv'.pc \in AfterEnd
    /\ HasLevel(journal) => e.t = "end" /\ drv'.ended
    /\ e.t = "level" => drv'.pc \in Closing

LEMMA LineKeeps == ASSUME KeepsInv, NEW e, Line(e) PROVE KeepsInv' /\ StaysClosed
<1>1. /\ IsSeq(journal) /\ FilesOnce(journal) /\ Tracks /\ journal' = Append(journal, e)
      /\ UNCHANGED <<inbox, forks>>
  BY DEF KeepsInv, Line
<1>2. /\ IsSeq(journal') /\ FilesOnce(journal')
      /\ Taken(journal') = IF TakesFile(e) THEN Taken(journal) \cup {e.val} ELSE Taken(journal)
      /\ HasLevel(journal') <=> HasLevel(journal) \/ e.t = "level"
  <2>1. TakesFile(e) => e.val \notin Taken(journal)
    BY <1>1 DEF Line, Tracks
  <2> QED
    BY <1>1, <2>1, Appended, FilesAppended
<1>3. Tracks'
  BY <1>1, <1>2 DEF Tracks, Line
<1>4. StaysClosed
  BY <1>1 DEF StaysClosed, Line
<1> QED
  BY <1>1, <1>2, <1>3, <1>4 DEF KeepsInv

(* A driver is only outside of Closing and AfterEnd while its run is open. *)
LEMMA OpenRun ==
    ASSUME KeepsInv, Live, drv.pc \notin AfterEnd
    PROVE  ~drv.ended /\ (drv.pc \notin Closing => ~HasLevel(journal))
BY DEF KeepsInv, Tracks

LEMMA LinesKeep ==
    ASSUME KeepsInv, Live => DOMAIN drv = Fields, NEW i, NEW v,
           \/ EmitSeed \/ KeepNew \/ Raise \/ NextLevel \/ LevelRejected \/ Finish
           \/ ApplyGrowCase(i) /\ journal' # journal
           \/ Advance(v) /\ journal' # journal
           \/ Commit
    PROVE  KeepsInv' /\ StaysClosed
<1> DEFINE Plain(e) == e.t \notin {"end", "level", "evidence", "evidence_rejected"}
<1>0. ASSUME NEW e, Plain(e), journal' = Append(journal, e), UNCHANGED <<inbox, forks>>,
             Live, ~drv.ended, ~HasLevel(journal),
             drv'.taken = drv.taken, drv'.ended = drv.ended, drv'.pc # "inbox"
      PROVE  KeepsInv' /\ StaysClosed
  <2>1. Line(e)
    BY <1>0 DEF Line, TakesFile, KeepsInv, Tracks
  <2> QED
    BY <2>1, LineKeeps
<1>1. CASE EmitSeed
  <2>1. PICK e : journal' = Append(journal, e) /\ e.t = "seed"
    BY <1>1, EventIs DEF EmitSeed, Emit
  <2> QED
    BY <1>0, <1>1, <2>1, OpenRun DEF EmitSeed, Wrote, Live, Fields, AfterEnd, Closing
<1>2. CASE KeepNew
  <2>1. PICK e : journal' = Append(journal, e) /\ e.t = "kept"
    BY <1>2, EventIs DEF KeepNew, Emit
  <2> QED
    BY <1>0, <1>2, <2>1, OpenRun DEF KeepNew, Wrote, Live, Fields, AfterEnd, Closing
<1>3. CASE Raise
  <2>1. PICK e : journal' = Append(journal, e) /\ e.t = "budget"
    BY <1>3, EventIs DEF Raise, Emit
  <2> QED
    BY <1>0, <1>3, <2>1, OpenRun DEF Raise, Wrote, Live, Fields, AfterEnd, Closing
<1>4. CASE NextLevel
  <2>1. PICK e : journal' = Append(journal, e) /\ e.t = "level_next"
    BY <1>4, EventIs DEF NextLevel, Emit
  <2> QED
    BY <1>0, <1>4, <2>1, OpenRun DEF NextLevel, Wrote, Live, Fields, AfterEnd, Closing
<1>5. CASE LevelRejected
  <2>1. PICK e : journal' = Append(journal, e) /\ e.t = "level_rejected"
    BY <1>5, EventIs DEF LevelRejected, Emit
  <2> QED
    BY <1>0, <1>5, <2>1, OpenRun DEF LevelRejected, Wrote, Live, Fields, AfterEnd, Closing
<1>6. CASE Finish
  <2>1. PICK e : journal' = Append(journal, e) /\ e.t = "level"
    BY <1>6, EventIs DEF Finish, Emit
  <2>2. Live /\ ~drv.ended /\ ~HasLevel(journal) /\ UNCHANGED <<inbox, forks>>
    BY <1>6, OpenRun DEF Finish, Live, AfterEnd, Closing
  <2>3. drv'.taken = drv.taken /\ drv'.ended = drv.ended /\ drv'.pc = "end"
    BY <1>6, <2>2 DEF Finish, Wrote, Fields
  <2>4. Line(e)
    BY <2>1, <2>2, <2>3 DEF Line, TakesFile, KeepsInv, Tracks, Closing
  <2> QED
    BY <2>4, LineKeeps
<1>7. CASE ApplyGrowCase(i) /\ journal' # journal
  <2>1. PICK e : journal' = Append(journal, e) /\ e.t = "steer"
    BY <1>7, EventIs DEF ApplyGrowCase, Emit
  <2>2. Live /\ ~drv.ended /\ ~HasLevel(journal) /\ UNCHANGED <<inbox, forks>>
    BY <1>7 DEF ApplyGrowCase, Serving, Live, KeepsInv, Tracks, Closing
  <2>3. drv'.taken = drv.taken /\ drv'.ended = drv.ended /\ drv'.pc = "ack"
    BY <1>7, <2>2 DEF ApplyGrowCase, Reply, Fields
  <2> QED
    BY <1>0, <2>1, <2>2, <2>3
<1>8. CASE Advance(v) /\ journal' # journal
  <2>1. PICK e : journal' = Append(journal, e) /\ e.t = "records"
    BY <1>8, EventIs DEF Advance, Emit
  <2>2. Live /\ ~drv.ended /\ ~HasLevel(journal) /\ UNCHANGED <<inbox, forks>>
    BY <1>8, OpenRun DEF Advance, Live, AfterEnd, Closing
  <2>3. drv'.taken = drv.taken /\ drv'.ended = drv.ended /\ drv'.pc = "commit"
    BY <1>8, <2>2 DEF Advance, Advanced, Fields
  <2> QED
    BY <1>0, <2>1, <2>2, <2>3
<1>9. CASE Commit
  <2>1. PICK e : journal' = Append(journal, e) /\ e.t = "batch"
    <3>1. BatchEvent(drv.seq + 1, Batch, drv.ranAt, drv.verdict, drv.streak).t = "batch"
      BY DEF BatchEvent, Event
    <3> QED
      BY <1>9, <3>1 DEF Commit
  <2> QED
    BY <1>0, <1>9, <2>1, OpenRun DEF Commit, Wrote, Live, Fields, AfterEnd, Closing
<1> QED
  BY <1>1, <1>2, <1>3, <1>4, <1>5, <1>6, <1>7, <1>8, <1>9

LEMMA EndKeeps ==
    ASSUME KeepsInv, Live => DOMAIN drv = Fields, EmitEnd
    PROVE  KeepsInv' /\ StaysClosed
<1>1. PICK e : journal' = Append(journal, e) /\ e.t = "end"
  <2>1. EndEvent(drv.seq + 1, Batch, drv.outcome).t = "end"
    BY DEF EndEvent, Event
  <2> QED
    BY <2>1 DEF EmitEnd
<1>2. /\ Live /\ UNCHANGED <<inbox, forks>>
      /\ drv'.taken = drv.taken /\ drv'.ended = TRUE /\ drv'.pc \in {"poll", "ack"}
  BY DEF EmitEnd, Wrote, Caller, Live, Fields
<1>3. Line(e)
  BY <1>1, <1>2 DEF Line, TakesFile, AfterEnd
<1> QED
  BY <1>3, LineKeeps

LEMMA TakeFileKeeps ==
    ASSUME KeepsInv, Live => DOMAIN drv = Fields, TakeFile
    PROVE  KeepsInv' /\ StaysClosed
<1> DEFINE f == Min(drv.queue)
           t == IF f \notin BadFiles THEN "evidence" ELSE "evidence_rejected"
           e == Event(drv.seq + 1, t, Batch, f)
<1>1. /\ Live /\ Tracks /\ DOMAIN drv = Fields /\ drv.pc = "inbox"
      /\ ~drv.ended /\ ~HasLevel(journal) /\ drv.queue \subseteq Files \ drv.taken
  BY OpenRun DEF KeepsInv, TakeFile, Live, AfterEnd, Closing, Tracks
<1>2. f \in drv.queue
  <2>1. drv.queue \in SUBSET Nat /\ drv.queue # {}
    BY <1>1, ConfigAssumption DEF TakeFile
  <2> QED
    BY <2>1, MinIs
<1>3. /\ journal' = Append(journal, e) /\ UNCHANGED <<inbox, forks>>
      /\ drv' = [Wrote("inbox") EXCEPT !.queue = @ \ {f}, !.taken = @ \cup {f},
                     !.evid = IF f \notin BadFiles THEN Append(@, f) ELSE @]
  BY DEF TakeFile, Emit
<1>4. e.t = t /\ e.val = f
  BY EventIs
<1> HIDE DEF e
<1>5. TakesFile(e) /\ e.t # "level"
  BY <1>4 DEF TakesFile
<1> HIDE DEF f
<1>6. /\ drv'.taken = drv.taken \cup {f} /\ drv'.ended = drv.ended
      /\ drv'.pc = "inbox" /\ drv'.queue = drv.queue \ {f}
  BY <1>1, <1>3 DEF Wrote, Fields
<1>7. drv'.ended = FALSE /\ drv'.queue \subseteq Files \ drv'.taken
  BY <1>1, <1>6 DEF Tracks
<1>8. Line(e)
  BY <1>1, <1>2, <1>3, <1>4, <1>5, <1>6, <1>7 DEF Line
<1> QED
  BY <1>8, LineKeeps

(* The steps that write nothing, those of an unknown verdict among them. *)
LEMMA NoLines ==
    ASSUME KeepsInv, Live => DOMAIN drv = Fields, NEW i, NEW v,
           \/ Poll \/ Ack
           \/ ApplyAfterEnd(i) \/ ApplyPause(i) \/ ApplyResume(i) \/ ApplyCheckpoint(i)
           \/ ApplyStep(i) \/ ApplyStop(i)
           \/ ApplyGrowCase(i) /\ journal' = journal
           \/ ControlDone /\ drv' # Off
           \/ BatchStart \/ KeepDone \/ RaisePastCeiling \/ PeriodicCheckpoint
           \/ Fault \/ EndCheckpoint
           \/ Advance(v) /\ journal' = journal
           \/ AdvanceUnknown
    PROVE  KeepsInv' /\ StaysClosed
<1>1. CASE Quiet
  <2>1. NoLine
    BY <1>1 DEF Quiet, NoLine
  <2> QED
    BY <2>1, NoLineKeeps
<1>2. CASE AdvanceUnknown
  <2>1. Live /\ drv.pc = "inbox" /\ ~drv.ended /\ UNCHANGED <<journal, inbox, forks>>
    BY <1>2, OpenRun DEF AdvanceUnknown, Live, AfterEnd, disk
  <2>2. drv'.taken = drv.taken /\ drv'.ended = drv.ended /\ drv'.pc = "end"
    BY <1>2, <2>1 DEF AdvanceUnknown, Fields
  <2>3. NoLine
    BY <2>1, <2>2 DEF NoLine, Closing
  <2> QED
    BY <2>3, NoLineKeeps
<1>3. CASE Advance(v) /\ journal' = journal
  <2>1. Live /\ drv.pc = "inbox" /\ UNCHANGED <<journal, inbox, forks>>
    BY <1>3 DEF Advance, Live
  <2>2. ~drv.ended
    BY <2>1, OpenRun DEF AfterEnd
  <2>3. drv'.taken = drv.taken /\ drv'.ended = drv.ended /\ drv'.pc = "commit"
    <3>1. CASE drv' = Advanced(v)
      BY <2>1, <3>1 DEF Advanced, Fields
    <3>2. CASE drv' = [Advanced(v) EXCEPT !.seq = @ + 1]
      BY <2>1, <3>2 DEF Advanced, Fields
    <3> QED
      BY <1>3, <3>1, <3>2 DEF Advance
  <2>4. NoLine
    BY <2>1, <2>2, <2>3 DEF NoLine, Closing
  <2> QED
    BY <2>4, NoLineKeeps
<1> QED
  BY <1>1, <1>2, <1>3, QuietControl, QuietBatch

(* A driver that leaves, or opens. *)
LEMMA GoneKeeps ==
    ASSUME KeepsInv, ~Live', UNCHANGED <<inbox, forks>>,
           journal' = journal \/ \E code : RecordFault(code)
    PROVE  KeepsInv' /\ StaysClosed
<1>1. journal' = journal \/ \E e : journal' = Append(journal, e) /\ e.t = "end"
  <2>1. ASSUME NEW code, RecordFault(code), journal' # journal
        PROVE  \E e : journal' = Append(journal, e) /\ e.t = "end"
    <3>1. EndEvent(LastSeq(journal) + 1, LastBatch(journal), code).t = "end"
      BY DEF EndEvent, Event
    <3> QED
      BY <2>1, <3>1 DEF RecordFault
  <2> QED
    BY <2>1
<1>2. IsSeq(journal') /\ FilesOnce(journal')
  <2>1. IsSeq(journal) /\ FilesOnce(journal)
    BY DEF KeepsInv
  <2>2. ASSUME NEW e, journal' = Append(journal, e), e.t = "end"
        PROVE  IsSeq(journal') /\ FilesOnce(journal')
    <3>1. ~TakesFile(e)
      BY <2>2 DEF TakesFile
    <3> QED
      BY <2>1, <2>2, <3>1, Appended, FilesAppended
  <2>3. CASE journal' = journal
    BY <2>1, <2>3
  <2> QED
    BY <1>1, <2>2, <2>3
<1> QED
  BY <1>1, <1>2 DEF KeepsInv, StaysClosed

LEMMA OpenKeeps == ASSUME KeepsInv, Open PROVE KeepsInv' /\ StaysClosed
<1>1. CASE OpenFresh
  <2> DEFINE e == Event(1, "start", 0, 0)
             o == Opened(journal', <<>>, MaxBatches + 1)
  <2>1. /\ journal = <<>> /\ IsSeq(journal) /\ Len(journal) = 0 /\ UNCHANGED <<inbox, forks>>
        /\ drv' = [o EXCEPT !.pc = "seed"] /\ e.t = "start"
    BY <1>1, NoneYet, EventIs DEF OpenFresh
  <2>2. journal' = Append(journal, e)
    BY <1>1, <2>1 DEF OpenFresh
  <2> HIDE DEF e
  <2>3. /\ IsSeq(journal') /\ FilesOnce(journal') /\ ~HasLevel(journal')
        /\ ~HasLevel(journal)
    <3>1. FilesOnce(journal) /\ ~HasLevel(journal)
      BY <2>1 DEF FilesOnce, HasLevel
    <3> QED
      BY <2>1, <2>2, <3>1, Appended, FilesAppended DEF TakesFile
  <2>4. drv'.taken = Taken(journal') /\ drv'.ended = FALSE /\ drv'.pc = "seed"
    BY <2>1 DEF Opened
  <2> QED
    BY <2>1, <2>3, <2>4 DEF KeepsInv, Tracks, StaysClosed
<1>2. CASE OpenResume
  <2> DEFINE kept == KeptAt(journal, RestartAt)
             o == Opened(kept, RestoredHistory(RestartAt, kept), LastCheckpoint(RestartAt))
  <2>1. /\ journal' = kept /\ UNCHANGED <<inbox, forks>> /\ ~HasLevel(journal)
        /\ drv' = [o EXCEPT !.deferred = Deferred(journal, RestartAt)]
    BY <1>2 DEF OpenResume, Resumable
  <2>2. IsSeq(kept) /\ FilesOnce(kept) /\ ~HasLevel(kept)
    BY <2>1, FilesKept DEF KeepsInv
  <2> HIDE DEF kept
  <2>3. drv'.taken = Taken(kept) /\ drv'.ended = FALSE /\ drv'.pc = "poll"
    BY <2>1 DEF Opened
  <2> QED
    BY <2>1, <2>2, <2>3 DEF KeepsInv, Tracks, StaysClosed
<1>3. CASE OpenRefused \/ OpenFault
  BY <1>3, GoneKeeps DEF OpenRefused, OpenFault, Live
<1> QED
  BY <1>1, <1>2, <1>3 DEF Open

LEMMA StepKeeps == ASSUME KeepsInv, ControlInv, [Next]_vars PROVE KeepsInv' /\ StaysClosed
<1>0. Live => DOMAIN drv = Fields
  BY DEF ControlInv
<1>1. CASE Control
  <2>1. CASE ControlDone /\ drv' = Off
    BY <2>1, GoneKeeps DEF ControlDone, disk, Live, Off
  <2>2. CASE Poll \/ Ack \/ (ControlDone /\ drv' # Off)
    BY <1>0, <2>2, NoLines
  <2>3. ASSUME NEW i \in 1..Len(requests),
               \/ ApplyAfterEnd(i) \/ ApplyPause(i) \/ ApplyResume(i) \/ ApplyCheckpoint(i)
               \/ ApplyStep(i) \/ ApplyStop(i) \/ ApplyGrowCase(i)
        PROVE  KeepsInv' /\ StaysClosed
    BY <1>0, <2>3, NoLines, LinesKeep
  <2> QED
    BY <1>1, <2>1, <2>2, <2>3 DEF Control
<1>2. CASE RunBatch
  BY <1>0, <1>2, NoLines, LinesKeep, TakeFileKeeps DEF RunBatch
<1>3. CASE EmitSeed \/ Close
  BY <1>0, <1>3, LinesKeep DEF Close
<1>4. CASE Fault
  BY <1>0, <1>4, NoLines
<1>5. CASE End
  <2>1. CASE EscapedFault
    BY <2>1, GoneKeeps DEF EscapedFault, Live, Off
  <2> QED
    BY <1>0, <1>5, <2>1, NoLines, EndKeeps DEF End
<1>6. CASE Environment
  <2>1. CASE Crash
    BY <2>1, GoneKeeps DEF Crash, disk, Live, Off
  <2>2. ASSUME UNCHANGED <<journal, drv, forks>>, inbox' \subseteq Files
        PROVE  KeepsInv' /\ StaysClosed
    BY <2>2 DEF KeepsInv, Tracks, Live, StaysClosed
  <2>3. ASSUME NEW f \in Files, DropFile(f)
        PROVE  KeepsInv' /\ StaysClosed
    BY <2>2, <2>3 DEF DropFile, Viewer, KeepsInv
  <2>4. ASSUME NEW a, NEW c, SendRequest(a, c)
        PROVE  KeepsInv' /\ StaysClosed
    BY <2>2, <2>4 DEF SendRequest, Viewer, KeepsInv
  <2>5. ASSUME NEW k \in ckpts, Fork(k)
        PROVE  KeepsInv' /\ StaysClosed
    <3>1. /\ journal' = KeptAt(journal, k.batch) /\ inbox' = {} /\ forks' = forks + 1
          /\ ~Live'
      BY <2>5 DEF Fork, Live, Off
    <3>2. IsSeq(journal') /\ FilesOnce(journal')
      BY <3>1, FilesKept DEF KeepsInv
    <3> QED
      BY <3>1, <3>2 DEF KeepsInv, StaysClosed
  <2> QED
    BY <1>6, <2>1, <2>3, <2>4, <2>5 DEF Environment
<1>7. CASE UNCHANGED vars
  BY <1>7 DEF vars, KeepsInv, Tracks, Live, StaysClosed
<1> QED
  BY <1>1, <1>2, <1>3, <1>4, <1>5, <1>6, <1>7, OpenKeeps DEF Next, DriverStep

(* What a driver takes for taken is what its journal took, in every
   reachable state. *)
THEOREM KeepsInvariant == Spec => []KeepsInv
<1>1. Init => KeepsInv
  <2>1. ASSUME Init PROVE KeepsInv
    <3>1. IsSeq(journal) /\ Len(journal) = 0 /\ inbox = {} /\ forks = 0 /\ ~Live
      BY <2>1, NoneYet DEF Init, Live, Off
    <3> QED
      BY <3>1 DEF KeepsInv, FilesOnce
  <2> QED
    BY <2>1
<1>2. KeepsInv /\ ControlInv /\ [Next]_vars => KeepsInv'
  BY StepKeeps
<1> QED
  BY <1>1, <1>2, ControlInvariant, PTL DEF Spec

(* take_inbox and replay: no inbox file enters the evidence twice, whatever
   a restart dropped and takes again. *)
THEOREM FilesTakenOnce == Spec => []TakenOnce
<1>1. KeepsInv => TakenOnce
  BY DEF KeepsInv, FilesOnce, TakenOnce
<1> QED
  BY <1>1, KeepsInvariant, PTL

(* resumable: once a level event is in the journal it stays there, and no
   driver adds a batch. *)
THEOREM ClosedStaysClosed == Spec => ClosedIsFinal
<1>1. KeepsInv /\ ControlInv /\ [Next]_vars =>
          [forks' = forks /\ HasLevel(journal)
             => HasLevel(journal') /\ LastBatch(journal') = LastBatch(journal)]_vars
  <2> SUFFICES ASSUME KeepsInv, ControlInv, [Next]_vars, forks' = forks, HasLevel(journal)
               PROVE  HasLevel(journal') /\ LastBatch(journal') = LastBatch(journal)
    OBVIOUS
  <2>1. StaysClosed /\ IsSeq(journal) /\ FilesOnce(journal) /\ forks \in Nat
    BY StepKeeps DEF KeepsInv
  <2>2. CASE journal' = journal
    BY <2>2
  <2>3. ASSUME NEW e, journal' = Append(journal, e), e.t = "end"
        PROVE  HasLevel(journal') /\ LastBatch(journal') = LastBatch(journal)
    BY <2>1, <2>3, LastBatchAppended, FilesAppended DEF IsBatch, TakesFile
  <2> QED
    BY <2>1, <2>2, <2>3 DEF StaysClosed
<1> QED
  BY <1>1, KeepsInvariant, ControlInvariant, PTL DEF Spec, ClosedIsFinal

=============================================================================
