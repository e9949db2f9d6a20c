-------------------------- MODULE DreamRestartProofs --------------------------
(***************************************************************************)
(* Theorems of DreamDriver about what a restart finds: the ladder the      *)
(* driver climbs is the one ladder_of would fold from its journal, whatever *)
(* the Step reports; and, where it reports no unknown verdict, a           *)
(* checkpoint is never further behind than checkpoint_every batches, the   *)
(* session is the one the journal describes, and the run directory is a    *)
(* RunStore.                                                               *)
(*                                                                         *)
(* The ladder in memory is ahead of the journal from advance to the batch  *)
(* line (the streak) and to the budget line (a raise); elsewhere an event  *)
(* is journaled in the very step that moves it.  Between the newest         *)
(* checkpoint and the last batch there is no batch that was due, but for   *)
(* the last one until its period has been looked at; and of                *)
(* checkpoint_every batches in a row one is due.                           *)
(*                                                                         *)
(* The session in memory is the one the journal describes, ahead of it by  *)
(* the batch that ran from advance to the batch line, and every checkpoint *)
(* is the session of some prefix of the journal: so a restart, which cuts  *)
(* the journal at its checkpoint and grows again what was steered since,   *)
(* restores the session the journal describes.                             *)
(*                                                                         *)
(* So every step of the driver is one of the store's or a stutter.  An     *)
(* appended line adds at most one state, behind all there were; a restart  *)
(* and a fork go back to the last state of the batch they cut at, because  *)
(* the states of a cut journal are those of its batches.                   *)
(***************************************************************************)
EXTENDS DreamRunProofs, SequenceTheorems

-----------------------------------------------------------------------------
(* The folds over an appended journal *)

(* The events since the level in force began *)
LEMMA ThisLevelIs ==
    ASSUME NEW j, IsSeq(j)
    PROVE  /\ LevelIndex(j) \in 0..Len(j) /\ Len(j) \in Nat /\ IsSeq(ThisLevel(j))
           /\ Len(ThisLevel(j)) = Len(j) - LevelIndex(j)
           /\ \A i \in 1..Len(ThisLevel(j)) : ThisLevel(j)[i] = j[LevelIndex(j) + i]
<1> DEFINE S == {j[i] : i \in 1..Len(j)}
           m == LevelIndex(j) + 1
           l == SubSeq(j, m, Len(j))
<1>1. LevelIndex(j) \in 0..Len(j) /\ Len(j) \in Nat /\ j \in Seq(S)
  <2>1. Len(j) \in Nat /\ j \in Seq(S)
    BY DEF IsSeq
  <2> QED
    BY <2>1, LevelIs
<1>2. /\ l \in Seq(S) /\ Len(l) = Len(j) - LevelIndex(j)
      /\ \A i \in 1..Len(l) : l[i] = j[LevelIndex(j) + i]
  <2> HIDE DEF S
  <2>1. \A i \in m..Len(j) : j[i] \in S
    BY <1>1
  <2> QED
    BY <1>1, <2>1
<1>3. l \in Seq({l[i] : i \in 1..Len(l)})
  <2> HIDE DEF l, S
  <2> QED
    BY <1>2
<1> QED
  BY <1>1, <1>2, <1>3 DEF ThisLevel, IsSeq

(* The last event of a kind since the level in force began *)
LEMMA WatermarkIs ==
    ASSUME NEW j, IsSeq(j)
    PROVE  \/ /\ \A i \in 1..Len(j) : j[i].t = "budget" => i <= LevelIndex(j)
              /\ Watermark(j) = 0
           \/ \E i \in 1..Len(j) :
                 /\ LevelIndex(j) < i /\ j[i].t = "budget" /\ Watermark(j) = j[i].val
                 /\ \A k \in 1..Len(j) : j[k].t = "budget" => k <= i
<1> DEFINE l == ThisLevel(j)
           f == LevelIndex(j)
           I == {i \in 1..Len(l) : l[i].t = "budget"}
<1>1. /\ f \in 0..Len(j) /\ Len(j) \in Nat /\ Len(l) = Len(j) - f
      /\ \A i \in 1..Len(l) : l[i] = j[f + i]
  BY ThisLevelIs
<1> HIDE DEF l, f
<1>2. Len(l) \in Nat /\ I \in SUBSET (0..Len(l))
  BY <1>1
<1>3. Watermark(j) = LET i == IF I # {} THEN Max(I) ELSE 0 IN IF i = 0 THEN 0 ELSE l[i].val
  BY DEF Watermark, SelectLastInSeq, l
<1>4. CASE I = {}
  <2>1. ASSUME NEW i \in 1..Len(j), j[i].t = "budget", ~(i <= f)
        PROVE  FALSE
    <3>1. i - f \in 1..Len(l) /\ l[i - f] = j[i]
      BY <1>1, <2>1
    <3> QED
      BY <1>4, <2>1, <3>1
  <2> QED
    BY <1>3, <1>4, <2>1 DEF f
<1>5. CASE I # {}
  <2> DEFINE x == Max(I)
  <2>1. x \in I /\ \A y \in I : y <= x
    <3> HIDE DEF I
    <3> QED
      BY <1>2, <1>5, MaxIs
  <2> HIDE DEF x
  <2>2. /\ x \in 1..Len(l) /\ f + x \in 1..Len(j) /\ f < f + x
        /\ l[x] = j[f + x] /\ l[x].t = "budget"
    BY <1>1, <2>1
  <2>3. Watermark(j) = j[f + x].val
    BY <1>3, <1>5, <2>2 DEF x
  <2>4. ASSUME NEW k \in 1..Len(j), j[k].t = "budget"
        PROVE  k <= f + x
    <3>1. CASE k <= f
      BY <1>1, <2>2, <3>1
    <3>2. CASE ~(k <= f)
      <4>1. k - f \in 1..Len(l) /\ l[k - f] = j[k]
        BY <1>1, <3>2
      <4>2. k - f <= x
        BY <2>1, <2>4, <4>1
      <4> QED
        BY <1>1, <2>2, <4>2
    <3> QED
      BY <3>1, <3>2
  <2> QED
    BY <2>2, <2>3, <2>4 DEF f
<1> QED
  BY <1>4, <1>5

LEMMA StreakIs ==
    ASSUME NEW j, IsSeq(j)
    PROVE  \/ /\ \A i \in 1..Len(j) : IsBatch(j[i]) => i <= LevelIndex(j)
              /\ Streak(j) = 0
           \/ \E i \in 1..Len(j) :
                 /\ LevelIndex(j) < i /\ IsBatch(j[i]) /\ Streak(j) = j[i].streak
                 /\ \A k \in 1..Len(j) : IsBatch(j[k]) => k <= i
<1> DEFINE l == ThisLevel(j)
           f == LevelIndex(j)
           I == {i \in 1..Len(l) : IsBatch(l[i])}
<1>1. /\ f \in 0..Len(j) /\ Len(j) \in Nat /\ Len(l) = Len(j) - f
      /\ \A i \in 1..Len(l) : l[i] = j[f + i]
  BY ThisLevelIs
<1> HIDE DEF l, f
<1>2. Len(l) \in Nat /\ I \in SUBSET (0..Len(l))
  BY <1>1
<1>3. Streak(j) = LET i == IF I # {} THEN Max(I) ELSE 0 IN IF i = 0 THEN 0 ELSE l[i].streak
  BY DEF Streak, SelectLastInSeq, l
<1>4. CASE I = {}
  <2>1. ASSUME NEW i \in 1..Len(j), IsBatch(j[i]), ~(i <= f)
        PROVE  FALSE
    <3>1. i - f \in 1..Len(l) /\ l[i - f] = j[i]
      BY <1>1, <2>1
    <3> QED
      BY <1>4, <2>1, <3>1
  <2> QED
    BY <1>3, <1>4, <2>1 DEF f
<1>5. CASE I # {}
  <2> DEFINE x == Max(I)
  <2>1. x \in I /\ \A y \in I : y <= x
    <3> HIDE DEF I
    <3> QED
      BY <1>2, <1>5, MaxIs
  <2> HIDE DEF x
  <2>2. /\ x \in 1..Len(l) /\ f + x \in 1..Len(j) /\ f < f + x
        /\ l[x] = j[f + x] /\ IsBatch(l[x])
    BY <1>1, <2>1
  <2>3. Streak(j) = j[f + x].streak
    BY <1>3, <1>5, <2>2 DEF x
  <2>4. ASSUME NEW k \in 1..Len(j), IsBatch(j[k])
        PROVE  k <= f + x
    <3>1. CASE k <= f
      BY <1>1, <2>2, <3>1
    <3>2. CASE ~(k <= f)
      <4>1. k - f \in 1..Len(l) /\ l[k - f] = j[k]
        BY <1>1, <3>2
      <4>2. k - f <= x
        BY <2>1, <2>4, <4>1
      <4> QED
        BY <1>1, <2>2, <4>2
    <3> QED
      BY <3>1, <3>2
  <2> QED
    BY <2>2, <2>3, <2>4 DEF f
<1> QED
  BY <1>4, <1>5

(* What an append makes of the ladder *)
LEMMA LadderAppended ==
    ASSUME NEW j, NEW e, IsSeq(j)
    PROVE  LET t == Append(j, e)
           IN  /\ e.t = "level_next" => Watermark(t) = 0 /\ Streak(t) = 0
               /\ e.t = "budget" => Watermark(t) = e.val /\ Streak(t) = Streak(j)
               /\ IsBatch(e) => Watermark(t) = Watermark(j) /\ Streak(t) = e.streak
               /\ e.t \notin {"level_next", "budget", "batch"}
                     => Watermark(t) = Watermark(j) /\ Streak(t) = Streak(j)
<1> DEFINE t == Append(j, e)
           n == Len(j) + 1
<1>1. /\ IsSeq(t) /\ Len(j) \in Nat /\ Len(t) = n /\ t[n] = e
      /\ \A i \in 1..Len(j) : t[i] = j[i]
  BY Appended
<1> HIDE DEF t
<1>2. /\ n \in 1..Len(t) /\ \A i \in 1..Len(j) : i \in 1..Len(t) /\ i < n
      /\ \A i \in 1..Len(t) : i = n \/ i \in 1..Len(j)
  BY <1>1
<1>3. LevelIndex(j) \in 0..Len(j) /\ LevelIndex(t) \in 0..Len(t)
  BY <1>1, ThisLevelIs
<1>4. CASE e.t = "level_next"
  <2>1. LevelIndex(t) = n
    <3>1. t[n].t = "level_next"
      BY <1>1, <1>4
    <3> QED
      BY <1>1, <1>2, <3>1, LevelIs
  <2>2. \A i \in 1..Len(t) : i <= LevelIndex(t)
    BY <1>1, <2>1
  <2>3. Watermark(t) = 0
    BY <1>1, <1>3, <2>2, WatermarkIs
  <2>4. Streak(t) = 0
    BY <1>1, <1>3, <2>2, StreakIs
  <2> QED
    BY <1>4, <2>3, <2>4 DEF IsBatch, t
<1>5. CASE e.t # "level_next"
  <2>1. LevelIndex(t) = LevelIndex(j)
    <3>1. CASE \A i \in 1..Len(j) : j[i].t # "level_next"
      <4>1. \A i \in 1..Len(t) : t[i].t # "level_next"
        BY <1>1, <1>2, <1>5, <3>1
      <4>2. LevelIndex(t) = 0
        BY <1>1, <4>1, LevelIs
      <4>3. LevelIndex(j) = 0
        BY <3>1, LevelIs
      <4> QED
        BY <4>2, <4>3
    <3>2. CASE \E i \in 1..Len(j) : j[i].t = "level_next"
      <4>1. /\ LevelIndex(j) \in 1..Len(j) /\ j[LevelIndex(j)].t = "level_next"
            /\ \A k \in 1..Len(j) : j[k].t = "level_next" => k <= LevelIndex(j)
        BY <3>2, LevelIs
      <4>2. /\ LevelIndex(t) \in 1..Len(t) /\ t[LevelIndex(t)].t = "level_next"
            /\ \A k \in 1..Len(t) : t[k].t = "level_next" => k <= LevelIndex(t)
        BY <1>1, <1>2, <4>1, LevelIs
      <4>3. LevelIndex(t) \in 1..Len(j)
        BY <1>1, <1>2, <1>5, <4>2
      <4> QED
        BY <1>1, <1>2, <4>1, <4>2, <4>3
    <3> QED
      BY <3>1, <3>2
  <2>2. ~(n <= LevelIndex(t))
    BY <1>1, <1>3, <2>1
  <2>3. Watermark(t) = IF e.t = "budget" THEN e.val ELSE Watermark(j)
    <3>1. CASE e.t = "budget"
      <4>1. PICK i \in 1..Len(t) :
                 /\ Watermark(t) = t[i].val
                 /\ \A k \in 1..Len(t) : t[k].t = "budget" => k <= i
        BY <1>1, <1>2, <2>2, <3>1, WatermarkIs
      <4>2. i = n
        BY <1>1, <1>2, <3>1, <4>1
      <4> QED
        BY <1>1, <3>1, <4>1, <4>2
    <3>2. CASE e.t # "budget" /\ \A i \in 1..Len(j) : j[i].t = "budget" => i <= LevelIndex(j)
      <4>1. \A i \in 1..Len(t) : t[i].t = "budget" => i <= LevelIndex(t)
        BY <1>1, <1>2, <2>1, <3>2
      <4>2. Watermark(t) = 0
        BY <1>1, <1>3, <4>1, WatermarkIs
      <4>3. Watermark(j) = 0
        BY <1>3, <3>2, WatermarkIs
      <4> QED
        BY <3>2, <4>2, <4>3
    <3>3. CASE e.t # "budget" /\ \E i \in 1..Len(j) : j[i].t = "budget" /\ ~(i <= LevelIndex(j))
      <4>1. PICK m \in 1..Len(j) :
                 /\ j[m].t = "budget" /\ Watermark(j) = j[m].val
                 /\ \A k \in 1..Len(j) : j[k].t = "budget" => k <= m
        BY <3>3, WatermarkIs
      <4>2. PICK i \in 1..Len(t) :
                 /\ t[i].t = "budget" /\ Watermark(t) = t[i].val
                 /\ \A k \in 1..Len(t) : t[k].t = "budget" => k <= i
        BY <1>1, <1>2, <2>1, <3>3, WatermarkIs
      <4>3. i \in 1..Len(j) /\ j[i].t = "budget" /\ m \in 1..Len(t) /\ t[m].t = "budget"
        BY <1>1, <1>2, <3>3, <4>1, <4>2
      <4>4. i = m
        BY <1>1, <4>1, <4>2, <4>3
      <4> QED
        BY <1>1, <3>3, <4>1, <4>2, <4>4
    <3> QED
      BY <3>1, <3>2, <3>3
  <2>4. Streak(t) = IF IsBatch(e) THEN e.streak ELSE Streak(j)
    <3>1. CASE IsBatch(e)
      <4>1. PICK i \in 1..Len(t) :
                 /\ Streak(t) = t[i].streak
                 /\ \A k \in 1..Len(t) : IsBatch(t[k]) => k <= i
        BY <1>1, <1>2, <2>2, <3>1, StreakIs
      <4>2. i = n
        BY <1>1, <1>2, <3>1, <4>1
      <4> QED
        BY <1>1, <3>1, <4>1, <4>2
    <3>2. CASE ~IsBatch(e) /\ \A i \in 1..Len(j) : IsBatch(j[i]) => i <= LevelIndex(j)
      <4>1. \A i \in 1..Len(t) : IsBatch(t[i]) => i <= LevelIndex(t)
        BY <1>1, <1>2, <2>1, <3>2
      <4>2. Streak(t) = 0
        BY <1>1, <1>3, <4>1, StreakIs
      <4>3. Streak(j) = 0
        BY <1>3, <3>2, StreakIs
      <4> QED
        BY <3>2, <4>2, <4>3
    <3>3. CASE ~IsBatch(e) /\ \E i \in 1..Len(j) : IsBatch(j[i]) /\ ~(i <= LevelIndex(j))
      <4>1. PICK m \in 1..Len(j) :
                 /\ IsBatch(j[m]) /\ Streak(j) = j[m].streak
                 /\ \A k \in 1..Len(j) : IsBatch(j[k]) => k <= m
        BY <3>3, StreakIs
      <4>2. PICK i \in 1..Len(t) :
                 /\ IsBatch(t[i]) /\ Streak(t) = t[i].streak
                 /\ \A k \in 1..Len(t) : IsBatch(t[k]) => k <= i
        BY <1>1, <1>2, <2>1, <3>3, StreakIs
      <4>3. i \in 1..Len(j) /\ IsBatch(j[i]) /\ m \in 1..Len(t) /\ IsBatch(t[m])
        BY <1>1, <1>2, <3>3, <4>1, <4>2
      <4>4. i = m
        BY <1>1, <4>1, <4>2, <4>3
      <4> QED
        BY <1>1, <3>3, <4>1, <4>2, <4>4
    <3> QED
      BY <3>1, <3>2, <3>3
  <2> QED
    BY <1>5, <2>3, <2>4 DEF IsBatch, t
<1> QED
  BY <1>4, <1>5

-----------------------------------------------------------------------------
(* The ladder *)

(* Where a raise may still lack its budget line, and where the run is over
   but for its end. *)
Raising == {"commit", "keepBatch", "raise"}
Over == {"end", "emitEnd", "fault"}

LadderHolds ==
    /\ IF drv.pc \in Raising /\ drv.raised THEN drv.wm = Watermark(journal) + 1
                                           ELSE drv.wm = Watermark(journal)
    /\ drv.pc # "commit" => drv.streak = Streak(journal)
LadderInv == Live /\ ~drv.ended /\ drv.pc \notin Over => LadderHolds

(* A step that leaves the ladder alone, in memory and in the journal. *)
Steady ==
    /\ Live
    /\ \/ journal' = journal
       \/ \E e : /\ journal' = Append(journal, e)
                 /\ e.t \notin {"level_next", "budget", "batch"}
    /\ drv'.wm = drv.wm /\ drv'.streak = drv.streak /\ drv'.raised = drv.raised
    /\ drv.ended => drv'.ended
    /\ \/ drv'.pc \in Over \/ drv'.ended
       \/ /\ drv.pc \notin Over \cup {"commit"} /\ drv'.pc # "commit"
          /\ drv.raised => (drv.pc \in Raising <=> drv'.pc \in Raising)

LEMMA SteadyInv == ASSUME KeepsInv, LadderInv, Steady PROVE LadderInv'
<1>1. IsSeq(journal)
  BY DEF KeepsInv
<1>2. Watermark(journal') = Watermark(journal) /\ Streak(journal') = Streak(journal)
  <2>1. CASE journal' = journal
    BY <2>1
  <2>2. ASSUME NEW e, journal' = Append(journal, e), e.t \notin {"level_next", "budget", "batch"}
        PROVE  Watermark(journal') = Watermark(journal) /\ Streak(journal') = Streak(journal)
    BY <1>1, <2>2, LadderAppended
  <2> QED
    BY <2>1, <2>2 DEF Steady
<1>3. CASE drv'.pc \in Over \/ drv'.ended
  BY <1>3 DEF LadderInv
<1>4. CASE ~(drv'.pc \in Over \/ drv'.ended)
  BY <1>2, <1>4 DEF LadderInv, LadderHolds, Steady
<1> QED
  BY <1>3, <1>4

(* The steps that leave it alone: control ... *)
LEMMA SteadyControl ==
    ASSUME KeepsInv, Live => DOMAIN drv = Fields, NEW i,
           \/ Poll \/ Ack
           \/ ApplyAfterEnd(i) \/ ApplyPause(i) \/ ApplyResume(i) \/ ApplyCheckpoint(i)
           \/ ApplyStep(i) \/ ApplyStop(i) \/ ApplyGrowCase(i)
           \/ ControlDone /\ drv' # Off
    PROVE  Steady
<1>1. CASE Poll
  BY <1>1 DEF Poll, Steady, Live, Fields, disk, Over, Raising
<1>2. CASE Ack
  BY <1>2 DEF Ack, Steady, Live, Fields, disk, Over, Raising
<1>3. CASE ApplyAfterEnd(i)
  BY <1>3 DEF ApplyAfterEnd, Serving, Reply, Steady, Live, Fields, disk, Over, Raising
<1>4. CASE ApplyPause(i)
  BY <1>4 DEF ApplyPause, Serving, Reply, Steady, Live, Fields, disk, Over, Raising
<1>5. CASE ApplyResume(i)
  BY <1>5 DEF ApplyResume, Serving, Reply, Steady, Live, Fields, disk, Over, Raising
<1>6. CASE ApplyCheckpoint(i)
  BY <1>6 DEF ApplyCheckpoint, Serving, Reply, Steady, Live, Fields, disk, Over, Raising
<1>7. CASE ApplyStep(i)
  <2>1. CASE drv' = [Reply(i, "applied") EXCEPT !.pc = "batch"]
    BY <1>7, <2>1 DEF ApplyStep, Serving, Reply, Steady, Live, Fields, disk, Over, Raising
  <2>2. CASE drv' = Reply(i, "refused")
    BY <1>7, <2>2 DEF ApplyStep, Serving, Reply, Steady, Live, Fields, disk, Over, Raising
  <2> QED
    BY <1>7, <2>1, <2>2 DEF ApplyStep
<1>8. CASE ApplyStop(i)
  BY <1>8 DEF ApplyStop, Serving, Reply, Steady, Live, Fields, disk, Over, Raising
<1>9. CASE ApplyGrowCase(i)
  <2>1. CASE drv' = Reply(i, "refused") /\ UNCHANGED journal
    BY <1>9, <2>1 DEF ApplyGrowCase, Serving, Reply, Steady, Live, Fields, Over, Raising
  <2>2. CASE /\ Emit("steer", Batch, requests[i].arg)
             /\ drv' = [Reply(i, "applied") EXCEPT !.seq = @ + 1,
                                                   !.hist = Append(@, Grew(requests[i].arg))]
    <3>1. \E e : journal' = Append(journal, e) /\ e.t = "steer"
      BY <2>2, EventIs DEF Emit
    <3> QED
      BY <1>9, <2>2, <3>1 DEF ApplyGrowCase, Serving, Reply, Steady, Live, Fields, Over, Raising
  <2> QED
    BY <1>9, <2>1, <2>2 DEF ApplyGrowCase
<1>10. CASE ControlDone /\ drv' # Off
  BY <1>10 DEF ControlDone, At, Steady, Live, Fields, disk, Over, Raising
<1> QED
  BY <1>1, <1>2, <1>3, <1>4, <1>5, <1>6, <1>7, <1>8, <1>9, <1>10

(* ... and within a batch, at a close and at the end. *)
LEMMA SteadyBatch ==
    ASSUME KeepsInv, Live => DOMAIN drv = Fields,
           \/ EmitSeed \/ BatchStart \/ TakeFile \/ KeepNew \/ KeepDone
           \/ RaisePastCeiling \/ PeriodicCheckpoint \/ LevelRejected \/ Finish
           \/ Fault \/ EndCheckpoint \/ EmitEnd \/ AdvanceUnknown
    PROVE  Steady
<1>1. CASE EmitSeed
  <2>1. \E e : journal' = Append(journal, e) /\ e.t = "seed"
    BY <1>1, EventIs DEF EmitSeed, Emit
  <2> QED
    BY <1>1, <2>1 DEF EmitSeed, Wrote, Steady, Live, Fields, Over, Raising
<1>2. CASE BatchStart
  BY <1>2 DEF BatchStart, Steady, Live, Fields, disk, Over, Raising
<1>3. CASE TakeFile
  <2>1. \E e : journal' = Append(journal, e) /\ e.t \in {"evidence", "evidence_rejected"}
    BY <1>3, EventIs DEF TakeFile, Emit
  <2>2. /\ drv.pc = "inbox" /\ drv'.pc = "inbox" /\ drv'.ended = drv.ended
        /\ drv'.wm = drv.wm /\ drv'.streak = drv.streak /\ drv'.raised = drv.raised
    BY <1>3 DEF TakeFile, Wrote, Live, Fields
  <2> QED
    BY <2>1, <2>2 DEF Steady, Live, Over, Raising
<1>4. CASE KeepNew
  <2>1. \E e : journal' = Append(journal, e) /\ e.t = "kept"
    BY <1>4, EventIs DEF KeepNew, Emit
  <2> QED
    BY <1>4, <2>1 DEF KeepNew, Wrote, Steady, Live, Fields, Over, Raising
<1>5. CASE KeepDone
  BY <1>5 DEF KeepDone, At, Caller, Steady, Live, Fields, disk, Over, Raising
<1>6. CASE RaisePastCeiling
  BY <1>6 DEF RaisePastCeiling, Steady, Live, Fields, disk, Over, Raising
<1>7. CASE PeriodicCheckpoint
  BY <1>7 DEF PeriodicCheckpoint, Caller, Steady, Live, Fields, disk, Over, Raising
<1>8. CASE LevelRejected
  <2>1. \E e : journal' = Append(journal, e) /\ e.t = "level_rejected"
    BY <1>8, EventIs DEF LevelRejected, Emit
  <2> QED
    BY <1>8, <2>1 DEF LevelRejected, Wrote, Steady, Live, Fields, Over, Raising
<1>9. CASE Finish
  <2>1. \E e : journal' = Append(journal, e) /\ e.t = "level"
    BY <1>9, EventIs DEF Finish, Emit
  <2> QED
    BY <1>9, <2>1 DEF Finish, Wrote, Steady, Live, Fields, Over, Raising
<1>10. ASSUME NEW code \in Faults, AdvanceFault(code)
       PROVE  Steady
  BY <1>10 DEF AdvanceFault, Steady, Live, Fields, disk, Over, Raising
<1>11. ASSUME NEW code \in Faults, KeepFault(code)
       PROVE  Steady
  BY <1>11 DEF KeepFault, Steady, Live, Fields, disk, Over, Raising
<1>12. ASSUME NEW code \in Faults, ChainFault(code)
       PROVE  Steady
  BY <1>12 DEF ChainFault, At, Steady, Live, Fields, disk, Over, Raising
<1>13. ASSUME NEW code \in Faults, FinishFault(code)
       PROVE  Steady
  BY <1>13 DEF FinishFault, Steady, Live, Fields, disk, Over, Raising
<1>14. CASE EndCheckpoint
  BY <1>14 DEF EndCheckpoint, Steady, Live, Fields, disk, Over, Raising
<1>15. CASE EmitEnd
  <2>1. \E e : journal' = Append(journal, e) /\ e.t = "end"
    <3>1. EndEvent(drv.seq + 1, Batch, drv.outcome).t = "end"
      BY DEF EndEvent, Event
    <3> QED
      BY <1>15, <3>1 DEF EmitEnd
  <2> QED
    BY <1>15, <2>1 DEF EmitEnd, Wrote, Caller, Steady, Live, Fields, Over, Raising
<1>16. CASE AdvanceUnknown
  BY <1>16 DEF AdvanceUnknown, Steady, Live, Fields, disk, Over, Raising
<1> QED
  BY <1>1, <1>2, <1>3, <1>4, <1>5, <1>6, <1>7, <1>8, <1>9, <1>10, <1>11, <1>12, <1>13,
     <1>14, <1>15, <1>16 DEF Fault

(* The steps that move it. *)
LEMMA AdvanceLadder ==
    ASSUME KeepsInv, LadderInv, Live => DOMAIN drv = Fields, NEW v, Advance(v)
    PROVE  LadderInv'
<1>1. /\ Live /\ drv.pc = "inbox" /\ ~drv.ended /\ DOMAIN drv = Fields /\ IsSeq(journal)
  BY DEF Advance, Live, KeepsInv, Tracks, AfterEnd
<1>2. drv.wm = Watermark(journal)
  BY <1>1 DEF LadderInv, LadderHolds, Raising, Over
<1>3. /\ drv'.pc = "commit" /\ drv'.raised = (v = 4)
      /\ drv'.wm = IF v = 4 THEN drv.wm + 1 ELSE drv.wm
  <2>1. CASE drv' = Advanced(v)
    BY <1>1, <2>1 DEF Advanced, Fields
  <2>2. CASE drv' = [Advanced(v) EXCEPT !.seq = @ + 1]
    BY <1>1, <2>2 DEF Advanced, Fields
  <2> QED
    BY <2>1, <2>2 DEF Advance
<1>4. Watermark(journal') = Watermark(journal)
  <2>1. CASE journal' = journal
    BY <2>1
  <2>2. CASE Emit("records", Batch + 1, 0)
    <3>1. PICK e : journal' = Append(journal, e) /\ e.t = "records"
      BY <2>2, EventIs DEF Emit
    <3> QED
      BY <1>1, <3>1, LadderAppended
  <2> QED
    BY <2>1, <2>2 DEF Advance
<1> QED
  BY <1>2, <1>3, <1>4 DEF LadderInv, LadderHolds, Raising

LEMMA CommitLadder ==
    ASSUME KeepsInv, LadderInv, Live => DOMAIN drv = Fields, Commit
    PROVE  LadderInv'
<1> DEFINE e == BatchEvent(drv.seq + 1, Batch, drv.ranAt, drv.verdict, drv.streak)
<1>1. /\ Live /\ drv.pc = "commit" /\ ~drv.ended /\ DOMAIN drv = Fields /\ IsSeq(journal)
  BY DEF Commit, Live, KeepsInv, Tracks, AfterEnd
<1>2. e.t = "batch" /\ e.streak = drv.streak /\ journal' = Append(journal, e)
  BY DEF Commit, BatchEvent, Event
<1> HIDE DEF e
<1>3. Watermark(journal') = Watermark(journal) /\ Streak(journal') = drv.streak
  BY <1>1, <1>2, LadderAppended DEF IsBatch
<1>4. /\ drv'.pc = "keepBatch" /\ drv'.wm = drv.wm /\ drv'.streak = drv.streak
      /\ drv'.raised = drv.raised
  BY <1>1 DEF Commit, Wrote, Fields
<1> QED
  BY <1>1, <1>3, <1>4 DEF LadderInv, LadderHolds, Raising, Over

LEMMA RaiseLadder ==
    ASSUME KeepsInv, LadderInv, Live => DOMAIN drv = Fields, Raise
    PROVE  LadderInv'
<1>1. /\ Live /\ drv.pc = "raise" /\ ~drv.ended /\ DOMAIN drv = Fields /\ IsSeq(journal)
  BY DEF Raise, Live, KeepsInv, Tracks, AfterEnd
<1>2. PICK e : journal' = Append(journal, e) /\ e.t = "budget" /\ e.val = drv.wm
  BY EventIs DEF Raise, Emit
<1>3. Watermark(journal') = drv.wm /\ Streak(journal') = Streak(journal)
  BY <1>1, <1>2, LadderAppended
<1>4. /\ drv'.pc = "ckpt" /\ drv'.wm = drv.wm /\ drv'.streak = drv.streak
  BY <1>1 DEF Raise, Wrote, Fields
<1> QED
  BY <1>1, <1>3, <1>4 DEF LadderInv, LadderHolds, Raising, Over

LEMMA NextLevelLadder ==
    ASSUME KeepsInv, LadderInv, Live => DOMAIN drv = Fields, NextLevel
    PROVE  LadderInv'
<1>1. /\ Live /\ DOMAIN drv = Fields /\ IsSeq(journal)
  BY DEF NextLevel, Live, KeepsInv
<1>2. PICK e : journal' = Append(journal, e) /\ e.t = "level_next"
  BY EventIs DEF NextLevel, Emit
<1>3. Watermark(journal') = 0 /\ Streak(journal') = 0
  BY <1>1, <1>2, LadderAppended
<1>4. drv'.pc = "keepSeam" /\ drv'.wm = 0 /\ drv'.streak = 0
  BY <1>1 DEF NextLevel, Wrote, Fields
<1> QED
  BY <1>3, <1>4 DEF LadderInv, LadderHolds, Raising

LEMMA OpenLadder ==
    ASSUME OpenFresh \/ OpenResume
    PROVE  LadderInv'
<1>1. CASE OpenFresh
  BY <1>1 DEF OpenFresh, Opened, LadderInv, LadderHolds, Raising
<1>2. CASE OpenResume
  BY <1>2 DEF OpenResume, Opened, LadderInv, LadderHolds, Raising
<1> QED
  BY <1>1, <1>2

LEMMA StepLadder ==
    ASSUME KeepsInv, ControlInv, LadderInv, [Next]_vars
    PROVE  LadderInv'
<1>0. Live => DOMAIN drv = Fields
  BY DEF ControlInv
<1>1. CASE ~Live'
  BY <1>1 DEF LadderInv
<1>2. CASE Live' /\ Open
  <2>1. CASE OpenFresh \/ OpenResume
    BY <2>1, OpenLadder
  <2>2. CASE OpenRefused \/ OpenFault
    BY <1>2, <2>2 DEF OpenRefused, OpenFault, Live
  <2> QED
    BY <1>2, <2>1, <2>2 DEF Open
<1>3. CASE Live' /\ Control
  <2>1. drv' # Off
    BY <1>3 DEF Live, Off
  <2>2. ASSUME NEW i \in 1..Len(requests),
               \/ ApplyAfterEnd(i) \/ ApplyPause(i) \/ ApplyResume(i) \/ ApplyCheckpoint(i)
               \/ ApplyStep(i) \/ ApplyStop(i) \/ ApplyGrowCase(i)
        PROVE  LadderInv'
    BY <1>0, <2>2, SteadyControl, SteadyInv
  <2>3. CASE Poll \/ Ack \/ ControlDone
    BY <1>0, <2>1, <2>3, SteadyControl, SteadyInv
  <2> QED
    BY <1>3, <2>2, <2>3 DEF Control
<1>4. CASE RunBatch
  <2>1. CASE \/ BatchStart \/ TakeFile \/ AdvanceUnknown \/ KeepNew \/ KeepDone
             \/ RaisePastCeiling \/ PeriodicCheckpoint
    BY <1>0, <2>1, SteadyBatch, SteadyInv
  <2> QED
    BY <1>0, <1>4, <2>1, AdvanceLadder, CommitLadder, RaiseLadder DEF RunBatch
<1>5. CASE EmitSeed \/ Close \/ Fault
  <2>1. CASE EmitSeed \/ LevelRejected \/ Finish \/ Fault
    BY <1>0, <2>1, SteadyBatch, SteadyInv
  <2> QED
    BY <1>0, <1>5, <2>1, NextLevelLadder DEF Close
<1>6. CASE Live' /\ End
  <2>1. ~EscapedFault
    BY <1>6 DEF EscapedFault, Live, Off
  <2> QED
    BY <1>0, <1>6, <2>1, SteadyBatch, SteadyInv DEF End
<1>7. CASE Live' /\ Environment
  <2>1. UNCHANGED <<journal, drv>>
    <3>1. ~Crash /\ \A k \in ckpts : ~Fork(k)
      BY <1>7 DEF Crash, Fork, Live, Off
    <3>2. ASSUME NEW a, NEW c, SendRequest(a, c)
          PROVE  UNCHANGED <<journal, drv>>
      BY <3>2 DEF SendRequest, Viewer
    <3>3. ASSUME NEW f \in Files, DropFile(f)
          PROVE  UNCHANGED <<journal, drv>>
      BY <3>3 DEF DropFile, Viewer
    <3> QED
      BY <1>7, <3>1, <3>2, <3>3 DEF Environment
  <2> QED
    BY <2>1 DEF LadderInv, LadderHolds, Live
<1>8. CASE UNCHANGED vars
  BY <1>8 DEF vars, LadderInv, LadderHolds, Live
<1> QED
  BY <1>1, <1>2, <1>3, <1>4, <1>5, <1>6, <1>7, <1>8 DEF Next, DriverStep

(* ladder_of: the watermark and the streak a driver goes on with are those a
   restart would fold from its journal, at every boundary between batches. *)
THEOREM LadderFoldsBack == Spec => []LadderMatchesJournal
<1>1. Init => LadderInv
  BY DEF Init, Off, LadderInv, Live
<1>2. KeepsInv /\ ControlInv /\ LadderInv /\ [Next]_vars => LadderInv'
  BY StepLadder
<1>3. LadderInv => LadderMatchesJournal
  BY DEF LadderInv, LadderHolds, LadderMatchesJournal, AtBoundary, Raising, Over
<1> QED
  BY <1>1, <1>2, <1>3, KeepsInvariant, ControlInvariant, PTL DEF Spec

-----------------------------------------------------------------------------
(* What a kill loses *)

(* Of c numbers in a row one is divisible by c. *)
LEMMA DivisibleNear ==
    ASSUME NEW c \in Nat, c # 0, NEW a \in Nat
    PROVE  \E n \in Nat : a < n /\ n <= a + c /\ n % c = 0
<1> DEFINE n == a + (c - (a % c))
<1>1. (a % c) \in 0..(c - 1) /\ a \div c \in Nat /\ a = (c * (a \div c)) + (a % c)
  OBVIOUS
<1>2. n \in Nat /\ a < n /\ n <= a + c
  BY <1>1
<1>3. n = c * ((a \div c) + 1)
  BY <1>1
<1>4. ASSUME NEW q \in Nat PROVE (c * q) % c = 0
  OBVIOUS
<1>5. n % c = 0
  <2>1. (a \div c) + 1 \in Nat
    BY <1>1
  <2> HIDE DEF n
  <2>2. n % c = (c * ((a \div c) + 1)) % c
    BY <1>3
  <2> QED
    BY <1>4, <2>1, <2>2, Zenon
<1> QED
  BY <1>2, <1>5

(* Where the period of the last batch has still to be looked at, or the run
   is ending without that. *)
Unlooked == {"keepBatch", "raise", "ckpt", "end"}

(* Between the newest checkpoint and the last batch none was due. *)
NoneDue == \A n \in Nat : RestartAt < n /\ n < LastBatch(journal) => n % CheckpointEvery # 0
Looked == LastBatch(journal) <= RestartAt \/ LastBatch(journal) % CheckpointEvery # 0
LossInv == NoneDue /\ (Live /\ drv.pc \notin Unlooked => Looked)

LEMMA RestartSame ==
    ASSUME RunInv, RunInv', ckpts' = ckpts
    PROVE  RestartAt' = RestartAt
<1>1. RestartSet = ckpts
  BY LastBatchTops DEF RestartSet, RunInv, Saved
<1>2. RestartSet' = ckpts'
  BY LastBatchTops DEF RestartSet, RunInv, Saved
<1> QED
  BY <1>1, <1>2 DEF RestartAt

(* A restart is at a batch of the journal, and at its last one where a
   checkpoint of that is on disk: now, and after a step. *)
LEMMA RestartBounds ==
    RunInv => /\ RestartAt \in Nat /\ RestartAt <= LastBatch(journal)
              /\ LastBatch(journal) \in Nat
              /\ (\E k \in ckpts : k.batch = LastBatch(journal)) => RestartAt = LastBatch(journal)
<1> SUFFICES ASSUME RunInv
             PROVE  /\ RestartAt \in Nat /\ RestartAt <= LastBatch(journal)
                    /\ LastBatch(journal) \in Nat
                    /\ (\E k \in ckpts : k.batch = LastBatch(journal)) => RestartAt = LastBatch(journal)
  OBVIOUS
<1>1. LastBatch(journal) \in Nat
  BY LastBatchTops DEF RunInv, InOrder
<1> QED
  BY <1>1, RestartIs

LEMMA NextRestartBounds ==
    RunInv' => /\ RestartAt' \in Nat /\ RestartAt' <= LastBatch(journal')
               /\ LastBatch(journal') \in Nat
               /\ (\E k \in ckpts' : k.batch = LastBatch(journal')) => RestartAt' = LastBatch(journal')
<1>1. (RunInv => /\ RestartAt \in Nat /\ RestartAt <= LastBatch(journal)
                 /\ LastBatch(journal) \in Nat
                 /\ (\E k \in ckpts : k.batch = LastBatch(journal)) => RestartAt = LastBatch(journal))'
  BY RestartBounds, PTL
<1> QED
  BY <1>1

(* A checkpoint written is the newest and survives its own retention. *)
LEMMA CheckpointedAt ==
    ASSUME RunInv, Live, drv.pc # "commit", Checkpoint
    PROVE  \E k \in ckpts' : k.batch = LastBatch(journal)
<1> DEFINE new == [batch |-> Batch, level |-> drv.level, hist |-> drv.hist]
           S == (ckpts \ CheckpointAt(Batch)) \cup {new}
<1>1. Batch = LastBatch(journal) /\ Batch \in Nat
  BY LastBatchTops DEF RunInv, InOrder, AtJournal
<1>2. CASE ckpts' = ckpts /\ CheckpointAt(Batch) # {}
  BY <1>1, <1>2 DEF CheckpointAt
<1>3. CASE ckpts' = Newest(S, KeepCheckpoints)
  <2>1. \A o \in S : o.batch \in Nat /\ o.batch <= Batch
    BY <1>1 DEF RunInv, Saved
  <2>2. new.batch = Batch /\ new \in S
    OBVIOUS
  <2> HIDE DEF new, S
  <2>3. {o \in S : o.batch > new.batch} = {}
    BY <1>1, <2>1, <2>2
  <2>4. Cardinality({o \in S : o.batch > new.batch}) = 0
    BY <2>3, FS_EmptySet
  <2>5. 0 < KeepCheckpoints
    BY ConfigAssumption
  <2>6. new \in {k \in S : Cardinality({o \in S : o.batch > k.batch}) < KeepCheckpoints}
    BY <2>2, <2>4, <2>5
  <2> QED
    BY <1>1, <1>3, <2>2, <2>6 DEF Newest
<1> QED
  BY <1>2, <1>3 DEF Checkpoint

(* A step that adds no batch and, if the period has still to be looked at,
   goes on without doing so. *)
Near ==
    /\ Live /\ drv.pc # "commit"
    /\ \/ journal' = journal
       \/ \E e : journal' = Append(journal, e) /\ e.t # "batch"
    /\ \/ ckpts' = ckpts /\ (drv'.pc \in Unlooked \/ drv.pc \notin Unlooked)
       \/ Checkpoint

LEMMA NearInv == ASSUME RunInv, RunInv', LossInv, Near PROVE LossInv'
<1>1. LastBatch(journal') = LastBatch(journal)
  <2>1. IsSeq(journal)
    BY DEF RunInv, InOrder, Counted
  <2> QED
    BY <2>1, LastBatchAppended DEF Near, IsBatch
<1>2. CASE ckpts' = ckpts /\ (drv'.pc \in Unlooked \/ drv.pc \notin Unlooked)
  <2>1. RestartAt' = RestartAt
    BY <1>2, RestartSame
  <2> QED
    BY <1>1, <1>2, <2>1 DEF LossInv, NoneDue, Looked, Near
<1>3. CASE Checkpoint
  <2>1. PICK k \in ckpts' : k.batch = LastBatch(journal')
    BY <1>1, <1>3, CheckpointedAt DEF Near
  <2>2. RestartAt' = LastBatch(journal') /\ LastBatch(journal') \in Nat
    BY <2>1, NextRestartBounds
  <2> QED
    BY <2>2 DEF LossInv, NoneDue, Looked
<1> QED
  BY <1>2, <1>3 DEF Near

LEMMA NearControl ==
    ASSUME RunInv, Live => DOMAIN drv = Fields, NEW i,
           \/ Poll \/ Ack
           \/ ApplyAfterEnd(i) \/ ApplyPause(i) \/ ApplyResume(i) \/ ApplyCheckpoint(i)
           \/ ApplyStep(i) \/ ApplyStop(i) \/ ApplyGrowCase(i) \/ ControlDone
    PROVE  Near
<1>1. CASE Poll \/ Ack \/ ControlDone
  BY <1>1 DEF Poll, Ack, ControlDone, Near, Live, disk, Unlooked
<1>2. CASE ApplyAfterEnd(i) \/ ApplyResume(i) \/ ApplyStep(i) \/ ApplyStop(i)
  BY <1>2 DEF ApplyAfterEnd, ApplyResume, ApplyStep, ApplyStop, Serving, Near, Live, disk, Unlooked
<1>3. CASE ApplyPause(i) \/ ApplyCheckpoint(i)
  BY <1>3 DEF ApplyPause, ApplyCheckpoint, Serving, Near, Live, Unlooked
<1>4. CASE ApplyGrowCase(i)
  <2>1. journal' = journal \/ \E e : journal' = Append(journal, e) /\ e.t # "batch"
    BY <1>4, EventIs DEF ApplyGrowCase, Emit
  <2> QED
    BY <1>4, <2>1 DEF ApplyGrowCase, Serving, Near, Live, Unlooked
<1> QED
  BY <1>1, <1>2, <1>3, <1>4

LEMMA NearBatch ==
    ASSUME RunInv, Live => DOMAIN drv = Fields,
           \/ EmitSeed \/ BatchStart \/ TakeFile \/ KeepNew \/ KeepDone \/ Raise
           \/ RaisePastCeiling \/ NextLevel \/ LevelRejected \/ Finish
           \/ Fault \/ EndCheckpoint \/ EmitEnd \/ \E v : Advance(v)
    PROVE  Near
<1>0. Live => Fields = DOMAIN drv
  OBVIOUS
<1>1. CASE EmitSeed \/ TakeFile \/ LevelRejected \/ NextLevel \/ Finish
  <2>1. \E e : journal' = Append(journal, e) /\ e.t # "batch"
    BY <1>1, EventIs DEF EmitSeed, TakeFile, LevelRejected, NextLevel, Finish, Emit
  <2> QED
    BY <1>1, <2>1 DEF EmitSeed, TakeFile, LevelRejected, NextLevel, Finish, Near, Live, Unlooked
<1>2. CASE KeepNew
  <2>1. \E e : journal' = Append(journal, e) /\ e.t # "batch"
    BY <1>2, EventIs DEF KeepNew, Emit
  <2>2. drv'.pc = drv.pc
    BY <1>0, <1>2 DEF KeepNew, Wrote, Live, Fields
  <2> QED
    BY <1>2, <2>1, <2>2 DEF KeepNew, Near, Live, Unlooked
<1>3. CASE Raise
  <2>1. \E e : journal' = Append(journal, e) /\ e.t # "batch"
    BY <1>3, EventIs DEF Raise, Emit
  <2> QED
    BY <1>0, <1>3, <2>1 DEF Raise, Wrote, Fields, Near, Live, Unlooked
<1>4. CASE KeepDone
  BY <1>0, <1>4 DEF KeepDone, At, Fields, disk, Near, Live, Unlooked
<1>5. CASE BatchStart \/ RaisePastCeiling
  BY <1>0, <1>5 DEF BatchStart, RaisePastCeiling, Fields, disk, Near, Live, Unlooked
<1>6. CASE Fault
  BY <1>0, <1>6 DEF Fault, AdvanceFault, KeepFault, ChainFault, FinishFault, Fields, disk,
                    Near, Live, Unlooked
<1>7. CASE EndCheckpoint
  BY <1>7 DEF EndCheckpoint, Near, Live
<1>8. CASE EmitEnd
  <2>1. EndEvent(drv.seq + 1, Batch, drv.outcome).t = "end"
    BY DEF EndEvent, Event
  <2> QED
    BY <1>8, <2>1 DEF EmitEnd, Near, Live, Unlooked
<1>9. ASSUME NEW v, Advance(v)
      PROVE  Near
  <2>1. journal' = journal \/ \E e : journal' = Append(journal, e) /\ e.t # "batch"
    BY <1>9, EventIs DEF Advance, Emit
  <2> QED
    BY <1>9, <2>1 DEF Advance, Near, Live, Unlooked
<1> QED
  BY <1>1, <1>2, <1>3, <1>4, <1>5, <1>6, <1>7, <1>8, <1>9

(* A batch is journaled when the one before it has been looked at. *)
LEMMA CommitLoss ==
    ASSUME RunInv, RunInv', LossInv, Live => DOMAIN drv = Fields, Commit
    PROVE  LossInv'
<1>1. /\ Live /\ drv.pc = "commit" /\ AtJournal /\ DOMAIN drv = Fields
      /\ Batch = LastBatch(journal) + 1 /\ LastBatch(journal) \in Nat
      /\ IsSeq(journal) /\ ckpts' = ckpts
  BY LastBatchTops DEF Commit, Live, RunInv, AtJournal, InOrder, Counted
<1>2. LastBatch(journal') = LastBatch(journal) + 1
  <2> DEFINE e == BatchEvent(drv.seq + 1, Batch, drv.ranAt, drv.verdict, drv.streak)
  <2>1. IsBatch(e) /\ e.batch = Batch /\ journal' = Append(journal, e)
    BY DEF Commit, BatchEvent, Event, IsBatch
  <2> HIDE DEF e
  <2> QED
    BY <1>1, <2>1, LastBatchAppended
<1>3. RestartAt' = RestartAt /\ RestartAt \in Nat /\ Looked
  BY <1>1, RestartSame, RestartIs DEF LossInv, Unlooked
<1>4. drv'.pc = "keepBatch"
  BY <1>1 DEF Commit, Wrote, Fields
<1>5. NoneDue'
  <2> SUFFICES ASSUME NEW n \in Nat, RestartAt < n, n < LastBatch(journal) + 1
               PROVE  n % CheckpointEvery # 0
    BY <1>2, <1>3 DEF NoneDue
  <2>1. n < LastBatch(journal) \/ n = LastBatch(journal)
    BY <1>1
  <2>2. CASE n < LastBatch(journal)
    BY <2>2 DEF LossInv, NoneDue
  <2>3. CASE n = LastBatch(journal)
    BY <1>1, <1>3, <2>3 DEF Looked
  <2> QED
    BY <2>1, <2>2, <2>3
<1> QED
  BY <1>4, <1>5 DEF LossInv, Unlooked

LEMMA PeriodLoss ==
    ASSUME RunInv, RunInv', LossInv, Live => DOMAIN drv = Fields, PeriodicCheckpoint
    PROVE  LossInv'
<1>1. /\ Live /\ drv.pc = "ckpt" /\ DOMAIN drv = Fields /\ journal' = journal
      /\ Batch = LastBatch(journal)
  BY DEF PeriodicCheckpoint, Live, RunInv, AtJournal
<1>2. CASE Due
  BY <1>1, <1>2, NearInv DEF PeriodicCheckpoint, Near
<1>3. CASE ~Due
  <2>1. ckpts' = ckpts /\ LastBatch(journal) % CheckpointEvery # 0
    BY <1>1, <1>3 DEF PeriodicCheckpoint, Due
  <2>2. RestartAt' = RestartAt
    BY <2>1, RestartSame
  <2> QED
    BY <1>1, <2>1, <2>2 DEF LossInv, NoneDue, Looked
<1> QED
  BY <1>2, <1>3

(* A restart, and a fork, are at the batch of their checkpoint. *)
LEMMA AtCheckpoint ==
    ASSUME RunInv', RestartAt' = LastBatch(journal')
    PROVE  LossInv'
<1>1. LastBatch(journal') \in Nat
  BY LastBatchTops DEF RunInv, InOrder
<1> QED
  BY <1>1 DEF LossInv, NoneDue, Looked

LEMMA OpenLoss ==
    ASSUME RunInv, RunInv', OpenFresh \/ OpenResume
    PROVE  LossInv'
<1>1. CASE OpenFresh
  <2>1. LastBatch(journal') = 0
    <3>1. IsSeq(journal') /\ Len(journal') = 1 /\ journal'[1] = Event(1, "start", 0, 0)
      BY <1>1 DEF OpenFresh, RunInv, InOrder, Counted
    <3>2. \A i \in 1..Len(journal') : ~IsBatch(journal'[i])
      BY <3>1, EventIs DEF IsBatch
    <3> QED
      BY <3>1, <3>2, LastBatchIs
  <2>2. RestartAt' \in Nat /\ RestartAt' <= LastBatch(journal')
    BY NextRestartBounds
  <2> QED
    BY <2>1, <2>2, AtCheckpoint
<1>2. CASE OpenResume
  <2>1. RestartAt \in Nat /\ RestartAt <= LastBatch(journal)
    BY RestartIs
  <2>2. LastBatch(journal') = RestartAt
    <3>1. CutTo(journal, RestartAt, journal')
      BY <1>2, <2>1, KeptIsCut DEF OpenResume, RunInv, InOrder
    <3> QED
      BY <2>1, <3>1, CutInOrder DEF RunInv
  <2>3. RestartAt' = RestartAt
    BY <1>2, RestartSame DEF OpenResume
  <2> QED
    BY <2>2, <2>3, AtCheckpoint
<1> QED
  BY <1>1, <1>2

LEMMA ForkLoss ==
    ASSUME RunInv, RunInv', NEW k \in ckpts, Fork(k)
    PROVE  LossInv'
<1>1. k.batch \in Nat /\ k.batch <= LastBatch(journal)
  BY DEF RunInv, Saved
<1>2. LastBatch(journal') = k.batch
  <2>1. CutTo(journal, k.batch, journal')
    BY <1>1, KeptIsCut DEF Fork, RunInv, InOrder
  <2> QED
    BY <1>1, <2>1, CutInOrder DEF RunInv
<1>3. k \in ckpts'
  BY DEF Fork
<1>4. RestartAt' = LastBatch(journal')
  BY <1>2, <1>3, NextRestartBounds
<1> QED
  BY <1>4, AtCheckpoint

(* Steps of no driver, or after which there is none. *)
LEMMA IdleLoss ==
    ASSUME RunInv, RunInv', LossInv, ckpts' = ckpts,
           \/ journal' = journal \/ \E code : RecordFault(code),
           ~Live' \/ drv' = drv
    PROVE  LossInv'
<1>1. LastBatch(journal') = LastBatch(journal)
  <2>1. ASSUME NEW code, RecordFault(code)
        PROVE  LastBatch(journal') = LastBatch(journal)
    <3> DEFINE e == EndEvent(LastSeq(journal) + 1, LastBatch(journal), code)
    <3>1. ~IsBatch(e)
      BY DEF EndEvent, Event, IsBatch
    <3>2. journal' = journal \/ journal' = Append(journal, e)
      BY <2>1 DEF RecordFault
    <3> HIDE DEF e
    <3>3. IsSeq(journal)
      BY DEF RunInv, InOrder, Counted
    <3>4. CASE journal' = Append(journal, e)
      BY <3>1, <3>3, <3>4, LastBatchAppended
    <3> QED
      BY <3>2, <3>4
  <2> QED
    BY <2>1
<1>2. RestartAt' = RestartAt
  BY RestartSame
<1> QED
  BY <1>1, <1>2 DEF LossInv, NoneDue, Looked, Live

LEMMA StepLoss ==
    ASSUME RunInv, RunInv', ControlInv, LossInv, 5 \notin Verdicts, [Next]_vars
    PROVE  LossInv'
<1>0. Live => DOMAIN drv = Fields
  BY DEF ControlInv
<1>1. CASE Open
  <2>1. CASE OpenRefused \/ OpenFault
    BY <2>1, IdleLoss DEF OpenRefused, OpenFault
  <2> QED
    BY <1>1, <2>1, OpenLoss DEF Open
<1>2. CASE Control
  <2>1. ASSUME NEW i \in 1..Len(requests),
               \/ ApplyAfterEnd(i) \/ ApplyPause(i) \/ ApplyResume(i) \/ ApplyCheckpoint(i)
               \/ ApplyStep(i) \/ ApplyStop(i) \/ ApplyGrowCase(i)
        PROVE  LossInv'
    BY <1>0, <2>1, NearControl, NearInv
  <2>2. CASE Poll \/ Ack \/ ControlDone
    BY <1>0, <2>2, NearControl, NearInv
  <2> QED
    BY <1>2, <2>1, <2>2 DEF Control
<1>3. CASE RunBatch
  <2>1. ~AdvanceUnknown
    BY DEF AdvanceUnknown
  <2>2. CASE BatchStart \/ TakeFile \/ KeepNew \/ KeepDone \/ Raise \/ RaisePastCeiling
    BY <1>0, <2>2, NearBatch, NearInv
  <2>3. ASSUME NEW v, Advance(v)
        PROVE  LossInv'
    BY <1>0, <2>3, NearBatch, NearInv
  <2> QED
    BY <1>0, <1>3, <2>1, <2>2, <2>3, CommitLoss, PeriodLoss DEF RunBatch
<1>4. CASE EmitSeed \/ Close \/ Fault
  BY <1>0, <1>4, NearBatch, NearInv DEF Close
<1>5. CASE End
  <2>1. CASE EscapedFault
    BY <2>1, IdleLoss DEF EscapedFault, Live, Off
  <2> QED
    BY <1>0, <1>5, <2>1, NearBatch, NearInv DEF End
<1>6. CASE Environment
  <2>1. CASE Crash
    BY <2>1, IdleLoss DEF Crash, disk, Live, Off
  <2>2. ASSUME UNCHANGED <<journal, ckpts, drv>>
        PROVE  LossInv'
    BY <2>2, IdleLoss
  <2>3. ASSUME NEW f \in Files, DropFile(f)
        PROVE  LossInv'
    BY <2>2, <2>3 DEF DropFile, Viewer
  <2>4. ASSUME NEW a, NEW c, SendRequest(a, c)
        PROVE  LossInv'
    BY <2>2, <2>4 DEF SendRequest, Viewer
  <2> QED
    BY <1>6, <2>1, <2>3, <2>4, ForkLoss DEF Environment
<1>7. CASE UNCHANGED vars
  BY <1>7, IdleLoss DEF vars
<1> QED
  BY <1>1, <1>2, <1>3, <1>4, <1>5, <1>6, <1>7 DEF Next, DriverStep

(* checkpoint and its retention: a restart, wherever the run was killed,
   drives at most checkpoint_every batches again. *)
THEOREM LossIsBounded == ASSUME 5 \notin Verdicts PROVE Spec => []BoundedLoss
<1>1. Init => LossInv
  <2> SUFFICES ASSUME Init PROVE LossInv
    OBVIOUS
  <2>1. RunInv
    BY InitRun
  <2>2. LastBatch(journal) = 0
    <3>1. IsSeq(journal) /\ Len(journal) = 0
      BY NoneYet DEF Init
    <3> QED
      BY <3>1, LastBatchIs
  <2>3. RestartAt \in Nat /\ RestartAt <= LastBatch(journal)
    BY <2>1, RestartIs
  <2> QED
    BY <2>2, <2>3 DEF LossInv, NoneDue, Looked
<1>2. RunInv /\ RunInv' /\ ControlInv /\ LossInv /\ [Next]_vars => LossInv'
  BY StepLoss
<1>3. RunInv /\ LossInv => BoundedLoss
  <2> SUFFICES ASSUME RunInv, LossInv, ~BoundedLoss PROVE FALSE
    OBVIOUS
  <2>1. RestartAt \in Nat /\ LastBatch(journal) \in Nat
        /\ CheckpointEvery \in Nat /\ CheckpointEvery # 0
    BY RestartIs, LastBatchTops, ConfigAssumption DEF RunInv, InOrder
  <2>2. PICK n \in Nat : /\ RestartAt < n /\ n <= RestartAt + CheckpointEvery
                         /\ n % CheckpointEvery = 0
    BY <2>1, DivisibleNear
  <2>3. n < LastBatch(journal)
    BY <2>1, <2>2 DEF BoundedLoss
  <2> QED
    BY <2>2, <2>3 DEF LossInv, NoneDue
<1> QED
  BY <1>1, <1>2, <1>3, RunInvariant, ControlInvariant, PTL DEF Spec

-----------------------------------------------------------------------------
(* The session a restart restores *)

(* Between advance and the next boundary or level: what was steered, or
   began, belongs to a batch before the one the driver is at. *)
Stepped == {"commit", "keepBatch", "raise", "ckpt", "close"}
AllBefore(b) ==
    \A i \in 1..Len(journal) : journal[i].t \in {"steer", "level_next"} => journal[i].batch < b

SessionHolds ==
    /\ drv.evid = Evidence(journal)
    /\ IF drv.pc = "commit"
       THEN /\ drv.hist = Append(History(journal), Ran(drv.ranAt, drv.evid, drv.verdict))
            /\ drv.verdict # 5
       ELSE drv.hist = History(journal)
    /\ drv.pc \in Stepped => AllBefore(Batch)
SessionInv ==
    /\ Shape(journal)
    /\ \A k \in ckpts : Described(journal, k)
    /\ Live => SessionHolds

(* A checkpoint is taken of the whole journal. *)
LEMMA CheckpointDescribed ==
    ASSUME RunInv, SessionInv, Live, drv.pc # "commit", ~drv.ended, Checkpoint
    PROVE  \A k \in ckpts' : Described(journal, k)
<1> DEFINE new == [batch |-> Batch, level |-> drv.level, hist |-> drv.hist]
           n == Len(journal)
<1>1. \A k \in ckpts' : k \in ckpts \/ k = new
  BY DEF Checkpoint, Newest, CheckpointAt
<1>2. /\ IsSeq(journal) /\ n \in Nat /\ drv.level = Level(journal)
      /\ drv.hist = History(journal) /\ UpTo(journal, n) = journal /\ n \in 0..n
      /\ \A i \in 1..n : journal[i].batch <= Batch /\ journal[i].t # "end"
  <2>1. IsSeq(journal) /\ n \in Nat
    BY DEF RunInv, InOrder, Counted, IsSeq
  <2>2. AtJournal /\ SessionHolds
    BY DEF RunInv, SessionInv
  <2> QED
    BY <2>1, <2>2, AllUpTo DEF AtJournal, SessionHolds
<1>3. Describes(journal, n, new)
  <2>1. new.batch = Batch /\ new.level = drv.level /\ new.hist = drv.hist
    OBVIOUS
  <2>2. \A i \in 1..n : ~(i > n)
    BY <1>2
  <2> HIDE DEF new, n
  <2> QED
    BY <1>2, <2>1, <2>2 DEF Describes, n
<1> HIDE DEF new
<1> QED
  BY <1>1, <1>2, <1>3 DEF SessionInv, Described

(* Steps that write no journal line *)
Still ==
    /\ Quiet
    /\ UNCHANGED ckpts \/ ~drv.ended
    /\ drv'.evid = drv.evid
    /\ drv'.pc \in Stepped => drv.pc \in Stepped

LEMMA StillSession == ASSUME RunInv, SessionInv, Still PROVE SessionInv'
<1>1. /\ Live /\ drv.pc # "commit" /\ journal' = journal /\ drv'.evid = drv.evid
      /\ drv'.pc # "commit" /\ drv'.hist = drv.hist /\ drv'.base = drv.base
      /\ drv'.pc \in Stepped => drv.pc \in Stepped
  BY DEF Still, Quiet
<1>2. \A k \in ckpts' : Described(journal, k)
  <2>1. CASE UNCHANGED ckpts
    BY <2>1 DEF SessionInv
  <2>2. CASE Checkpoint /\ ~drv.ended
    BY <1>1, <2>2, CheckpointDescribed
  <2> QED
    BY <2>1, <2>2 DEF Still, Quiet
<1>3. Batch' = Batch
  BY <1>1 DEF Batch
<1>4. SessionHolds'
  BY <1>1, <1>3 DEF SessionInv, SessionHolds, AllBefore
<1> QED
  BY <1>1, <1>2, <1>4 DEF SessionInv

LEMMA StillControl ==
    ASSUME RunInv, Live => DOMAIN drv = Fields, NEW i,
           \/ Poll \/ Ack
           \/ ApplyAfterEnd(i) \/ ApplyPause(i) \/ ApplyResume(i) \/ ApplyCheckpoint(i)
           \/ ApplyStep(i) \/ ApplyStop(i)
           \/ ApplyGrowCase(i) /\ UNCHANGED journal
           \/ ControlDone /\ drv' # Off
    PROVE  Still
<1>0. Quiet
  BY RunKeeps, QuietControl
<1>1. CASE Poll
  BY <1>0, <1>1 DEF Poll, Still, Quiet, Live, Fields, disk, Stepped
<1>2. CASE Ack
  BY <1>0, <1>2 DEF Ack, Still, Quiet, Live, Fields, Stepped
<1>3. CASE ApplyAfterEnd(i)
  BY <1>0, <1>3 DEF ApplyAfterEnd, Serving, Reply, Still, Quiet, Live, Fields, disk, Stepped
<1>4. CASE ApplyPause(i)
  BY <1>0, <1>4 DEF ApplyPause, Serving, Reply, Still, Quiet, Live, Fields, Stepped
<1>5. CASE ApplyResume(i)
  BY <1>0, <1>5 DEF ApplyResume, Serving, Reply, Still, Quiet, Live, Fields, disk, Stepped
<1>6. CASE ApplyCheckpoint(i)
  BY <1>0, <1>6 DEF ApplyCheckpoint, Serving, Reply, Still, Quiet, Live, Fields, Stepped
<1>7. CASE ApplyStep(i)
  <2>1. CASE drv' = [Reply(i, "applied") EXCEPT !.pc = "batch"]
    BY <1>0, <1>7, <2>1 DEF ApplyStep, Serving, Reply, Still, Quiet, Live, Fields, disk, Stepped
  <2>2. CASE drv' = Reply(i, "refused")
    BY <1>0, <1>7, <2>2 DEF ApplyStep, Serving, Reply, Still, Quiet, Live, Fields, disk, Stepped
  <2> QED
    BY <1>7, <2>1, <2>2 DEF ApplyStep
<1>8. CASE ApplyStop(i)
  BY <1>0, <1>8 DEF ApplyStop, Serving, Reply, Still, Quiet, Live, Fields, disk, Stepped
<1>9. CASE ApplyGrowCase(i) /\ UNCHANGED journal
  <2>1. journal' # Append(journal, Event(drv.seq + 1, "steer", Batch, requests[i].arg))
    BY <1>9, Appended DEF RunInv, InOrder, Counted
  <2>2. drv' = Reply(i, "refused")
    BY <1>9, <2>1 DEF ApplyGrowCase, Emit
  <2> QED
    BY <1>0, <1>9, <2>2 DEF ApplyGrowCase, Serving, Reply, Still, Quiet, Live, Fields, Stepped
<1>10. CASE ControlDone /\ drv' # Off
  BY <1>0, <1>10 DEF ControlDone, At, Still, Quiet, Live, Fields, disk, Stepped
<1> QED
  BY <1>1, <1>2, <1>3, <1>4, <1>5, <1>6, <1>7, <1>8, <1>9, <1>10

LEMMA StillBatch ==
    ASSUME RunInv, Live => DOMAIN drv = Fields,
           \/ BatchStart \/ KeepDone \/ RaisePastCeiling \/ PeriodicCheckpoint
           \/ Fault \/ EndCheckpoint
    PROVE  Still
<1>0. Quiet /\ (Live /\ drv.pc \notin AfterEnd => ~drv.ended)
  BY RunKeeps, QuietBatch DEF RunInv, AtJournal
<1>1. CASE BatchStart
  BY <1>0, <1>1 DEF BatchStart, Still, Quiet, Live, Fields, disk, Stepped
<1>2. CASE KeepDone
  BY <1>0, <1>2 DEF KeepDone, At, Caller, Still, Quiet, Live, Fields, disk, Stepped
<1>3. CASE RaisePastCeiling
  BY <1>0, <1>3 DEF RaisePastCeiling, Still, Quiet, Live, Fields, disk, Stepped
<1>4. CASE PeriodicCheckpoint
  BY <1>0, <1>4 DEF PeriodicCheckpoint, Caller, Still, Quiet, Live, Fields, AfterEnd, Stepped
<1>5. ASSUME NEW code \in Faults, AdvanceFault(code)
      PROVE  Still
  BY <1>0, <1>5 DEF AdvanceFault, Still, Quiet, Live, Fields, disk, Stepped
<1>6. ASSUME NEW code \in Faults, KeepFault(code)
      PROVE  Still
  BY <1>0, <1>6 DEF KeepFault, Still, Quiet, Live, Fields, disk, Stepped
<1>7. ASSUME NEW code \in Faults, ChainFault(code)
      PROVE  Still
  BY <1>0, <1>7 DEF ChainFault, At, Still, Quiet, Live, Fields, disk, Stepped
<1>8. ASSUME NEW code \in Faults, FinishFault(code)
      PROVE  Still
  BY <1>0, <1>8 DEF FinishFault, Still, Quiet, Live, Fields, disk, Stepped
<1>9. CASE EndCheckpoint
  BY <1>0, <1>9 DEF EndCheckpoint, Still, Quiet, Live, Fields, AfterEnd, Stepped
<1> QED
  BY <1>1, <1>2, <1>3, <1>4, <1>5, <1>6, <1>7, <1>8, <1>9 DEF Fault

(* What an append leaves of it *)
LEMMA AppendSession ==
    ASSUME RunInv, SessionInv, NEW e, journal' = Append(journal, e), UNCHANGED ckpts,
           Shapely(journal, e), IsBatch(e) => e.batch = LastBatch(journal) + 1
    PROVE  /\ Shape(journal') /\ \A k \in ckpts' : Described(journal', k)
           /\ \A b : AllBefore(b) /\ (e.t \in {"steer", "level_next"} => e.batch < b)
                       => AllBefore(b)'
<1>1. IsSeq(journal) /\ LastBatch(journal) \in Nat
  BY LastBatchTops DEF RunInv, InOrder, Counted
<1>2. Shape(journal')
  BY <1>1, ShapeAppended DEF SessionInv
<1>3. ASSUME NEW k \in ckpts
      PROVE  Described(journal', k)
  <2>1. k.batch \in Nat /\ k.batch <= LastBatch(journal)
    BY DEF RunInv, Saved
  <2>2. IsBatch(e) => e.batch > k.batch
    BY <1>1, <2>1
  <2> QED
    BY <1>1, <2>2, DescribedAppended DEF SessionInv
<1>4. ASSUME NEW b, AllBefore(b), e.t \in {"steer", "level_next"} => e.batch < b
      PROVE  AllBefore(b)'
  <2>1. /\ Len(journal) \in Nat /\ Len(journal') = Len(journal) + 1
        /\ journal'[Len(journal) + 1] = e
        /\ \A i \in 1..Len(journal) : journal'[i] = journal[i]
    BY <1>1, Appended
  <2>2. \A i \in 1..Len(journal') : i \in 1..Len(journal) \/ i = Len(journal) + 1
    BY <2>1
  <2> QED
    BY <1>4, <2>1, <2>2 DEF AllBefore
<1> QED
  BY <1>2, <1>3, <1>4

(* Steps that write a line the session does not depend on, or take a file *)
Jots(e) ==
    /\ Live /\ drv.pc # "commit" /\ drv'.pc # "commit"
    /\ journal' = Append(journal, e) /\ UNCHANGED ckpts
    /\ e.t \notin {"level_next", "steer", "batch"}
    /\ drv'.hist = drv.hist /\ drv'.base = drv.base
    /\ drv'.evid = IF e.t = "evidence" THEN Append(drv.evid, e.val) ELSE drv.evid
    /\ drv'.pc \in Stepped => drv.pc \in Stepped

LEMMA JotsSession == ASSUME RunInv, SessionInv, NEW e, Jots(e) PROVE SessionInv'
<1>1. /\ IsSeq(journal) /\ journal' = Append(journal, e) /\ UNCHANGED ckpts
      /\ e.t \notin {"level_next", "steer", "batch"} /\ ~IsBatch(e)
  BY DEF RunInv, InOrder, Counted, Jots, IsBatch
<1>2. Shapely(journal, e)
  BY <1>1 DEF Shapely
<1>3. /\ Shape(journal') /\ \A k \in ckpts' : Described(journal', k)
      /\ AllBefore(Batch) => AllBefore(Batch)'
  <2>1. \A b : AllBefore(b) => AllBefore(b)'
    BY <1>1, <1>2, AppendSession
  <2>2. Batch' = Batch
    BY DEF Batch, Jots
  <2>3. Shape(journal') /\ \A k \in ckpts' : Described(journal', k)
    BY <1>1, <1>2, AppendSession
  <2>4. AllBefore(Batch) => AllBefore(Batch)'
    <3> DEFINE b == Batch
    <3>1. AllBefore(b) => \A i \in 1..Len(journal') :
             journal'[i].t \in {"steer", "level_next"} => journal'[i].batch < b
      <4> HIDE DEF b
      <4> QED
        BY <2>1 DEF AllBefore
    <3> QED
      BY <2>2, <3>1 DEF AllBefore
  <2> QED
    BY <2>3, <2>4
<1>4. SessionHolds'
  <2>1. History(journal') = History(journal)
    BY <1>1, HistoryAppended
  <2>2. Evidence(journal') = IF e.t = "evidence" THEN Append(Evidence(journal), e.val)
                                                ELSE Evidence(journal)
    BY <1>1, EvidenceAppended
  <2> QED
    BY <1>3, <2>1, <2>2 DEF SessionInv, SessionHolds, Jots
<1> QED
  BY <1>3, <1>4 DEF SessionInv

LEMMA JottingSteps ==
    ASSUME RunInv, Live => DOMAIN drv = Fields,
           \/ EmitSeed \/ KeepNew \/ Raise \/ LevelRejected \/ Finish \/ TakeFile \/ EmitEnd
    PROVE  \E e : Jots(e)
<1>1. CASE EmitSeed
  <2>1. PICK e : journal' = Append(journal, e) /\ e.t = "seed"
    BY <1>1, EventIs DEF EmitSeed, Emit
  <2> QED
    BY <1>1, <2>1 DEF EmitSeed, Wrote, Jots, Live, Fields, Stepped
<1>2. CASE KeepNew
  <2>1. PICK e : journal' = Append(journal, e) /\ e.t = "kept"
    BY <1>2, EventIs DEF KeepNew, Emit
  <2> QED
    BY <1>2, <2>1 DEF KeepNew, Wrote, Jots, Live, Fields, Stepped
<1>3. CASE Raise
  <2>1. PICK e : journal' = Append(journal, e) /\ e.t = "budget"
    BY <1>3, EventIs DEF Raise, Emit
  <2> QED
    BY <1>3, <2>1 DEF Raise, Wrote, Jots, Live, Fields, Stepped
<1>4. CASE LevelRejected
  <2>1. PICK e : journal' = Append(journal, e) /\ e.t = "level_rejected"
    BY <1>4, EventIs DEF LevelRejected, Emit
  <2> QED
    BY <1>4, <2>1 DEF LevelRejected, Wrote, Jots, Live, Fields, Stepped
<1>5. CASE Finish
  <2>1. PICK e : journal' = Append(journal, e) /\ e.t = "level"
    BY <1>5, EventIs DEF Finish, Emit
  <2> QED
    BY <1>5, <2>1 DEF Finish, Wrote, Jots, Live, Fields, Stepped
<1>6. CASE TakeFile
  <2> DEFINE f == Min(drv.queue)
             t == IF f \notin BadFiles THEN "evidence" ELSE "evidence_rejected"
             e == Event(drv.seq + 1, t, Batch, f)
  <2>1. /\ journal' = Append(journal, e) /\ drv.pc = "inbox" /\ UNCHANGED ckpts
        /\ drv' = [Wrote("inbox") EXCEPT !.queue = @ \ {f}, !.taken = @ \cup {f},
                       !.evid = IF f \notin BadFiles THEN Append(@, f) ELSE @]
    BY <1>6 DEF TakeFile, Emit
  <2>2. e.t = t /\ e.val = f
    BY EventIs
  <2> HIDE DEF e, f
  <2>3. /\ drv'.pc = "inbox" /\ drv'.hist = drv.hist /\ drv'.base = drv.base
        /\ drv'.evid = IF f \notin BadFiles THEN Append(drv.evid, f) ELSE drv.evid
    BY <2>1 DEF Wrote, Live, Fields
  <2>4. Jots(e)
    BY <2>1, <2>2, <2>3 DEF Jots, Live, Stepped
  <2> QED
    BY <2>4
<1>7. CASE EmitEnd
  <2>1. PICK e : journal' = Append(journal, e) /\ e.t = "end"
    <3>1. EndEvent(drv.seq + 1, Batch, drv.outcome).t = "end"
      BY DEF EndEvent, Event
    <3> QED
      BY <1>7, <3>1 DEF EmitEnd
  <2> QED
    BY <1>7, <2>1 DEF EmitEnd, Wrote, Caller, Jots, Live, Fields, Stepped
<1> QED
  BY <1>1, <1>2, <1>3, <1>4, <1>5, <1>6, <1>7

(* A case grown is one the level has not grown. *)
LEMMA GrowSession ==
    ASSUME RunInv, SessionInv, Live => DOMAIN drv = Fields, NEW i,
           ApplyGrowCase(i), journal' # journal
    PROVE  SessionInv'
<1> DEFINE c == requests[i].arg
           e == Event(drv.seq + 1, "steer", Batch, c)
<1>1. /\ Live /\ drv.pc = "control" /\ DOMAIN drv = Fields /\ IsSeq(journal)
      /\ c \notin Cases(drv.hist) /\ journal' = Append(journal, e) /\ UNCHANGED ckpts
      /\ drv' = [Reply(i, "applied") EXCEPT !.seq = @ + 1, !.hist = Append(@, Grew(c))]
  BY DEF ApplyGrowCase, Serving, Emit, Live, RunInv, InOrder, Counted
<1>2. e.t = "steer" /\ e.val = c
  BY EventIs
<1> HIDE DEF e, c
<1>3. drv'.hist = Append(drv.hist, Grew(c)) /\ drv'.evid = drv.evid /\ drv'.pc = "ack"
  BY <1>1 DEF Reply, Fields
<1>4. drv.hist = History(journal) /\ drv.evid = Evidence(journal)
  BY <1>1 DEF SessionInv, SessionHolds
<1>5. Shapely(journal, e)
  <2>1. ASSUME NEW x \in 1..Len(journal), journal[x].t = "steer", journal[x].val = c
        PROVE  x <= LevelIndex(journal)
    <3>1. x \notin Applied(journal)
      BY <1>1, <1>4, <2>1, CasesAre
    <3>2. LevelIndex(journal) \in Nat /\ Len(journal) \in Nat
      <4>1. Len(journal) \in Nat
        BY <1>1 DEF IsSeq
      <4> QED
        BY <1>1, <4>1, LevelIs
    <3> QED
      BY <2>1, <3>1, <3>2 DEF Applied
  <2> QED
    BY <1>2, <2>1 DEF Shapely, IsBatch
<1>6. Shape(journal') /\ \A k \in ckpts' : Described(journal', k)
  BY <1>1, <1>2, <1>5, AppendSession DEF IsBatch
<1>7. History(journal') = drv'.hist /\ Evidence(journal') = drv'.evid
  BY <1>1, <1>2, <1>3, <1>4, HistoryAppended, EvidenceAppended
<1> QED
  BY <1>3, <1>6, <1>7 DEF SessionInv, SessionHolds, Stepped

(* A batch advanced is one ahead of its line, ... *)
LEMMA AdvanceSession ==
    ASSUME RunInv, SessionInv, Live => DOMAIN drv = Fields, NEW v, Advance(v)
    PROVE  SessionInv'
<1> DEFINE e == Event(drv.seq + 1, "records", Batch + 1, 0)
<1>0. /\ Live /\ AtJournal /\ DOMAIN drv = Fields /\ drv.pc = "inbox" /\ v # 5
      /\ Batch = LastBatch(journal) /\ Batch \in Nat /\ IsSeq(journal)
      /\ UNCHANGED ckpts
  <2>1. Live /\ DOMAIN drv = Fields /\ drv.pc = "inbox" /\ v # 5 /\ UNCHANGED ckpts
    BY DEF Advance, Live
  <2>2. AtJournal /\ IsSeq(journal) /\ LastBatch(journal) \in Nat
    BY <2>1, LastBatchTops DEF RunInv, InOrder, Counted
  <2>3. Batch = LastBatch(journal)
    BY <2>1, <2>2 DEF AtJournal
  <2> QED
    BY <2>1, <2>2, <2>3
<1>1. \/ journal' = Append(journal, e) /\ drv' = [Advanced(v) EXCEPT !.seq = @ + 1]
      \/ journal' = journal /\ drv' = Advanced(v)
  BY DEF Advance, Emit
<1>2. e.t = "records"
  BY EventIs
<1> HIDE DEF e
<1>3. /\ drv'.base = drv.base /\ drv'.pc = "commit" /\ drv'.evid = drv.evid
      /\ drv'.hist = Append(drv.hist, Ran(drv.wm, drv.evid, v))
      /\ drv'.ranAt = drv.wm /\ drv'.verdict = v
  <2>1. /\ Advanced(v).base = drv.base /\ Advanced(v).pc = "commit"
        /\ Advanced(v).evid = drv.evid /\ Advanced(v).ranAt = drv.wm /\ Advanced(v).verdict = v
        /\ Advanced(v).hist = Append(drv.hist, Ran(drv.wm, drv.evid, v))
        /\ DOMAIN Advanced(v) = Fields
    BY <1>0 DEF Advanced, Fields
  <2> QED
    BY <1>1, <2>1 DEF Fields
<1>4. drv.hist = History(journal) /\ drv.evid = Evidence(journal)
  BY <1>0 DEF SessionInv, SessionHolds
<1>5. Batch' = Batch + 1
  <2>1. IsSeq(drv.hist) /\ drv.base \in Nat /\ Ran(drv.wm, drv.evid, v).kind = "batch"
    BY <1>0 DEF AtJournal, Ran
  <2>2. Batches(drv'.hist) = Batches(drv.hist) + 1 /\ Batches(drv.hist) \in Nat
    BY <1>3, <2>1, BatchesOf
  <2> QED
    BY <1>3, <2>1, <2>2 DEF Batch
<1>6. /\ Shape(journal') /\ \A k \in ckpts' : Described(journal', k)
      /\ History(journal') = History(journal) /\ Evidence(journal') = Evidence(journal)
      /\ \A i \in 1..Len(journal') :
             journal'[i] = e \/ \E x \in 1..Len(journal) : journal'[i] = journal[x]
  <2>1. CASE journal' = journal
    BY <1>0, <2>1 DEF SessionInv
  <2>2. CASE journal' = Append(journal, e)
    <3>1. Shapely(journal, e) /\ ~IsBatch(e)
      BY <1>2 DEF Shapely, IsBatch
    <3>2. Shape(journal') /\ \A k \in ckpts' : Described(journal', k)
      BY <1>0, <2>2, <3>1, AppendSession
    <3>3. History(journal') = History(journal) /\ Evidence(journal') = Evidence(journal)
      BY <1>0, <1>2, <2>2, HistoryAppended, EvidenceAppended
    <3>4. /\ Len(journal) \in Nat /\ Len(journal') = Len(journal) + 1
          /\ journal'[Len(journal) + 1] = e
          /\ \A i \in 1..Len(journal) : journal'[i] = journal[i]
      BY <1>0, <2>2, Appended
    <3>5. \A i \in 1..Len(journal') : i \in 1..Len(journal) \/ i = Len(journal) + 1
      BY <3>4
    <3> QED
      BY <3>2, <3>3, <3>4, <3>5
  <2> QED
    BY <1>1, <2>1, <2>2
<1>7. AllBefore(Batch)'
  <2>1. \A x \in 1..Len(journal) : journal[x].batch < Batch + 1
    <3>1. \A x \in 1..Len(journal) : journal[x].batch <= Batch /\ journal[x].batch \in Nat
      BY <1>0 DEF RunInv, InOrder, Counted, AtJournal
    <3> QED
      BY <1>0, <3>1
  <2>2. \A i \in 1..Len(journal') :
           journal'[i].t \in {"steer", "level_next"} => journal'[i].batch < Batch + 1
    BY <1>2, <1>6, <2>1
  <2> QED
    BY <1>5, <2>2 DEF AllBefore
<1>8. SessionHolds'
  BY <1>0, <1>3, <1>4, <1>6, <1>7 DEF SessionHolds
<1> QED
  BY <1>6, <1>8 DEF SessionInv

(* ... which makes it the journal's. *)
LEMMA CommitSession ==
    ASSUME RunInv, SessionInv, Live => DOMAIN drv = Fields, Commit
    PROVE  SessionInv'
<1> DEFINE e == BatchEvent(drv.seq + 1, Batch, drv.ranAt, drv.verdict, drv.streak)
<1>0. /\ Live /\ AtJournal /\ DOMAIN drv = Fields /\ drv.pc = "commit"
      /\ Batch = LastBatch(journal) + 1 /\ IsSeq(journal) /\ UNCHANGED ckpts
      /\ journal' = Append(journal, e) /\ drv' = Wrote("keepBatch")
  BY DEF RunInv, InOrder, Counted, Commit, Live, AtJournal
<1>1. /\ e.t = "batch" /\ e.batch = Batch /\ e.val = drv.ranAt /\ e.verdict = drv.verdict
      /\ IsBatch(e)
  BY DEF BatchEvent, Event, IsBatch
<1> HIDE DEF e
<1>2. /\ drv.hist = Append(History(journal), Ran(drv.ranAt, drv.evid, drv.verdict))
      /\ drv.verdict # 5 /\ drv.evid = Evidence(journal) /\ AllBefore(Batch)
  BY <1>0 DEF SessionInv, SessionHolds, Stepped
<1>3. /\ drv'.hist = drv.hist /\ drv'.evid = drv.evid /\ drv'.base = drv.base
      /\ drv'.pc = "keepBatch"
  BY <1>0 DEF Wrote, Fields
<1>4. Shapely(journal, e)
  BY <1>1, <1>2 DEF Shapely, AllBefore
<1>5. Shape(journal') /\ \A k \in ckpts' : Described(journal', k)
  BY <1>0, <1>1, <1>4, AppendSession
<1>6. History(journal') = drv.hist /\ Evidence(journal') = Evidence(journal)
  BY <1>0, <1>1, <1>2, HistoryAppended, EvidenceAppended
<1>7. AllBefore(Batch)'
  <2>1. Batch' = Batch
    BY <1>3 DEF Batch
  <2>2. /\ Len(journal) \in Nat /\ Len(journal') = Len(journal) + 1
        /\ journal'[Len(journal) + 1] = e
        /\ \A i \in 1..Len(journal) : journal'[i] = journal[i]
    BY <1>0, Appended
  <2>3. \A i \in 1..Len(journal') : i \in 1..Len(journal) \/ i = Len(journal) + 1
    BY <2>2
  <2>4. \A i \in 1..Len(journal') :
           journal'[i].t \in {"steer", "level_next"} => journal'[i].batch < Batch
    BY <1>1, <1>2, <2>2, <2>3 DEF AllBefore
  <2> QED
    BY <2>1, <2>4 DEF AllBefore
<1> QED
  BY <1>2, <1>3, <1>5, <1>6, <1>7 DEF SessionInv, SessionHolds

(* A level begins with nothing applied. *)
LEMMA NextLevelSession ==
    ASSUME RunInv, SessionInv, Live => DOMAIN drv = Fields, NextLevel
    PROVE  SessionInv'
<1> DEFINE e == Event(drv.seq + 1, "level_next", Batch, drv.level + 1)
<1>0. /\ Live /\ AtJournal /\ DOMAIN drv = Fields /\ drv.pc = "close" /\ IsSeq(journal)
      /\ UNCHANGED ckpts /\ journal' = Append(journal, e)
      /\ drv' = [Wrote("keepSeam") EXCEPT !.level = @ + 1, !.base = Batch, !.hist = <<>>,
                     !.wm = 0, !.streak = 0, !.close = FALSE]
  BY DEF RunInv, InOrder, Counted, NextLevel, Emit, Live
<1>1. e.t = "level_next" /\ e.batch = Batch /\ e.val = drv.level + 1
  BY EventIs
<1> HIDE DEF e
<1>2. drv'.hist = <<>> /\ drv'.evid = drv.evid /\ drv'.pc = "keepSeam"
  BY <1>0 DEF Wrote, Fields
<1>3. drv.level = Level(journal) /\ drv.evid = Evidence(journal) /\ AllBefore(Batch)
  BY <1>0 DEF AtJournal, SessionInv, SessionHolds, Stepped
<1>4. Shapely(journal, e) /\ ~IsBatch(e)
  BY <1>1, <1>3 DEF Shapely, AllBefore, IsBatch
<1>5. Shape(journal') /\ \A k \in ckpts' : Described(journal', k)
  BY <1>0, <1>4, AppendSession
<1>6. History(journal') = <<>> /\ Evidence(journal') = Evidence(journal)
  BY <1>0, <1>1, HistoryAppended, EvidenceAppended
<1> QED
  BY <1>2, <1>3, <1>5, <1>6 DEF SessionInv, SessionHolds, Stepped

(* A driver that is gone, over the same journal or one with an end more *)
LEMMA GoneSession ==
    ASSUME RunInv, SessionInv, ~Live', UNCHANGED ckpts,
           \/ journal' = journal
           \/ \E e : journal' = Append(journal, e) /\ e.t = "end"
    PROVE  SessionInv'
<1>1. CASE journal' = journal
  BY <1>1 DEF SessionInv
<1>2. ASSUME NEW e, journal' = Append(journal, e), e.t = "end"
      PROVE  SessionInv'
  <2>1. Shapely(journal, e) /\ ~IsBatch(e)
    BY <1>2 DEF Shapely, IsBatch
  <2> QED
    BY <1>2, <2>1, AppendSession DEF SessionInv
<1> QED
  BY <1>1, <1>2

LEMMA RecordedFault ==
    ASSUME NEW code, RecordFault(code)
    PROVE  \/ journal' = journal
           \/ \E e : journal' = Append(journal, e) /\ e.t = "end"
<1>1. EndEvent(LastSeq(journal) + 1, LastBatch(journal), code).t = "end"
  BY DEF EndEvent, Event
<1> QED
  BY <1>1 DEF RecordFault

(* What is cut off the journal takes nothing from what is kept. *)
LEMMA CutSession ==
    ASSUME RunInv, SessionInv, NEW c \in Nat, NEW t, CutTo(journal, c, t)
    PROVE  Shape(t) /\ \A k \in ckpts : k.batch <= c => Described(t, k)
<1>1. IsSeq(journal) /\ Counted(journal) /\ Shape(journal)
  BY DEF RunInv, InOrder, Counted, SessionInv
<1>2. Shape(t)
  <2>1. Len(t) \in 0..Len(journal) /\ t = UpTo(journal, Len(t))
    BY <1>1, CutAlike
  <2> QED
    BY <1>1, <2>1, ShapeUpTo
<1>3. ASSUME NEW k \in ckpts, k.batch <= c
      PROVE  Described(t, k)
  <2>1. k.batch \in Nat /\ Described(journal, k)
    BY DEF RunInv, Saved, SessionInv
  <2> QED
    BY <1>1, <1>3, <2>1, DescribedCut
<1> QED
  BY <1>2, <1>3

LEMMA ForkSession ==
    ASSUME RunInv, SessionInv, NEW k \in ckpts, Fork(k)
    PROVE  SessionInv'
<1> DEFINE t == KeptAt(journal, k.batch)
<1>1. /\ journal' = t /\ ckpts' = {k} /\ ~Live' /\ k.batch \in Nat /\ Counted(journal)
  BY DEF RunInv, InOrder, Saved, Fork, Live, Off
<1>2. CutTo(journal, k.batch, t)
  BY <1>1, KeptIsCut
<1> HIDE DEF t
<1>3. Shape(t) /\ Described(t, k)
  BY <1>1, <1>2, CutSession
<1> QED
  BY <1>1, <1>3 DEF SessionInv

LEMMA OpenFreshSession ==
    ASSUME RunInv, SessionInv, OpenFresh
    PROVE  SessionInv'
<1> DEFINE e == Event(1, "start", 0, 0)
           o == Opened(journal', <<>>, MaxBatches + 1)
<1>0. IsSeq(journal) /\ journal = <<>> /\ Len(journal) = 0 /\ UNCHANGED ckpts
  BY NoneYet DEF RunInv, OpenFresh
<1>1. e.t = "start" /\ journal' = Append(journal, e)
  BY <1>0, EventIs DEF OpenFresh
<1> HIDE DEF e
<1>2. Shapely(journal, e) /\ ~IsBatch(e)
  BY <1>1 DEF Shapely, IsBatch
<1>3. Shape(journal') /\ \A k \in ckpts' : Described(journal', k)
  BY <1>0, <1>1, <1>2, AppendSession
<1>4. History(journal') = <<>>
  <2>1. History(journal') = History(journal)
    BY <1>0, <1>1, HistoryAppended
  <2>2. Applied(journal) = {}
    BY <1>0 DEF Applied
  <2> QED
    BY <2>1, <2>2, AtNone DEF History
<1>5. drv'.hist = <<>> /\ drv'.evid = Evidence(journal') /\ drv'.pc = "seed"
  <2>1. drv' = [o EXCEPT !.pc = "seed"]
    BY DEF OpenFresh
  <2> QED
    BY <2>1 DEF Opened
<1> QED
  BY <1>3, <1>4, <1>5 DEF SessionInv, SessionHolds, Stepped

(* resume: the checkpoint, or the Seed, and the steering it missed are the
   session the kept journal describes. *)
LEMMA RestoredSession ==
    ASSUME RunInv, SessionInv, NEW kept, CutTo(journal, RestartAt, kept)
    PROVE  RestoredHistory(RestartAt, kept) = History(kept)
<1> DEFINE c == RestartAt
           atSeed == CheckpointAt(c) = {} \/ (Level(kept) > 1 /\ c = Base(kept))
           saved == IF atSeed THEN <<>> ELSE (CHOOSE k \in ckpts : k.batch = c).hist
<1>1. /\ c \in Nat /\ c <= LastBatch(journal) /\ InOrder(journal)
      /\ \A k \in ckpts : k.batch <= c
      /\ CheckpointAt(c) = {} => c = 0
  BY RestartIs DEF RunInv
<1>2. /\ InOrder(kept) /\ LastBatch(kept) = c /\ Shape(kept)
      /\ \A i \in 1..Len(kept) : kept[i].t # "end" /\ kept[i].batch <= c
      /\ \A k \in ckpts : Described(kept, k)
  <2>1. InOrder(kept) /\ LastBatch(kept) = c /\ \A i \in 1..Len(kept) : kept[i].t # "end"
    BY <1>1, CutInOrder
  <2>2. \A i \in 1..Len(kept) : kept[i].batch <= c
    BY DEF CutTo
  <2>3. Shape(kept) /\ \A k \in ckpts : k.batch <= c => Described(kept, k)
    BY <1>1, CutSession
  <2> QED
    BY <1>1, <2>1, <2>2, <2>3
<1>3. /\ IsSeq(kept) /\ Counted(kept)
      /\ \A i \in 1..Len(kept) : kept[i].batch \in Nat
  BY <1>2 DEF InOrder, Counted
<1>4. RestoredHistory(c, kept) = Regrown(kept, c, saved)
  BY DEF RestoredHistory, AtSeed, Regrown
<1>5. \/ LevelIndex(kept) = 0 /\ Level(kept) = 1 /\ Base(kept) = 0
      \/ /\ LevelIndex(kept) \in 1..Len(kept) /\ Base(kept) = kept[LevelIndex(kept)].batch
         /\ Level(kept) > 1
  <2>1. \A i \in 1..Len(kept) : kept[i].t = "level_next" => kept[i].val > 1
    BY <1>3 DEF Counted
  <2> QED
    BY <1>3, <2>1, LevelIs
<1>6. CASE atSeed
  <2>1. saved = <<>>
    BY <1>6
  <2>2. Base(kept) = c
    BY <1>1, <1>2, <1>3, <1>5, <1>6
  <2> HIDE DEF saved, c, atSeed
  <2>3. History(kept) = Regrown(kept, Base(kept), <<>>)
    BY <1>2, <2>2, RegrownAtSeed
  <2> QED
    BY <1>4, <2>1, <2>2, <2>3 DEF c
<1>7. CASE ~atSeed
  <2>1. PICK k \in ckpts : k.batch = c /\ saved = k.hist
    BY <1>7 DEF CheckpointAt
  <2>2. LevelIndex(kept) = 0 \/ Base(kept) # k.batch
    BY <1>5, <1>7, <2>1
  <2> HIDE DEF saved, c, atSeed
  <2>3. History(kept) = Regrown(kept, k.batch, k.hist)
    BY <1>2, <2>1, <2>2, RegrownAtCheckpoint
  <2> QED
    BY <1>4, <2>1, <2>3 DEF c
<1> QED
  BY <1>6, <1>7

LEMMA OpenResumeSession ==
    ASSUME RunInv, SessionInv, OpenResume
    PROVE  SessionInv'
<1> DEFINE c == RestartAt
           kept == KeptAt(journal, c)
           h == RestoredHistory(c, kept)
           o == Opened(kept, h, LastCheckpoint(c))
<1>1. /\ c \in Nat /\ \A k \in ckpts : k.batch <= c
      /\ Counted(journal) /\ journal' = kept /\ UNCHANGED ckpts
      /\ drv' = [o EXCEPT !.deferred = Deferred(journal, c)]
  BY RestartIs DEF RunInv, InOrder, OpenResume
<1>2. CutTo(journal, c, kept)
  BY <1>1, KeptIsCut
<1>3. h = History(kept)
  BY <1>2, RestoredSession
<1>4. Shape(kept) /\ \A k \in ckpts : Described(kept, k)
  BY <1>1, <1>2, CutSession
<1> HIDE DEF c, kept, h
<1>5. drv'.hist = h /\ drv'.evid = Evidence(kept) /\ drv'.pc = "poll"
  BY <1>1 DEF Opened
<1> QED
  BY <1>1, <1>3, <1>4, <1>5 DEF SessionInv, SessionHolds, Stepped

LEMMA StepSession ==
    ASSUME RunInv, ControlInv, SessionInv, 5 \notin Verdicts, [Next]_vars
    PROVE  SessionInv'
<1>0. Live => DOMAIN drv = Fields
  BY DEF ControlInv
<1>1. CASE Open
  <2>1. CASE OpenRefused
    BY <2>1, RecordedFault, GoneSession DEF OpenRefused, Live
  <2>2. CASE OpenFault
    BY <2>2, RecordedFault, GoneSession DEF OpenFault, Live
  <2> QED
    BY <1>1, <2>1, <2>2, OpenFreshSession, OpenResumeSession DEF Open
<1>2. CASE Control
  <2>1. ASSUME NEW i \in 1..Len(requests),
               \/ ApplyAfterEnd(i) \/ ApplyPause(i) \/ ApplyResume(i) \/ ApplyCheckpoint(i)
               \/ ApplyStep(i) \/ ApplyStop(i)
        PROVE  SessionInv'
    BY <1>0, <2>1, StillControl, StillSession
  <2>2. ASSUME NEW i \in 1..Len(requests), ApplyGrowCase(i)
        PROVE  SessionInv'
    <3>1. CASE journal' = journal
      BY <1>0, <2>2, <3>1, StillControl, StillSession
    <3> QED
      BY <1>0, <2>2, <3>1, GrowSession
  <2>3. CASE Poll \/ Ack \/ (ControlDone /\ drv' # Off)
    BY <1>0, <2>3, StillControl, StillSession
  <2>4. CASE ControlDone /\ drv' = Off
    <3>1. ~Live' /\ UNCHANGED <<journal, ckpts>>
      BY <2>4 DEF ControlDone, disk, Live, Off
    <3> QED
      BY <3>1, GoneSession
  <2> QED
    BY <1>2, <2>1, <2>2, <2>3, <2>4 DEF Control
<1>3. CASE RunBatch
  <2>1. ~AdvanceUnknown
    BY DEF AdvanceUnknown
  <2>2. CASE BatchStart \/ KeepDone \/ RaisePastCeiling \/ PeriodicCheckpoint
    BY <1>0, <2>2, StillBatch, StillSession
  <2>3. CASE TakeFile \/ KeepNew \/ Raise
    BY <1>0, <2>3, JottingSteps, JotsSession
  <2> QED
    BY <1>0, <1>3, <2>1, <2>2, <2>3, AdvanceSession, CommitSession DEF RunBatch
<1>4. CASE EmitSeed \/ Close
  <2>1. CASE EmitSeed \/ LevelRejected \/ Finish
    BY <1>0, <2>1, JottingSteps, JotsSession
  <2> QED
    BY <1>0, <1>4, <2>1, NextLevelSession DEF Close
<1>5. CASE Fault
  BY <1>0, <1>5, StillBatch, StillSession
<1>6. CASE End
  <2>1. CASE EndCheckpoint
    BY <1>0, <2>1, StillBatch, StillSession
  <2>2. CASE EmitEnd
    BY <1>0, <2>2, JottingSteps, JotsSession
  <2>3. CASE EscapedFault
    BY <2>3, RecordedFault, GoneSession DEF EscapedFault, Live, Off
  <2> QED
    BY <1>6, <2>1, <2>2, <2>3 DEF End
<1>7. CASE Environment
  <2>1. CASE Crash
    BY <2>1, GoneSession DEF Crash, disk, Live, Off
  <2>2. ASSUME UNCHANGED <<journal, ckpts, drv>>
        PROVE  SessionInv'
    BY <2>2 DEF SessionInv, SessionHolds, Live, AllBefore, Batch
  <2>3. ASSUME NEW f \in Files, DropFile(f)
        PROVE  SessionInv'
    BY <2>2, <2>3 DEF DropFile, Viewer
  <2>4. ASSUME NEW a, NEW c, SendRequest(a, c)
        PROVE  SessionInv'
    BY <2>2, <2>4 DEF SendRequest, Viewer
  <2> QED
    BY <1>7, <2>1, <2>3, <2>4, ForkSession DEF Environment
<1>8. CASE UNCHANGED vars
  BY <1>8 DEF vars, SessionInv, SessionHolds, Live, AllBefore, Batch
<1> QED
  BY <1>1, <1>2, <1>3, <1>4, <1>5, <1>6, <1>7, <1>8 DEF Next, DriverStep

LEMMA InitSession == ASSUME Init PROVE SessionInv
<1>1. IsSeq(journal) /\ Len(journal) = 0 /\ ckpts = {} /\ ~Live
  BY NoneYet DEF Init, Live, Off
<1>2. Shape(journal)
  BY <1>1 DEF Shape, SteersApart, LevelsApart, LevelsCount, NoneUnknown
<1> QED
  BY <1>1, <1>2 DEF SessionInv

THEOREM SessionInvariant == ASSUME 5 \notin Verdicts PROVE Spec => []SessionInv
<1>1. Init => SessionInv
  BY InitSession
<1>2. RunInv /\ ControlInv /\ SessionInv /\ [Next]_vars => SessionInv'
  BY StepSession
<1> QED
  BY <1>1, <1>2, RunInvariant, ControlInvariant, PTL DEF Spec

(* No history of the journal ends in an unknown verdict. *)
LEMMA NoneEndsUnknown ==
    ASSUME NEW j, IsSeq(j), NoneUnknown(j)
    PROVE  ~Unknown(History(j))
<1> DEFINE h == History(j)
           x == Nth(Applied(j), Len(h))
<1> SUFFICES ASSUME h # <<>> PROVE ~(Last(h).kind = "batch" /\ Last(h).verdict = 5)
  BY DEF Unknown
<1>1. /\ IsSeq(h) /\ Applied(j) \in SUBSET (1..Len(j))
      /\ \A n \in 1..Len(h) : /\ Nth(Applied(j), n) \in Applied(j)
                              /\ h[n] = Entries(j)[Nth(Applied(j), n)]
  BY HistoryIs
<1> HIDE DEF h
<1>2. Len(h) \in 1..Len(h)
  BY <1>1 DEF IsSeq
<1>3. x \in Applied(j) /\ Last(h) = Entries(j)[x]
  BY <1>1, <1>2 DEF Last
<1> HIDE DEF x
<1>4. x \in 1..Len(j) /\ j[x].t \in {"batch", "steer"}
  BY <1>3 DEF Applied
<1>5. CASE j[x].t = "steer"
  BY <1>3, <1>4, <1>5 DEF Entries, Grew
<1>6. CASE j[x].t = "batch"
  <2>1. j[x].verdict # 5
    BY <1>4, <1>6 DEF NoneUnknown, IsBatch
  <2>2. Last(h).verdict = j[x].verdict
    BY <1>3, <1>4, <1>6 DEF Entries, Ran
  <2> QED
    BY <2>1, <2>2
<1> QED
  BY <1>4, <1>5, <1>6

(* resume and advance: outside the window between advance and the batch
   line, the session in memory is exactly the one the journal describes -
   also of a driver that was restored from a checkpoint, or from the Seed of
   its level, with the steering it had missed. *)
THEOREM SessionFoldsBack == ASSUME 5 \notin Verdicts PROVE Spec => []SessionMatchesJournal
<1>1. RunInv /\ SessionInv => SessionMatchesJournal
  <2> SUFFICES ASSUME RunInv, SessionInv, Live, drv.pc # "commit"
               PROVE  /\ History(journal) = IF Unknown(drv.hist) THEN Front(drv.hist)
                                                                  ELSE drv.hist
                      /\ drv.level = Level(journal) /\ drv.base = Base(journal)
                      /\ drv.evid = Evidence(journal) /\ drv.taken = Taken(journal)
                      /\ drv.seq = LastSeq(journal)
    BY DEF SessionMatchesJournal
  <2>1. /\ AtJournal /\ IsSeq(journal) /\ Counted(journal) /\ NoneUnknown(journal)
        /\ drv.hist = History(journal) /\ drv.evid = Evidence(journal)
    BY DEF RunInv, InOrder, Counted, SessionInv, SessionHolds, Shape
  <2>2. ~Unknown(drv.hist)
    BY <2>1, NoneEndsUnknown
  <2>3. drv.seq = LastSeq(journal)
    <3>1. journal # <<>> /\ drv.seq = Len(journal) /\ Len(journal) \in 1..Len(journal)
      BY <2>1 DEF AtJournal, IsSeq
    <3> QED
      BY <2>1, <3>1 DEF Counted, LastSeq, Last
  <2> QED
    BY <2>1, <2>2, <2>3 DEF AtJournal
<1> QED
  BY <1>1, RunInvariant, SessionInvariant, PTL

(* grow_case: a case is grown at most once in a level, also when a request
   whose acknowledgement was lost is applied again after a restart. *)
THEOREM CasesGrownOnce == ASSUME 5 \notin Verdicts PROVE Spec => []GrownOnce
<1>1. RunInv /\ SessionInv => GrownOnce
  <2> SUFFICES ASSUME RunInv, SessionInv, Live,
                      NEW i \in 1..Len(drv.hist), NEW k \in 1..Len(drv.hist),
                      drv.hist[i].kind = "grow", drv.hist[i] = drv.hist[k]
               PROVE  i = k
    BY DEF GrownOnce
  <2> DEFINE h == History(journal)
  <2>1. IsSeq(journal) /\ SteersApart(journal) /\ SessionHolds
    BY DEF RunInv, InOrder, Counted, SessionInv, Shape
  <2>2. CASE drv.pc # "commit"
    BY <2>1, <2>2, GrowsOnce DEF SessionHolds
  <2>3. CASE drv.pc = "commit"
    <3> DEFINE r == Ran(drv.ranAt, drv.evid, drv.verdict)
    <3>1. IsSeq(h) /\ drv.hist = Append(h, r) /\ r.kind = "batch"
      BY <2>1, <2>3, HistoryIs DEF SessionHolds, Ran
    <3> HIDE DEF h, r
    <3>2. /\ Len(h) \in Nat /\ Len(drv.hist) = Len(h) + 1 /\ drv.hist[Len(h) + 1] = r
          /\ \A n \in 1..Len(h) : drv.hist[n] = h[n]
      BY <3>1, Appended
    <3>3. i \in 1..Len(h) /\ k \in 1..Len(h)
      BY <3>1, <3>2
    <3>4. h[i].kind = "grow" /\ h[i] = h[k]
      BY <3>2, <3>3
    <3> QED
      BY <2>1, <3>3, <3>4, GrowsOnce DEF h
  <2> QED
    BY <2>2, <2>3
<1> QED
  BY <1>1, RunInvariant, SessionInvariant, PTL

(* checkpoint, kept_at: every checkpoint on disk is a state of the journal
   cut at its batch, short of steering journaled after it was saved; where a
   level began at its batch it may be the closing session of the level
   before. *)
THEOREM CheckpointsFoldBack ==
    ASSUME 5 \notin Verdicts PROVE Spec => []CheckpointsMatchJournal
<1>1. RunInv /\ SessionInv => CheckpointsMatchJournal
  <2> SUFFICES ASSUME RunInv, SessionInv, NEW k \in ckpts
               PROVE  LET j == KeptAt(journal, k.batch)
                          before == SubSeq(j, 1, LevelIndex(j) - 1)
                      IN  /\ k.batch <= LastBatch(journal)
                          /\ \/ k.level = Level(j) /\ Covers(History(j), k)
                             \/ Base(j) = k.batch /\ k.level = Level(j) - 1
                                                  /\ Covers(History(before), k)
    BY DEF CheckpointsMatchJournal
  <2> DEFINE j == KeptAt(journal, k.batch)
             q == LevelIndex(j)
             before == UpTo(j, q - 1)
  <2>1. /\ k.batch \in Nat /\ k.batch <= LastBatch(journal) /\ InOrder(journal)
        /\ LastBatch(journal) \in Nat
    BY LastBatchTops DEF RunInv, InOrder, Saved
  <2>2. CutTo(journal, k.batch, j)
    BY <2>1, KeptIsCut DEF InOrder
  <2> HIDE DEF j
  <2>3. /\ InOrder(j) /\ Counted(j) /\ BatchLines(j) /\ IsSeq(j) /\ Len(j) \in Nat
        /\ Shape(j) /\ LevelsApart(j) /\ LevelsCount(j)
        /\ LastBatch(j) = k.batch /\ k.batch \in 0..LastBatch(j) /\ Described(j, k)
        /\ \A i \in 1..Len(j) : j[i].t # "end" /\ j[i].batch <= k.batch /\ j[i].batch \in Nat
    <3>1. InOrder(j) /\ LastBatch(j) = k.batch /\ \A i \in 1..Len(j) : j[i].t # "end"
      BY <2>1, <2>2, CutInOrder
    <3>2. \A i \in 1..Len(j) : j[i].batch <= k.batch
      BY <2>2 DEF CutTo
    <3>3. Shape(j) /\ Described(j, k)
      BY <2>1, <2>2, CutSession
    <3>4. IsSeq(j) /\ Counted(j) /\ BatchLines(j) /\ \A i \in 1..Len(j) : j[i].batch \in Nat
      BY <3>1 DEF InOrder, Counted
    <3>5. Len(j) \in Nat /\ k.batch \in 0..LastBatch(j)
      BY <2>1, <3>1, <3>4 DEF IsSeq
    <3> QED
      BY <3>1, <3>2, <3>3, <3>4, <3>5 DEF Shape
  <2>4. PICK n \in 0..Len(j) : Describes(j, n, k)
    BY <2>3 DEF Described
  <2>5. /\ k.hist = History(UpTo(j, n)) /\ k.level = Level(UpTo(j, n))
        /\ \A i \in 1..Len(j) : i > n => j[i].batch = k.batch /\ ~IsBatch(j[i])
    <3>1. ASSUME NEW i \in 1..Len(j), i > n
          PROVE  j[i].batch = k.batch /\ ~IsBatch(j[i])
      <4>1. k.batch <= j[i].batch /\ j[i].batch <= k.batch
        BY <2>3, <2>4, <3>1, DescribedBefore
      <4>2. IsBatch(j[i]) => j[i].batch > k.batch
        BY <2>4, <3>1 DEF Describes
      <4> QED
        BY <2>1, <2>3, <4>1, <4>2
    <3> QED
      BY <2>4, <3>1 DEF Describes
  <2>6. CASE \A i \in 1..Len(j) : j[i].t = "level_next" => i <= n
    <3>1. \A i \in 1..Len(j) : j[i].t \in {"batch", "level_next"} => i <= n
      BY <2>3, <2>5, <2>6 DEF IsBatch
    <3>2. Covers(History(j), k) /\ k.level = Level(j)
      BY <2>3, <2>5, <3>1, HistoryCovers DEF Covers
    <3> QED
      BY <2>1, <3>2 DEF j
  <2>7. CASE ~(\A i \in 1..Len(j) : j[i].t = "level_next" => i <= n)
    <3>1. /\ q \in 1..Len(j) /\ q > n /\ j[q].t = "level_next"
          /\ Level(j) = j[q].val /\ Base(j) = j[q].batch
      <4>1. /\ q \in 1..Len(j) /\ j[q].t = "level_next"
            /\ Level(j) = j[q].val /\ Base(j) = j[q].batch
            /\ \A i \in 1..Len(j) : j[i].t = "level_next" => i <= q
        BY <2>3, <2>7, LevelIs
      <4>2. q > n
        BY <2>3, <2>7, <4>1
      <4> QED
        BY <4>1, <4>2
    <3> HIDE DEF q
    <3>2. Base(j) = k.batch
      BY <2>5, <3>1
    <3> DEFINE m == q - 1
    <3>3. /\ m \in 0..Len(j) /\ n \in 0..m /\ IsSeq(before) /\ Len(before) = m
          /\ Alike(before, j, m) /\ UpTo(before, n) = UpTo(j, n)
          /\ \A i \in 1..m : before[i] = j[i] /\ i \in 1..Len(j) /\ i < q
      <4>1. m \in 0..Len(j) /\ n \in 0..m /\ \A i \in 1..m : i \in 1..Len(j) /\ i < q
        BY <2>3, <3>1
      <4>2. IsSeq(before) /\ Len(before) = m /\ Alike(before, j, m)
            /\ \A i \in 1..m : before[i] = j[i]
        BY <2>3, <4>1, UpToIs, UpToAlike
      <4>3. UpTo(before, n) = UpTo(j, n)
        BY <4>1, <4>2, AlikeLess
      <4> QED
        BY <4>1, <4>2, <4>3
    <3> HIDE DEF m, before
    <3>4. ASSUME NEW i \in 1..Len(before), before[i].t \in {"batch", "level_next"}
          PROVE  i <= n
      <4>1. i \in 1..Len(j) /\ i < q /\ j[i].t \in {"batch", "level_next"}
        BY <3>3, <3>4
      <4>2. j[i].t = "level_next" => j[i].batch < j[q].batch
        BY <2>3, <3>1, <4>1 DEF LevelsApart
      <4>3. i > n => j[i].t = "level_next" /\ j[i].batch = j[q].batch
        BY <2>5, <3>1, <3>2, <4>1 DEF IsBatch
      <4>4. j[q].batch \in Nat
        BY <2>3, <3>1
      <4> QED
        BY <2>3, <4>1, <4>2, <4>3, <4>4
    <3>5. Covers(History(before), k) /\ k.level = Level(before)
      <4>1. n \in 0..Len(before)
        BY <3>3
      <4> QED
        BY <2>5, <3>3, <3>4, <4>1, HistoryCovers DEF Covers
    <3>6. k.level = Level(j) - 1
      <4>1. Level(j) = Level(before) + 1
        BY <2>3, <3>1 DEF LevelsCount, before
      <4>2. Level(before) \in Nat
        <5>1. \A i \in 1..Len(before) : before[i].t = "level_next" => before[i].val \in Nat
          BY <2>3, <3>3 DEF Counted
        <5> QED
          BY <3>3, <5>1, LevelIs
      <4> QED
        BY <3>5, <4>1, <4>2
    <3>7. before = SubSeq(j, 1, LevelIndex(j) - 1)
      BY DEF before, UpTo, q
    <3> QED
      BY <2>1, <3>2, <3>5, <3>6, <3>7 DEF j
  <2> QED
    BY <2>6, <2>7
<1> QED
  BY <1>1, RunInvariant, SessionInvariant, PTL

-----------------------------------------------------------------------------
(* The run directory is a store of the states the run has been in *)

(* What is steered, and a level that begins, follows the line of its batch. *)
Anchored(j) ==
    \A i \in 1..Len(j) : j[i].t \in {"steer", "level_next"}
                              => j[i].batch <= LastBatch(UpTo(j, i))

LEMMA AnchoredUpTo ==
    ASSUME NEW j, IsSeq(j), Anchored(j), NEW n \in 0..Len(j)
    PROVE  Anchored(UpTo(j, n))
<1> DEFINE p == UpTo(j, n)
<1>1. /\ Alike(p, j, n) /\ Len(p) = n /\ Len(j) \in Nat
      /\ \A i \in 1..n : p[i] = j[i] /\ i \in 1..Len(j)
  <2>1. Len(j) \in Nat
    BY DEF IsSeq
  <2> QED
    BY <2>1, UpToAlike, UpToIs
<1>2. \A i \in 1..n : UpTo(p, i) = UpTo(j, i)
  <2> TAKE i \in 1..n
  <2>1. i \in 0..n
    BY <1>1
  <2> HIDE DEF p
  <2> QED
    BY <1>1, <2>1, AlikeLess
<1> HIDE DEF p
<1> QED
  BY <1>1, <1>2 DEF Anchored, p

LEMMA AnchoredAppended ==
    ASSUME NEW j, IsSeq(j), Anchored(j), NEW e,
           e.t \in {"steer", "level_next"} => e.batch <= LastBatch(j)
    PROVE  Anchored(Append(j, e))
<1> DEFINE t == Append(j, e)
           n == Len(j) + 1
<1>1. /\ Alike(t, j, Len(j)) /\ IsSeq(t) /\ UpTo(t, n) = t
      /\ Len(j) \in Nat /\ Len(t) = n /\ t[n] = e
      /\ \A i \in 1..Len(j) : t[i] = j[i]
  <2>1. /\ IsSeq(t) /\ Len(j) \in Nat /\ Len(t) = n /\ t[n] = e
        /\ \A i \in 1..Len(j) : t[i] = j[i]
    BY Appended
  <2>2. Alike(t, j, Len(j))
    BY AppendAlike
  <2> HIDE DEF t, n
  <2> QED
    BY <2>1, <2>2, AllUpTo
<1>2. ~IsBatch(e) => LastBatch(t) = LastBatch(j)
  BY LastBatchAppended
<1> HIDE DEF t
<1>3. \A i \in 1..Len(j) : UpTo(t, i) = UpTo(j, i)
  <2> TAKE i \in 1..Len(j)
  <2>1. i \in 0..Len(j)
    BY <1>1
  <2> QED
    BY <1>1, <2>1, AlikeLess
<1>4. \A i \in 1..Len(t) : i = n \/ i \in 1..Len(j)
  BY <1>1
<1>5. e.t \in {"steer", "level_next"} => e.batch <= LastBatch(UpTo(t, n))
  BY <1>1, <1>2 DEF IsBatch
<1> HIDE DEF n
<1> QED
  BY <1>1, <1>3, <1>4, <1>5 DEF Anchored, t

(* A line adds the state it leaves the run in, ... *)
LEMMA PastAppended ==
    ASSUME NEW j, IsSeq(j), NEW e
    PROVE  PastOf(Append(j, e)) = PastOf(j) \cup {StateOf(Append(j, e))}
<1> DEFINE t == Append(j, e)
           n == Len(j) + 1
<1>1. /\ Alike(t, j, Len(j)) /\ IsSeq(t) /\ UpTo(t, n) = t
      /\ Len(j) \in Nat /\ Len(t) = n
  <2>1. IsSeq(t) /\ Len(j) \in Nat /\ Len(t) = n
    BY Appended
  <2>2. Alike(t, j, Len(j))
    BY AppendAlike
  <2> HIDE DEF t, n
  <2> QED
    BY <2>1, <2>2, AllUpTo
<1> HIDE DEF t
<1>2. \A i \in 0..Len(j) : UpTo(t, i) = UpTo(j, i)
  BY <1>1, AlikeLess
<1>3. 0..Len(t) = (0..Len(j)) \cup {n}
  BY <1>1
<1> HIDE DEF n
<1> QED
  BY <1>1, <1>2, <1>3 DEF PastOf, t

LEMMA NowInPast == ASSUME NEW j, IsSeq(j) PROVE StateOf(j) \in PastOf(j)
BY AllUpTo DEF PastOf

(* ... the same one, unless it is a batch, a case or a level. *)
LEMMA StateNoted ==
    ASSUME NEW j, IsSeq(j), NEW e, e.t \notin {"batch", "steer", "level_next"}
    PROVE  StateOf(Append(j, e)) = StateOf(j) /\ PastOf(Append(j, e)) = PastOf(j)
<1>1. StateOf(Append(j, e)) = StateOf(j)
  BY LastBatchAppended, LevelAppended, HistoryAppended DEF StateOf, IsBatch
<1> QED
  BY <1>1, PastAppended, NowInPast

LEMMA ClosedAppended ==
    ASSUME NEW j, IsSeq(j), NEW e
    PROVE  HasLevel(Append(j, e)) <=> HasLevel(j) \/ e.t = "level"
<1>1. /\ Len(j) \in Nat /\ Len(Append(j, e)) = Len(j) + 1
      /\ Append(j, e)[Len(j) + 1] = e
      /\ \A i \in 1..Len(j) : Append(j, e)[i] = j[i]
  BY Appended
<1>2. 1..Len(Append(j, e)) = (1..Len(j)) \cup {Len(j) + 1}
  BY <1>1
<1> QED
  BY <1>1, <1>2 DEF HasLevel

(* No batch follows the line of the last one. *)
LEMMA AfterLastBatch ==
    ASSUME NEW t, InOrder(t), NEW m \in 0..Len(t),
           LastBatch(UpTo(t, m)) = LastBatch(t)
    PROVE  \A i \in 1..Len(t) :
              i > m => /\ ~IsBatch(t[i])
                       /\ LastBatch(t) <= t[i].batch \/ t[i].t = "end"
<1> DEFINE p == UpTo(t, m)
           c == LastBatch(t)
<1>1. /\ IsSeq(p) /\ Len(p) = m /\ IsSeq(t) /\ Counted(t) /\ BatchLines(t)
      /\ c \in Nat /\ Len(t) \in Nat
      /\ \A i \in 1..m : p[i] = t[i] /\ i \in 1..Len(t)
  <2>1. IsSeq(t) /\ Counted(t) /\ BatchLines(t) /\ Len(t) \in Nat
    BY DEF InOrder, Counted, IsSeq
  <2> QED
    BY <2>1, UpToIs, LastBatchTops
<1> SUFFICES ASSUME NEW i \in 1..Len(t), i > m
             PROVE  ~IsBatch(t[i]) /\ (c <= t[i].batch \/ t[i].t = "end")
  OBVIOUS
<1>2. t[i].batch \in Nat
  BY <1>1 DEF Counted
<1>3. IsBatch(t[i]) => t[i].batch <= c /\ t[i].batch >= 1
  BY <1>1, LastBatchTops DEF BatchLines
<1>4. CASE c = 0
  BY <1>2, <1>3, <1>4
<1>5. CASE c # 0
  <2> HIDE DEF c, p
  <2>1. LastBatch(p) = c
    BY DEF p, c
  <2>2. PICK b \in 1..Len(p) : IsBatch(p[b]) /\ p[b].batch = c
    BY <1>1, <1>5, <2>1, LastBatchIs
  <2>3. b \in 1..Len(t) /\ b < i /\ IsBatch(t[b]) /\ t[b].batch = c
    BY <1>1, <2>2
  <2>4. c <= t[i].batch \/ t[i].t = "end"
    BY <1>1, <2>3 DEF Counted
  <2>5. ~IsBatch(t[i])
    <3> SUFFICES ASSUME IsBatch(t[i]) PROVE FALSE
      OBVIOUS
    <3>1. t[i].batch = c
      BY <1>1, <1>2, <1>3, <2>4 DEF IsBatch
    <3> QED
      BY <1>1, <2>3, <3>1 DEF BatchLines
  <2> QED
    BY <2>4, <2>5
<1> QED
  BY <1>4, <1>5

(* Of two states of one batch the later one is on the way from the other:
   a session more was steered into, or the next level. *)
LEMMA PastOnTheWay ==
    ASSUME NEW t, InOrder(t), Shape(t), NEW m \in 0..Len(t),
           LastBatch(UpTo(t, m)) = LastBatch(t),
           \A i \in 1..Len(t) : t[i].t # "end" /\ t[i].batch <= LastBatch(t)
    PROVE  \/ Level(UpTo(t, m)) < Level(t)
           \/ /\ Level(UpTo(t, m)) = Level(t)
              /\ IsPrefix(History(UpTo(t, m)), History(t))
<1> DEFINE q == LevelIndex(t)
           before == UpTo(t, q - 1)
<1>1. /\ IsSeq(t) /\ Len(t) \in Nat /\ LastBatch(t) \in Nat
      /\ LevelsApart(t) /\ LevelsCount(t)
      /\ \A i \in 1..Len(t) : /\ t[i].batch \in Nat
                              /\ t[i].t = "level_next" => t[i].val \in Nat
  <2>1. IsSeq(t) /\ LastBatch(t) \in Nat
        /\ \A i \in 1..Len(t) : /\ t[i].batch \in Nat
                                /\ t[i].t = "level_next" => t[i].val \in Nat
    BY LastBatchTops DEF InOrder, Counted
  <2>2. Len(t) \in Nat
    BY <2>1 DEF IsSeq
  <2> QED
    BY <2>1, <2>2 DEF Shape
<1>2. \A i \in 1..Len(t) : i > m => ~IsBatch(t[i]) /\ t[i].batch = LastBatch(t)
  <2>1. \A i \in 1..Len(t) : i > m => ~IsBatch(t[i]) /\ LastBatch(t) <= t[i].batch
    BY AfterLastBatch
  <2> QED
    BY <1>1, <2>1
<1>3. CASE \A i \in 1..Len(t) : t[i].t = "level_next" => i <= m
  <2>1. \A i \in 1..Len(t) : t[i].t \in {"batch", "level_next"} => i <= m
    BY <1>1, <1>2, <1>3 DEF IsBatch
  <2> QED
    BY <1>1, <2>1, HistoryCovers
<1>4. CASE ~(\A i \in 1..Len(t) : t[i].t = "level_next" => i <= m)
  <2>1. /\ q \in 1..Len(t) /\ t[q].t = "level_next" /\ Level(t) = t[q].val
        /\ \A i \in 1..Len(t) : t[i].t = "level_next" => i <= q
    BY <1>1, <1>4, LevelIs
  <2>2. m < q
    BY <1>1, <1>4, <2>1
  <2>3. Level(t) = Level(before) + 1
    BY <1>1, <2>1 DEF LevelsCount
  <2> HIDE DEF q, before
  <2>4. /\ q - 1 \in 0..Len(t) /\ m \in 0..(q - 1)
        /\ \A i \in 1..(q - 1) : i \in 1..Len(t) /\ i < q
    BY <1>1, <2>1, <2>2
  <2>5. /\ IsSeq(before) /\ Len(before) = q - 1 /\ Alike(before, t, q - 1)
        /\ \A i \in 1..(q - 1) : before[i] = t[i]
    BY <1>1, <2>4, UpToIs, UpToAlike DEF before
  <2>6. UpTo(before, m) = UpTo(t, m) /\ m \in 0..Len(before)
    BY <2>4, <2>5, AlikeLess
  <2>7. ASSUME NEW i \in 1..Len(before), before[i].t = "level_next"
        PROVE  i <= m
    <3>1. i \in 1..Len(t) /\ i < q /\ t[i].t = "level_next"
      BY <2>4, <2>5, <2>7
    <3>2. t[i].batch < t[q].batch
      BY <1>1, <2>1, <3>1 DEF LevelsApart
    <3>3. i > m => t[i].batch = t[q].batch
      BY <1>2, <2>1, <2>2, <3>1
    <3> QED
      BY <1>1, <2>1, <2>4, <3>1, <3>2, <3>3
  <2>8. Level(UpTo(t, m)) = Level(before)
    BY <2>5, <2>6, <2>7, LevelKept
  <2>9. Level(before) \in Nat
    <3>1. \A i \in 1..Len(before) : before[i].t = "level_next" => before[i].val \in Nat
      BY <1>1, <2>4, <2>5
    <3> QED
      BY <2>5, <3>1, LevelIs
  <2> QED
    BY <2>3, <2>8, <2>9
<1> QED
  BY <1>3, <1>4

(* What a cut takes off and leaves of a batch it keeps changed nothing. *)
LEMMA LostNothing ==
    ASSUME NEW j, InOrder(j), Anchored(j), NEW c \in Nat, NEW t, CutTo(j, c, t),
           c <= LastBatch(j), NEW m \in Len(t)..Len(j), LastBatch(UpTo(j, m)) <= c
    PROVE  StateOf(UpTo(j, m)) = StateOf(t)
<1> DEFINE p == UpTo(j, m)
           n == Len(t)
<1>1. /\ IsSeq(j) /\ Counted(j) /\ Len(j) \in Nat /\ IsSeq(t) /\ n \in Nat /\ n <= Len(j)
      /\ m \in 0..Len(j) /\ n \in 0..m /\ t = UpTo(j, n) /\ LastBatch(t) = c
  <2>1. IsSeq(j) /\ Counted(j) /\ Len(j) \in Nat /\ IsSeq(t) /\ n \in 0..Len(j)
    BY DEF InOrder, Counted, IsSeq, CutTo
  <2>2. t = UpTo(j, n)
    BY <2>1, CutAlike
  <2> QED
    BY <2>1, <2>2, CutInOrder
<1>2. /\ IsSeq(p) /\ Len(p) = m /\ Alike(p, j, m)
      /\ \A i \in 1..m : p[i] = j[i] /\ i \in 1..Len(j)
  BY <1>1, UpToIs, UpToAlike
<1>3. UpTo(p, n) = t
  <2> HIDE DEF p, n
  <2> QED
    BY <1>1, <1>2, AlikeLess
<1> HIDE DEF p, n
<1>4. \A i \in 1..Len(j) : /\ i > n => j[i].t = "end" \/ j[i].batch > c
                           /\ i <= n => j[i].batch <= c
                           /\ j[i].batch \in Nat
  BY <1>1 DEF CutTo, Counted, n
<1>5. ASSUME NEW i \in 1..m, i > n, IsBatch(j[i])
      PROVE  FALSE
  <2>1. PICK b \in 1..m : IsBatch(p[b]) /\ LastBatch(p) = p[b].batch /\ i <= b
    BY <1>2, <1>5, LastBatchIs
  <2>2. j[i].batch <= j[b].batch
    BY <1>1, <1>2, <2>1 DEF Counted, IsBatch
  <2>3. j[i].batch > c
    BY <1>2, <1>4, <1>5 DEF IsBatch
  <2>4. j[b].batch <= c
    BY <1>2, <2>1 DEF p
  <2> QED
    BY <1>2, <1>4, <2>2, <2>3, <2>4
<1>6. ASSUME NEW i \in 1..m, i > n, j[i].t \in {"steer", "level_next"}
      PROVE  FALSE
  <2> DEFINE r == UpTo(j, i)
  <2>1. /\ IsSeq(r) /\ Len(r) = i /\ \A k \in 1..i : r[k] = j[k] /\ k \in 1..m
    <3>1. i \in 0..Len(j)
      BY <1>1, <1>2
    <3> QED
      BY <1>1, <3>1, UpToIs
  <2>2. c < j[i].batch /\ j[i].batch <= LastBatch(r)
    BY <1>2, <1>4, <1>6 DEF Anchored
  <2> HIDE DEF r
  <2>3. LastBatch(r) # 0
    BY <1>2, <1>4, <2>2
  <2>4. PICK k \in 1..i : IsBatch(r[k]) /\ LastBatch(r) = r[k].batch
    BY <2>1, <2>3, LastBatchIs
  <2>5. k \in 1..m /\ IsBatch(j[k]) /\ j[k].batch > c
    <3>1. k \in 1..m /\ IsBatch(j[k]) /\ LastBatch(r) = j[k].batch /\ j[k].batch \in Nat
      BY <1>2, <1>4, <2>1, <2>4
    <3>2. j[i].batch \in Nat
      BY <1>2, <1>4
    <3> QED
      BY <2>2, <3>1, <3>2
  <2>6. k > n
    BY <1>1, <1>2, <1>4, <2>5
  <2> QED
    BY <1>5, <2>5, <2>6
<1>7. \A i \in 1..Len(p) : p[i].t \in {"batch", "steer", "level_next"} => i <= n
  BY <1>1, <1>2, <1>5, <1>6 DEF IsBatch
<1>8. Level(p) = Level(t)
  BY <1>1, <1>2, <1>3, <1>7, LevelKept
<1>9. History(p) = History(t)
  <2>1. Later(p, n) = {}
    BY <1>1, <1>2, <1>7 DEF Later
  <2>2. History(p) = History(t) \o <<>>
    BY <1>1, <1>2, <1>3, <1>7, <2>1, HistoryGrows, AtNone
  <2> DEFINE h == History(t)
             S == {h[i] : i \in 1..Len(h)}
  <2>3. IsSeq(h)
    BY <1>1, HistoryIs
  <2>4. h \in Seq(S)
    BY <2>3 DEF IsSeq
  <2> HIDE DEF h, S
  <2>5. h \o <<>> = h
    BY <2>4
  <2> QED
    BY <2>2, <2>5 DEF h
<1>10. LastBatch(p) = LastBatch(t)
  <2>1. \A i \in 1..n : t[i] = p[i] /\ i \in 1..Len(p)
    BY <1>1, <1>2, UpToIs
  <2>2. CASE \A i \in 1..n : ~IsBatch(t[i])
    <3>1. \A i \in 1..Len(p) : ~IsBatch(p[i])
      BY <1>1, <1>2, <1>7, <2>1, <2>2 DEF IsBatch
    <3>2. LastBatch(p) = 0 /\ LastBatch(t) = 0
      BY <1>1, <1>2, <2>2, <3>1, LastBatchIs DEF n
    <3> QED
      BY <3>2
  <2>3. CASE \E i \in 1..n : IsBatch(t[i])
    <3>1. PICK b \in 1..n : /\ IsBatch(t[b]) /\ LastBatch(t) = t[b].batch
                            /\ \A k \in 1..n : IsBatch(t[k]) => k <= b
      BY <1>1, <2>3, LastBatchIs DEF n
    <3>2. PICK a \in 1..Len(p) : /\ IsBatch(p[a]) /\ LastBatch(p) = p[a].batch
                                 /\ \A k \in 1..Len(p) : IsBatch(p[k]) => k <= a
      BY <1>2, <2>1, <3>1, LastBatchIs
    <3>3. a \in 1..n
      BY <1>1, <1>2, <1>7, <3>2 DEF IsBatch
    <3>4. a = b
      BY <1>1, <2>1, <3>1, <3>2, <3>3
    <3> QED
      BY <2>1, <3>1, <3>2, <3>4
  <2> QED
    BY <2>2, <2>3
<1> QED
  BY <1>8, <1>9, <1>10 DEF StateOf, p

(* A journal cut at a batch: the state it is back in, and what is left *)
LEMMA PastCut ==
    ASSUME NEW j, InOrder(j), Shape(j), Anchored(j), NEW c \in Nat, c <= LastBatch(j),
           NEW t, CutTo(j, c, t)
    PROVE  /\ StateOf(t) \in PastOf(j) /\ StateOf(t).batch = c
           /\ PastOf(t) = {p \in PastOf(j) : p.batch <= c}
           /\ \A p \in PastOf(j) : p.batch = c => Store!Before(p, StateOf(t))
           /\ Anchored(t)
<1> DEFINE n == Len(t)
<1>1. /\ IsSeq(j) /\ Len(j) \in Nat /\ IsSeq(t) /\ n \in Nat /\ n <= Len(j)
      /\ n \in 0..Len(j) /\ Alike(t, j, n) /\ t = UpTo(j, n)
  <2>1. IsSeq(j) /\ Len(j) \in Nat /\ IsSeq(t) /\ n \in 0..Len(j)
    BY DEF InOrder, Counted, IsSeq, CutTo
  <2> QED
    BY <2>1, CutAlike
<1>2. /\ InOrder(t) /\ LastBatch(t) = c /\ Shape(t) /\ Anchored(t)
      /\ \A i \in 1..n : t[i].t # "end" /\ t[i].batch <= c
  <2>1. InOrder(t) /\ LastBatch(t) = c
    BY CutInOrder
  <2>2. Shape(t) /\ Anchored(t)
    BY <1>1, ShapeUpTo, AnchoredUpTo
  <2>3. \A i \in 1..n : t[i].t # "end" /\ t[i].batch <= c
    BY DEF CutTo
  <2> QED
    BY <2>1, <2>2, <2>3
<1>3. \A m \in 0..n : UpTo(t, m) = UpTo(j, m) /\ m \in 0..Len(j)
  <2> TAKE m \in 0..n
  <2>1. m \in 0..Len(j)
    BY <1>1
  <2> HIDE DEF n
  <2> QED
    BY <1>1, <2>1, AlikeLess
<1>4. \A m \in 0..n : LastBatch(UpTo(t, m)) <= c
  <2> TAKE m \in 0..n
  <2> DEFINE p == UpTo(t, m)
  <2>1. IsSeq(p) /\ Len(p) = m /\ \A i \in 1..m : p[i] = t[i] /\ i \in 1..n
    BY <1>1, UpToIs
  <2> HIDE DEF p, n
  <2>2. \/ LastBatch(p) = 0
        \/ \E i \in 1..m : LastBatch(p) = p[i].batch
    BY <2>1, LastBatchIs
  <2> QED
    BY <1>2, <2>1, <2>2 DEF p
<1>5. \A m \in 0..Len(j) : LastBatch(UpTo(j, m)) <= c =>
          \E k \in 0..n : StateOf(UpTo(j, m)) = StateOf(UpTo(t, k))
  <2> SUFFICES ASSUME NEW m \in 0..Len(j), LastBatch(UpTo(j, m)) <= c
               PROVE  \E k \in 0..n : StateOf(UpTo(j, m)) = StateOf(UpTo(t, k))
    OBVIOUS
  <2>1. CASE m <= n
    <3>1. m \in 0..n
      BY <1>1, <2>1
    <3> QED
      BY <1>3, <3>1
  <2>2. CASE ~(m <= n)
    <3>1. m \in n..Len(j)
      BY <1>1, <2>2
    <3>2. StateOf(UpTo(j, m)) = StateOf(t)
      BY <3>1, LostNothing
    <3>3. UpTo(t, n) = t /\ n \in 0..n
      BY <1>1, AllUpTo
    <3> QED
      BY <3>2, <3>3
  <2> QED
    BY <2>1, <2>2
<1>6. StateOf(t) \in PastOf(j) /\ StateOf(t).batch = c
  BY <1>1, <1>2 DEF PastOf, StateOf
<1>7. PastOf(t) = {p \in PastOf(j) : p.batch <= c}
  <2>1. ASSUME NEW p \in PastOf(t)
        PROVE  p \in PastOf(j) /\ p.batch <= c
    <3>1. PICK m \in 0..n : p = StateOf(UpTo(t, m))
      BY <2>1 DEF PastOf
    <3>2. p = StateOf(UpTo(j, m)) /\ m \in 0..Len(j)
      BY <1>3, <3>1
    <3> QED
      BY <1>4, <3>1, <3>2 DEF PastOf, StateOf
  <2>2. ASSUME NEW p \in PastOf(j), p.batch <= c
        PROVE  p \in PastOf(t)
    <3>1. PICK m \in 0..Len(j) : p = StateOf(UpTo(j, m))
      BY <2>2 DEF PastOf
    <3>2. LastBatch(UpTo(j, m)) <= c
      BY <2>2, <3>1 DEF StateOf
    <3> QED
      BY <1>5, <3>1, <3>2 DEF PastOf
  <2> QED
    BY <2>1, <2>2
<1>8. ASSUME NEW p \in PastOf(j), p.batch = c
      PROVE  Store!Before(p, StateOf(t))
  <2>1. p \in PastOf(t)
    BY <1>7, <1>8
  <2>2. PICK m \in 0..n : p = StateOf(UpTo(t, m))
    BY <2>1 DEF PastOf
  <2>3. LastBatch(UpTo(t, m)) = LastBatch(t)
    BY <1>2, <1>8, <2>2 DEF StateOf
  <2> HIDE DEF n
  <2>4. \/ Level(UpTo(t, m)) < Level(t)
        \/ /\ Level(UpTo(t, m)) = Level(t)
           /\ IsPrefix(History(UpTo(t, m)), History(t))
    BY <1>2, <2>2, <2>3, PastOnTheWay DEF n
  <2> QED
    BY <2>2, <2>4 DEF Store!Before, StateOf, IsPrefix, Store!IsPrefix
<1> QED
  BY <1>2, <1>6, <1>7, <1>8

(* What a driver holds *)
Holding == [batch |-> Batch, level |-> drv.level, session |-> drv.hist]
HeldHolds ==
    Live => /\ Held = {Holding}
            /\ IF drv.pc = "commit" THEN Store!Ran(StateOf(journal), Holding)
                                    ELSE Holding = StateOf(journal)

LEMMA HeldIs == RunInv /\ SessionInv => HeldHolds
<1> SUFFICES ASSUME RunInv, SessionInv, Live PROVE HeldHolds
  BY DEF HeldHolds
<1>1. /\ AtJournal /\ SessionHolds /\ IsSeq(journal) /\ Held = {Holding}
  BY DEF RunInv, InOrder, Counted, SessionInv, Held, Holding
<1>2. CASE drv.pc # "commit"
  BY <1>1, <1>2 DEF HeldHolds, AtJournal, SessionHolds, Holding, StateOf
<1>3. CASE drv.pc = "commit"
  <2> DEFINE h == History(journal)
             r == Ran(drv.ranAt, drv.evid, drv.verdict)
  <2>1. /\ drv.hist = Append(h, r) /\ r.kind = "batch" /\ IsSeq(h)
        /\ drv.level = Level(journal) /\ Batch = LastBatch(journal) + 1
    BY <1>1, <1>3, HistoryIs DEF AtJournal, SessionHolds, Ran
  <2> HIDE DEF h, r
  <2>2. IsSeq(drv.hist) /\ Len(h) \in Nat /\ Len(drv.hist) = Len(h) + 1
        /\ drv.hist[Len(h) + 1] = r
    BY <2>1, Appended
  <2>3. drv.hist # <<>> /\ Last(drv.hist) = r
    BY <2>2, NoneYet DEF Last
  <2> QED
    BY <1>1, <1>3, <2>1, <2>3
       DEF HeldHolds, Holding, StateOf, Store!Ran, Store!Adds, Last, Store!Last, h
<1> QED
  BY <1>2, <1>3

(* Steps after which the run is in the state it was in *)
LEMMA StaysStore ==
    ASSUME HeldHolds, HeldHolds', drv.pc # "commit", drv'.pc # "commit",
           StateOf(journal)' = StateOf(journal), PastOf(journal)' = PastOf(journal),
           HasLevel(journal)' = HasLevel(journal), Live
    PROVE  [Store!Next]_(Store!vars)
<1>1. Held = {StateOf(journal)}
  BY DEF HeldHolds
<1>2. CASE Live'
  <2>1. Held' = {StateOf(journal)'}
    BY <1>2 DEF HeldHolds
  <2> QED
    BY <1>1, <2>1 DEF Store!vars
<1>3. CASE ~Live'
  <2>1. Held' = {}
    BY <1>3 DEF Held
  <2> QED
    BY <1>1, <2>1 DEF Store!Next, Store!Leave
<1> QED
  BY <1>2, <1>3

(* A driver that goes, or none, over the same journal or one with an end
   more *)
LEMMA GoneStore ==
    ASSUME IsSeq(journal), ~Live',
           \/ journal' = journal
           \/ \E e : journal' = Append(journal, e) /\ e.t = "end"
    PROVE  /\ [Store!Next]_(Store!vars)
           /\ Anchored(journal) => Anchored(journal)'
<1>1. /\ StateOf(journal)' = StateOf(journal) /\ PastOf(journal)' = PastOf(journal)
      /\ HasLevel(journal)' = HasLevel(journal)
      /\ Anchored(journal) => Anchored(journal)'
  <2>1. CASE journal' = journal
    BY <2>1
  <2>2. ASSUME NEW e, journal' = Append(journal, e), e.t = "end"
        PROVE  /\ StateOf(journal') = StateOf(journal) /\ PastOf(journal') = PastOf(journal)
               /\ HasLevel(journal') = HasLevel(journal)
               /\ Anchored(journal) => Anchored(journal')
    <3>1. HasLevel(journal') <=> HasLevel(journal)
      BY <2>2, ClosedAppended
    <3>2. HasLevel(journal') \in BOOLEAN /\ HasLevel(journal) \in BOOLEAN
      BY DEF HasLevel
    <3> QED
      BY <2>2, <3>1, <3>2, StateNoted, AnchoredAppended
  <2> QED
    BY <2>1, <2>2
<1>2. Held' = {}
  BY DEF Held
<1>3. CASE Held # {}
  BY <1>1, <1>2, <1>3 DEF Store!Next, Store!Leave
<1>4. CASE Held = {}
  BY <1>1, <1>2, <1>4 DEF Store!vars
<1> QED
  BY <1>1, <1>3, <1>4

(* A line the session does not depend on; level is the one that closes. *)
LEMMA JotsStore ==
    ASSUME RunInv, HeldHolds, HeldHolds', NEW e, Jots(e), Live',
           e.t = "level" => ~HasLevel(journal)
    PROVE  /\ [Store!Next]_(Store!vars)
           /\ Anchored(journal) => Anchored(journal)'
<1>1. /\ IsSeq(journal) /\ journal' = Append(journal, e) /\ Live
      /\ e.t \notin {"level_next", "steer", "batch"}
      /\ drv.pc # "commit" /\ drv'.pc # "commit"
  BY DEF RunInv, InOrder, Counted, Jots
<1>2. StateOf(journal') = StateOf(journal) /\ PastOf(journal') = PastOf(journal)
  BY <1>1, StateNoted
<1>3. Anchored(journal) => Anchored(journal')
  BY <1>1, AnchoredAppended
<1>4. HasLevel(journal') <=> HasLevel(journal) \/ e.t = "level"
  BY <1>1, ClosedAppended
<1>5. HasLevel(journal') \in BOOLEAN /\ HasLevel(journal) \in BOOLEAN
  BY DEF HasLevel
<1>6. CASE e.t # "level"
  BY <1>1, <1>2, <1>3, <1>4, <1>5, <1>6, StaysStore
<1>7. CASE e.t = "level"
  <2>1. Held = {StateOf(journal)} /\ Held' = {StateOf(journal)'}
    BY <1>1 DEF HeldHolds
  <2>2. Store!Close
    BY <1>2, <1>4, <1>5, <1>7, <2>1 DEF Store!Close
  <2> QED
    BY <1>3, <2>2 DEF Store!Next
<1> QED
  BY <1>6, <1>7

(* The state a line enters *)
LEMMA Enters ==
    ASSUME IsSeq(journal), NEW e, journal' = Append(journal, e), e.t # "level"
    PROVE  /\ Store!Enter(StateOf(journal)')
           /\ HasLevel(journal)' = HasLevel(journal)
<1>1. HasLevel(journal') <=> HasLevel(journal)
  BY ClosedAppended
<1>2. HasLevel(journal') \in BOOLEAN /\ HasLevel(journal) \in BOOLEAN
  BY DEF HasLevel
<1> QED
  BY <1>1, <1>2, PastAppended DEF Store!Enter

LEMMA StillOpen ==
    ASSUME RunInv, Live, ~drv.ended, drv.pc \notin Closing
    PROVE  ~HasLevel(journal)
BY DEF RunInv, AtJournal

LEMMA GrowStore ==
    ASSUME RunInv, SessionInv, HeldHolds, HeldHolds', Live => DOMAIN drv = Fields, NEW i,
           ApplyGrowCase(i), journal' # journal
    PROVE  /\ [Store!Next]_(Store!vars)
           /\ Anchored(journal) => Anchored(journal)'
<1> DEFINE c == requests[i].arg
           e == Event(drv.seq + 1, "steer", Batch, c)
           s == StateOf(journal)
           t == StateOf(journal')
<1>1. /\ Live /\ drv.pc = "control" /\ DOMAIN drv = Fields /\ IsSeq(journal) /\ ~drv.ended
      /\ c \notin Cases(drv.hist) /\ journal' = Append(journal, e)
      /\ drv' = [Reply(i, "applied") EXCEPT !.seq = @ + 1, !.hist = Append(@, Grew(c))]
  BY DEF ApplyGrowCase, Serving, Emit, Live, RunInv, InOrder, Counted
<1>2. e.t = "steer" /\ e.val = c /\ e.batch = Batch
  BY EventIs
<1> HIDE DEF e, c
<1>3. drv'.pc = "ack" /\ Live'
  BY <1>1 DEF Reply, Fields, Live
<1>4. /\ Batch = LastBatch(journal) /\ drv.hist = History(journal) /\ IsSeq(drv.hist)
      /\ Len(drv.hist) \in Nat
  <2>1. Batch = LastBatch(journal) /\ drv.hist = History(journal) /\ IsSeq(drv.hist)
    BY <1>1 DEF RunInv, AtJournal, SessionInv, SessionHolds
  <2> QED
    BY <2>1 DEF IsSeq
<1>5. Held = {s} /\ Held' = {t}
  BY <1>1, <1>3 DEF HeldHolds
<1>6. /\ t.batch = s.batch /\ t.level = s.level
      /\ s.session = drv.hist /\ t.session = Append(drv.hist, Grew(c))
  BY <1>1, <1>2, <1>4, LastBatchAppended, LevelAppended, HistoryAppended
     DEF StateOf, IsBatch
<1>7. /\ t.session # <<>> /\ Last(t.session) = Grew(c) /\ Grew(c).kind = "grow"
      /\ \A k \in 1..Len(s.session) : s.session[k] # Grew(c)
  <2>1. Len(t.session) = Len(drv.hist) + 1 /\ t.session[Len(drv.hist) + 1] = Grew(c)
    BY <1>4, <1>6, Appended
  <2>2. t.session # <<>> /\ Last(t.session) = Grew(c)
    BY <1>4, <2>1, NoneYet DEF Last
  <2>3. Grew(c).kind = "grow" /\ Grew(c).case = c
    BY DEF Grew
  <2>4. \A k \in 1..Len(drv.hist) : drv.hist[k] # Grew(c)
    BY <1>1, <2>3 DEF Cases
  <2> QED
    BY <1>6, <2>2, <2>3, <2>4
<1>8. Store!Enter(t) /\ HasLevel(journal)' = HasLevel(journal)
  BY <1>1, <1>2, Enters
<1>9. ~HasLevel(journal)
  BY <1>1, StillOpen DEF Closing
<1>10. Store!Grew(s, t)
  <2> HIDE DEF s, t
  <2> QED
    BY <1>6, <1>7 DEF Store!Grew, Store!Adds, Last, Store!Last
<1>11. Store!Grow
  <2> HIDE DEF t
  <2> QED
    BY <1>5, <1>8, <1>9, <1>10 DEF Store!Grow
<1>12. Anchored(journal) => Anchored(journal')
  <2>1. LastBatch(journal) \in Nat
    BY LastBatchTops DEF RunInv, InOrder
  <2> QED
    BY <1>1, <1>2, <1>4, <2>1, AnchoredAppended
<1> QED
  BY <1>11, <1>12 DEF Store!Next

LEMMA AdvanceStore ==
    ASSUME RunInv, HeldHolds, HeldHolds', Live => DOMAIN drv = Fields, NEW v, Advance(v)
    PROVE  /\ [Store!Next]_(Store!vars)
           /\ Anchored(journal) => Anchored(journal)'
<1> DEFINE e == Event(drv.seq + 1, "records", Batch + 1, 0)
<1>1. /\ Live /\ DOMAIN drv = Fields /\ drv.pc = "inbox" /\ IsSeq(journal)
      /\ drv'.pc = "commit" /\ Live'
  <2>1. Live /\ DOMAIN drv = Fields /\ drv.pc = "inbox" /\ IsSeq(journal)
    BY DEF Advance, Live, RunInv, InOrder, Counted
  <2>2. Advanced(v).pc = "commit" /\ DOMAIN Advanced(v) = Fields
    BY <2>1 DEF Advanced, Fields
  <2>3. drv'.pc = "commit"
    BY <2>2 DEF Advance, Fields
  <2> QED
    BY <2>1, <2>3 DEF Live
<1>2. journal' = journal \/ journal' = Append(journal, e)
  BY DEF Advance, Emit
<1>3. e.t = "records"
  BY EventIs
<1> HIDE DEF e
<1>4. /\ StateOf(journal') = StateOf(journal) /\ PastOf(journal') = PastOf(journal)
      /\ HasLevel(journal') = HasLevel(journal)
      /\ Anchored(journal) => Anchored(journal')
  <2>1. CASE journal' = Append(journal, e)
    <3>1. HasLevel(journal') <=> HasLevel(journal)
      BY <1>1, <1>3, <2>1, ClosedAppended
    <3>2. HasLevel(journal') \in BOOLEAN /\ HasLevel(journal) \in BOOLEAN
      BY DEF HasLevel
    <3> QED
      BY <1>1, <1>3, <2>1, <3>1, <3>2, StateNoted, AnchoredAppended
  <2> QED
    BY <1>2, <2>1
<1>5. Held = {StateOf(journal)} /\ Held' = {Holding'} /\ Store!Ran(StateOf(journal)', Holding')
  BY <1>1 DEF HeldHolds
<1>6. ~HasLevel(journal)
  <2>1. ~drv.ended
    BY <1>1 DEF RunInv, AtJournal, AfterEnd
  <2> QED
    BY <1>1, <2>1, StillOpen DEF Closing
<1>7. Store!RunBatch
  <2>1. Store!Ran(StateOf(journal), Holding')
    BY <1>4, <1>5
  <2> QED
    BY <1>4, <1>5, <1>6, <2>1 DEF Store!RunBatch
<1> QED
  BY <1>4, <1>7 DEF Store!Next

LEMMA CommitStore ==
    ASSUME RunInv, HeldHolds, HeldHolds', Live => DOMAIN drv = Fields, Commit
    PROVE  /\ [Store!Next]_(Store!vars)
           /\ Anchored(journal) => Anchored(journal)'
<1> DEFINE e == BatchEvent(drv.seq + 1, Batch, drv.ranAt, drv.verdict, drv.streak)
<1>1. /\ Live /\ DOMAIN drv = Fields /\ drv.pc = "commit" /\ IsSeq(journal)
      /\ journal' = Append(journal, e) /\ drv' = Wrote("keepBatch")
  BY DEF RunInv, InOrder, Counted, Commit, Live
<1>2. e.t = "batch"
  BY DEF BatchEvent, Event
<1> HIDE DEF e
<1>3. /\ drv'.pc = "keepBatch" /\ Live' /\ drv'.hist = drv.hist /\ drv'.base = drv.base
      /\ drv'.level = drv.level
  BY <1>1 DEF Wrote, Fields, Live
<1>4. Holding' = Holding
  BY <1>3 DEF Holding, Batch
<1>5. /\ Held = {Holding} /\ Held' = {Holding'} /\ Holding' = StateOf(journal)'
      /\ Store!Ran(StateOf(journal), Holding)
  BY <1>1, <1>3 DEF HeldHolds
<1>6. Store!Enter(StateOf(journal)') /\ HasLevel(journal)' = HasLevel(journal)
  BY <1>1, <1>2, Enters
<1>7. ~HasLevel(journal)
  <2>1. ~drv.ended
    BY <1>1 DEF RunInv, AtJournal, AfterEnd
  <2> QED
    BY <1>1, <2>1, StillOpen DEF Closing
<1>8. Store!Commit
  BY <1>4, <1>5, <1>6, <1>7 DEF Store!Commit
<1>9. Anchored(journal) => Anchored(journal')
  BY <1>1, <1>2, AnchoredAppended
<1> QED
  BY <1>8, <1>9 DEF Store!Next

LEMMA NextLevelStore ==
    ASSUME RunInv, HeldHolds, HeldHolds', Live => DOMAIN drv = Fields, NextLevel
    PROVE  /\ [Store!Next]_(Store!vars)
           /\ Anchored(journal) => Anchored(journal)'
<1> DEFINE e == Event(drv.seq + 1, "level_next", Batch, drv.level + 1)
           s == StateOf(journal)
           t == StateOf(journal')
<1>1. /\ Live /\ AtJournal /\ DOMAIN drv = Fields /\ drv.pc = "close" /\ IsSeq(journal)
      /\ journal' = Append(journal, e)
      /\ drv' = [Wrote("keepSeam") EXCEPT !.level = @ + 1, !.base = Batch, !.hist = <<>>,
                     !.wm = 0, !.streak = 0, !.close = FALSE]
  BY DEF RunInv, InOrder, Counted, NextLevel, Emit, Live
<1>2. e.t = "level_next" /\ e.batch = Batch /\ e.val = drv.level + 1
  BY EventIs
<1> HIDE DEF e
<1>3. drv'.pc = "keepSeam" /\ Live'
  BY <1>1 DEF Wrote, Fields, Live
<1>4. Held = {s} /\ Held' = {t}
  BY <1>1, <1>3 DEF HeldHolds
<1>5. drv.level = Level(journal) /\ Batch = LastBatch(journal)
  BY <1>1 DEF AtJournal
<1>6. t = Store!Seed(s.batch, s.level + 1)
  BY <1>1, <1>2, <1>5, LastBatchAppended, LevelAppended, HistoryAppended
     DEF StateOf, IsBatch, Store!Seed
<1>7. Store!Enter(t) /\ HasLevel(journal)' = HasLevel(journal)
  BY <1>1, <1>2, Enters
<1>8. ~HasLevel(journal)
  <2>1. ~drv.ended
    BY <1>1 DEF AtJournal, AfterEnd
  <2> QED
    BY <1>1, <2>1, StillOpen DEF Closing
<1>9. Store!NextLevel
  <2> HIDE DEF t
  <2> QED
    BY <1>4, <1>6, <1>7, <1>8 DEF Store!NextLevel
<1>10. Anchored(journal) => Anchored(journal')
  <2>1. LastBatch(journal) \in Nat
    BY LastBatchTops DEF RunInv, InOrder
  <2> QED
    BY <1>1, <1>2, <1>5, <2>1, AnchoredAppended
<1> QED
  BY <1>9, <1>10 DEF Store!Next

(* A fresh run starts in the state of an empty journal. *)
LEMMA OpenFreshStore ==
    ASSUME RunInv, HeldHolds', OpenFresh
    PROVE  /\ [Store!Next]_(Store!vars)
           /\ Anchored(journal) => Anchored(journal)'
<1> DEFINE e == Event(1, "start", 0, 0)
           s == StateOf(journal)
           o == Opened(journal', <<>>, MaxBatches + 1)
<1>1. /\ IsSeq(journal) /\ journal = <<>> /\ Len(journal) = 0 /\ ~Live
      /\ e.t = "start" /\ journal' = Append(journal, e)
  BY NoneYet, EventIs DEF RunInv, OpenFresh
<1> HIDE DEF e
<1>2. drv'.pc = "seed" /\ Live'
  <2>1. drv' = [o EXCEPT !.pc = "seed"]
    BY DEF OpenFresh
  <2>2. drv'.pc = "seed"
    BY <2>1 DEF Opened
  <2> QED
    BY <2>2 DEF Live
<1>3. StateOf(journal') = s /\ PastOf(journal') = PastOf(journal)
  BY <1>1, StateNoted
<1>4. ~HasLevel(journal) /\ ~HasLevel(journal')
  <2>1. ~HasLevel(journal)
    BY <1>1 DEF HasLevel
  <2> QED
    BY <1>1, <2>1, ClosedAppended
<1>5. PastOf(journal) = {s}
  <2>1. 0..Len(journal) = {0} /\ UpTo(journal, 0) = journal
    BY <1>1, AllUpTo
  <2> QED
    BY <2>1 DEF PastOf
<1>6. s.batch \in Nat
  BY LastBatchTops DEF RunInv, InOrder, StateOf
<1>7. Store!Before(s, s)
  <2>1. IsSeq(History(journal))
    BY <1>1, HistoryIs
  <2> DEFINE h == History(journal)
             S == {h[i] : i \in 1..Len(h)}
  <2>2. h \in Seq(S)
    BY <2>1 DEF IsSeq
  <2> HIDE DEF h, S
  <2>3. Len(h) <= Len(h) /\ SubSeq(h, 1, Len(h)) = SubSeq(h, 1, Len(h))
    BY <2>2
  <2> QED
    BY <2>3 DEF Store!Before, Store!IsPrefix, StateOf, h
<1>8. Held = {} /\ Held' = {s}
  BY <1>1, <1>2, <1>3 DEF Held, HeldHolds
<1>9. Store!Restart
  <2> HIDE DEF s
  <2>1. Store!BackTo(s)
    BY <1>3, <1>5, <1>6, <1>7 DEF Store!BackTo
  <2>2. s.batch <= s.batch + CheckpointEvery
    BY <1>6, ConfigAssumption
  <2>3. HasLevel(journal)' = HasLevel(journal)
    <3>1. HasLevel(journal') \in BOOLEAN /\ HasLevel(journal) \in BOOLEAN
      BY DEF HasLevel
    <3> QED
      BY <1>4, <3>1
  <2> QED
    BY <1>3, <1>4, <1>5, <1>8, <2>1, <2>2, <2>3 DEF Store!Restart, s
<1>10. Anchored(journal) => Anchored(journal')
  BY <1>1, AnchoredAppended
<1> QED
  BY <1>9, <1>10 DEF Store!Next

(* A journal cut at the batch of a state it was in goes back to it. *)
LEMMA CutStore ==
    ASSUME RunInv, SessionInv, Anchored(journal),
           NEW c \in Nat, c <= LastBatch(journal), CutTo(journal, c, journal')
    PROVE  /\ StateOf(journal)' \in PastOf(journal) /\ StateOf(journal)'.batch = c
           /\ Store!BackTo(StateOf(journal)')
           /\ Anchored(journal)'
<1>1. /\ StateOf(journal') \in PastOf(journal) /\ StateOf(journal').batch = c
      /\ PastOf(journal') = {p \in PastOf(journal) : p.batch <= c}
      /\ \A p \in PastOf(journal) : p.batch = c => Store!Before(p, StateOf(journal'))
      /\ Anchored(journal')
  BY PastCut DEF RunInv, SessionInv
<1> QED
  BY <1>1 DEF Store!BackTo

LEMMA OpenResumeStore ==
    ASSUME RunInv, SessionInv, BoundedLoss, HeldHolds', Anchored(journal), OpenResume
    PROVE  [Store!Next]_(Store!vars) /\ Anchored(journal)'
<1> DEFINE c == RestartAt
           kept == KeptAt(journal, c)
           o == Opened(kept, RestoredHistory(c, kept), LastCheckpoint(c))
<1>1. /\ c \in Nat /\ c <= LastBatch(journal) /\ LastBatch(journal) \in Nat
      /\ Counted(journal) /\ journal' = kept /\ ~Live /\ ~HasLevel(journal)
      /\ drv' = [o EXCEPT !.deferred = Deferred(journal, c)]
  BY RestartIs, LastBatchTops DEF RunInv, InOrder, OpenResume, Resumable
<1>2. CutTo(journal, c, journal')
  BY <1>1, KeptIsCut
<1>3. drv'.pc = "poll" /\ Live'
  <2>1. drv'.pc = "poll"
    BY <1>1 DEF Opened
  <2> QED
    BY <2>1 DEF Live
<1>4. ~HasLevel(journal')
  BY <1>1, <1>2 DEF CutTo, HasLevel
<1> HIDE DEF c, kept, o
<1> DEFINE s == StateOf(journal)'
<1>5. /\ s \in PastOf(journal) /\ s.batch = c /\ Store!BackTo(s) /\ Anchored(journal)'
  BY <1>1, <1>2, CutStore
<1>6. Held = {} /\ Held' = {s}
  BY <1>1, <1>3 DEF Held, HeldHolds
<1>7. StateOf(journal).batch <= c + CheckpointEvery
  <2>1. CheckpointEvery \in Nat
    BY ConfigAssumption
  <2> QED
    BY <1>1, <2>1 DEF BoundedLoss, StateOf, c
<1>8. Store!Restart
  <2>1. HasLevel(journal)' = HasLevel(journal)
    <3>1. HasLevel(journal') \in BOOLEAN /\ HasLevel(journal) \in BOOLEAN
      BY DEF HasLevel
    <3> QED
      BY <1>1, <1>4, <3>1
  <2> HIDE DEF s
  <2> QED
    BY <1>1, <1>5, <1>6, <1>7, <2>1 DEF Store!Restart
<1> QED
  BY <1>5, <1>8 DEF Store!Next

LEMMA ForkStore ==
    ASSUME RunInv, SessionInv, Anchored(journal), NEW k \in ckpts, Fork(k)
    PROVE  [Store!Next]_(Store!vars) /\ Anchored(journal)'
<1>1. /\ k.batch \in Nat /\ k.batch <= LastBatch(journal) /\ Counted(journal)
      /\ journal' = KeptAt(journal, k.batch) /\ drv' = Off
  BY DEF RunInv, InOrder, Saved, Fork
<1>2. CutTo(journal, k.batch, journal')
  BY <1>1, KeptIsCut
<1>3. Held' = {}
  BY <1>1 DEF Held, Live, Off
<1>4. /\ StateOf(journal)' \in PastOf(journal) /\ Store!BackTo(StateOf(journal)')
      /\ Anchored(journal)'
  BY <1>1, <1>2, CutStore
<1>5. /\ HasLevel(journal)' \in BOOLEAN
      /\ HasLevel(journal)' => HasLevel(journal)
  <2>1. HasLevel(journal') => HasLevel(journal)
    <3>1. \A i \in 1..Len(journal') : i \in 1..Len(journal) /\ journal'[i] = journal[i]
      <4>1. Len(journal) \in Nat /\ Len(journal') \in 0..Len(journal)
        BY <1>1, <1>2 DEF Counted, IsSeq, CutTo
      <4> QED
        BY <1>2, <4>1 DEF CutTo
    <3> QED
      BY <3>1 DEF HasLevel
  <2> QED
    BY <2>1 DEF HasLevel
<1>6. Store!Fork
  BY <1>3, <1>4, <1>5 DEF Store!Fork
<1> QED
  BY <1>4, <1>6 DEF Store!Next

LEMMA StepStore ==
    ASSUME RunInv, ControlInv, SessionInv, BoundedLoss, Anchored(journal),
           HeldHolds, HeldHolds', 5 \notin Verdicts, [Next]_vars
    PROVE  [Store!Next]_(Store!vars) /\ Anchored(journal)'
<1>0. /\ Live => DOMAIN drv = Fields
      /\ IsSeq(journal)
  BY DEF ControlInv, RunInv, InOrder, Counted
<1>1. ASSUME Still
      PROVE  [Store!Next]_(Store!vars) /\ Anchored(journal)'
  BY <1>1, StaysStore DEF Still, Quiet
<1>2. CASE Open
  <2>1. CASE OpenRefused
    BY <1>0, <2>1, RecordedFault, GoneStore DEF OpenRefused, Live
  <2>2. CASE OpenFault
    BY <1>0, <2>2, RecordedFault, GoneStore DEF OpenFault, Live
  <2> QED
    BY <1>2, <2>1, <2>2, OpenFreshStore, OpenResumeStore DEF Open
<1>3. CASE Control
  <2>1. ASSUME NEW i \in 1..Len(requests),
               \/ ApplyAfterEnd(i) \/ ApplyPause(i) \/ ApplyResume(i) \/ ApplyCheckpoint(i)
               \/ ApplyStep(i) \/ ApplyStop(i)
        PROVE  Still
    BY <1>0, <2>1, StillControl
  <2>2. ASSUME NEW i \in 1..Len(requests), ApplyGrowCase(i)
        PROVE  [Store!Next]_(Store!vars) /\ Anchored(journal)'
    <3>1. CASE journal' = journal
      <4>1. Still
        BY <1>0, <2>2, <3>1, StillControl
      <4> QED
        BY <1>1, <4>1
    <3> QED
      BY <1>0, <2>2, <3>1, GrowStore
  <2>3. CASE Poll \/ Ack \/ (ControlDone /\ drv' # Off)
    <3>1. Still
      BY <1>0, <2>3, StillControl
    <3> QED
      BY <1>1, <3>1
  <2>4. CASE ControlDone /\ drv' = Off
    <3>1. ~Live' /\ journal' = journal
      BY <2>4 DEF ControlDone, disk, Live, Off
    <3> QED
      BY <1>0, <3>1, GoneStore
  <2> QED
    BY <1>1, <1>3, <2>1, <2>2, <2>3, <2>4 DEF Control
<1>4. CASE TakeFile \/ KeepNew \/ Raise \/ EmitSeed \/ LevelRejected \/ EmitEnd \/ Finish
  <2>1. PICK e : Jots(e)
    BY <1>0, <1>4, JottingSteps
  <2>2. Live'
    <3>1. Live /\ DOMAIN drv = Fields
      BY <1>0, <2>1 DEF Jots
    <3>2. CASE TakeFile \/ KeepNew \/ Raise \/ EmitSeed
      BY <3>1, <3>2 DEF TakeFile, KeepNew, Raise, EmitSeed, Wrote, Live, Fields
    <3>3. CASE LevelRejected \/ EmitEnd \/ Finish
      BY <3>1, <3>3 DEF LevelRejected, EmitEnd, Finish, Wrote, Caller, Live, Fields
    <3> QED
      BY <1>4, <3>2, <3>3
  <2>3. e.t = "level" => ~HasLevel(journal)
    <3>1. CASE Finish
      <4>1. drv.pc \in {"close", "finish"}
        BY <3>1 DEF Finish
      <4>2. ~drv.ended
        BY <2>1, <4>1 DEF RunInv, AtJournal, AfterEnd, Jots
      <4> QED
        BY <2>1, <4>1, <4>2, StillOpen DEF Closing, Jots
    <3>2. CASE ~Finish
      <4>1. e = journal'[Len(journal) + 1]
        BY <1>0, <2>1, Appended DEF Jots
      <4>2. CASE TakeFile
        <5> DEFINE f == Min(drv.queue)
                   x == IF f \notin BadFiles THEN "evidence" ELSE "evidence_rejected"
        <5>1. journal' = Append(journal, Event(drv.seq + 1, x, Batch, f))
          BY <4>2 DEF TakeFile, Emit
        <5> QED
          BY <1>0, <4>1, <5>1, Appended, EventIs
      <4>3. CASE KeepNew
        BY <1>0, <4>1, <4>3, Appended, EventIs DEF KeepNew, Emit
      <4>4. CASE Raise
        BY <1>0, <4>1, <4>4, Appended, EventIs DEF Raise, Emit
      <4>5. CASE EmitSeed
        BY <1>0, <4>1, <4>5, Appended, EventIs DEF EmitSeed, Emit
      <4>6. CASE LevelRejected
        BY <1>0, <4>1, <4>6, Appended, EventIs DEF LevelRejected, Emit
      <4>7. CASE EmitEnd
        <5>1. EndEvent(drv.seq + 1, Batch, drv.outcome).t = "end"
          BY DEF EndEvent, Event
        <5> QED
          BY <1>0, <4>1, <4>7, <5>1, Appended DEF EmitEnd
      <4> QED
        BY <1>4, <3>2, <4>2, <4>3, <4>4, <4>5, <4>6, <4>7
    <3> QED
      BY <3>1, <3>2
  <2> QED
    BY <2>1, <2>2, <2>3, JotsStore
<1>5. CASE RunBatch
  <2>1. ~AdvanceUnknown
    BY DEF AdvanceUnknown
  <2>2. CASE BatchStart \/ KeepDone \/ RaisePastCeiling \/ PeriodicCheckpoint
    <3>1. Still
      BY <1>0, <2>2, StillBatch
    <3> QED
      BY <1>1, <3>1
  <2> QED
    BY <1>0, <1>4, <1>5, <2>1, <2>2, AdvanceStore, CommitStore DEF RunBatch
<1>6. CASE Close
  BY <1>0, <1>4, <1>6, NextLevelStore DEF Close
<1>7. CASE Fault
  <2>1. Still
    BY <1>0, <1>7, StillBatch
  <2> QED
    BY <1>1, <2>1
<1>8. CASE End
  <2>1. CASE EndCheckpoint
    <3>1. Still
      BY <1>0, <2>1, StillBatch
    <3> QED
      BY <1>1, <3>1
  <2>2. CASE EscapedFault
    BY <1>0, <2>2, RecordedFault, GoneStore DEF EscapedFault, Live, Off
  <2> QED
    BY <1>4, <1>8, <2>1, <2>2 DEF End
<1>9. ASSUME UNCHANGED <<journal, drv>>
      PROVE  [Store!Next]_(Store!vars) /\ Anchored(journal)'
  BY <1>9 DEF Store!vars, Held, Live, Batch
<1>10. CASE Environment
  <2>1. CASE Crash
    BY <1>0, <2>1, GoneStore DEF Crash, disk, Live, Off
  <2>2. ASSUME NEW f \in Files, DropFile(f)
        PROVE  UNCHANGED <<journal, drv>>
    BY <2>2 DEF DropFile, Viewer
  <2>3. ASSUME NEW a, NEW c, SendRequest(a, c)
        PROVE  UNCHANGED <<journal, drv>>
    BY <2>3 DEF SendRequest, Viewer
  <2> QED
    BY <1>9, <1>10, <2>1, <2>2, <2>3, ForkStore DEF Environment
<1>11. CASE UNCHANGED vars
  BY <1>9, <1>11 DEF vars
<1> QED
  BY <1>2, <1>3, <1>4, <1>5, <1>6, <1>7, <1>8, <1>10, <1>11 DEF Next, DriverStep

LEMMA InitStore == ASSUME Init PROVE Store!Init /\ Anchored(journal)
<1>1. IsSeq(journal) /\ Len(journal) = 0 /\ journal = <<>> /\ ~Live
  BY NoneYet DEF Init, Live, Off
<1>2. LastBatch(journal) = 0 /\ Level(journal) = 1
  BY <1>1, LastBatchIs, LevelIs
<1>3. History(journal) = <<>>
  <2>1. Applied(journal) = {}
    BY <1>1 DEF Applied
  <2> QED
    BY <2>1, AtNone DEF History
<1>4. PastOf(journal) = {StateOf(journal)}
  <2>1. 0..Len(journal) = {0} /\ UpTo(journal, 0) = journal
    BY <1>1, AllUpTo
  <2> QED
    BY <2>1 DEF PastOf
<1>5. HasLevel(journal) = FALSE /\ Held = {} /\ Anchored(journal)
  BY <1>1 DEF HasLevel, Held, Anchored
<1> QED
  BY <1>2, <1>3, <1>4, <1>5 DEF Store!Init, Store!Seed, StateOf

(* The run directory implements RunStore: through kills, restarts, forks,
   control requests and faults in any order, every step of the driver is
   one of the store or leaves it alone.  In particular a driver that starts
   holds exactly a state the journal had described, the last of its batch
   and at most checkpoint_every batches back, and none drives a closed run
   on. *)
THEOREM DriverImplementsStore == ASSUME 5 \notin Verdicts PROVE Spec => ImplementsStore
<1>1. Init => Store!Init /\ Anchored(journal)
  BY InitStore
<1>2. RunInv /\ SessionInv => HeldHolds
  BY HeldIs
<1>3. /\ RunInv /\ ControlInv /\ SessionInv /\ BoundedLoss /\ Anchored(journal)
      /\ HeldHolds /\ HeldHolds' /\ [Next]_vars
      => [Store!Next]_(Store!vars) /\ Anchored(journal)'
  BY StepStore
<1>4. Spec => []RunInv /\ []ControlInv /\ []SessionInv /\ []BoundedLoss
  BY RunInvariant, ControlInvariant, SessionInvariant, LossIsBounded, PTL
<1> QED
  BY <1>1, <1>2, <1>3, <1>4, PTL DEF Spec, ImplementsStore, Store!Spec

=============================================================================
