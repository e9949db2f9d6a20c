-------------------------- MODULE DreamJournalProofs --------------------------
(***************************************************************************)
(* What the laws of DreamJournal make of a journal that is in order:       *)
(* kept_at cuts it to a prefix, at the batch asked for, and the folds over *)
(* what is left are those of the whole journal up to there.  An append in  *)
(* order keeps it in order.                                                *)
(*                                                                         *)
(* The session a journal describes is a filter of it, so it grows with an  *)
(* append (HistoryAppended) and is that of the prefix after a cut          *)
(* (CutAlike, HistoryIs).  A checkpoint Describes a prefix of the journal; *)
(* running again what its journal has past it gives the whole (Regrown).   *)
(* Both need the Shape of a journal: a case is steered once in a level, a  *)
(* batch or a level follows only steering of an earlier batch, and levels  *)
(* count.                                                                  *)
(***************************************************************************)
EXTENDS DreamJournal, PositionProofs

(* What is known of a file: it is a sequence (of its own elements). *)
IsSeq(s) == s \in Seq({s[i] : i \in 1..Len(s)})

(* Appending to a sequence of anything. *)
LEMMA Appended ==
    ASSUME NEW s, NEW x, IsSeq(s)
    PROVE  /\ IsSeq(Append(s, x))
           /\ Len(s) \in Nat /\ Len(Append(s, x)) = Len(s) + 1
           /\ Append(s, x)[Len(s) + 1] = x
           /\ \A i \in 1..Len(s) : Append(s, x)[i] = s[i]
<1> DEFINE S == {s[i] : i \in 1..Len(s)} \cup {x}
           t == Append(s, x)
<1>1. s \in Seq(S)
  <2>1. s \in Seq({s[i] : i \in 1..Len(s)})
    BY DEF IsSeq
  <2> QED
    BY <2>1
<1>2. /\ t \in Seq(S) /\ Len(s) \in Nat /\ Len(t) = Len(s) + 1
      /\ t[Len(s) + 1] = x /\ \A i \in 1..Len(s) : t[i] = s[i]
  BY <1>1
<1>3. t \in Seq({t[i] : i \in 1..Len(t)})
  BY <1>2
<1> QED
  BY <1>2, <1>3 DEF IsSeq

LEMMA NoneYet == ASSUME NEW s, s = <<>> PROVE IsSeq(s) /\ Len(s) = 0
<1>1. \A S : s \in Seq(S)
  OBVIOUS
<1>2. IsSeq(s)
  BY <1>1, Zenon DEF IsSeq
<1>3. Len(s) = 0
  OBVIOUS
<1> QED
  BY <1>2, <1>3

(* What Min and Max return of a set that has them *)
LEMMA MinIs == ASSUME NEW T \in SUBSET Nat, T # {}
               PROVE  Min(T) \in T /\ \A y \in T : Min(T) <= y
BY Least DEF Min

LEMMA MaxIs == ASSUME NEW n \in Nat, NEW T \in SUBSET (0..n), T # {}
               PROVE  Max(T) \in T /\ \A y \in T : y <= Max(T)
BY Greatest DEF Max

(* The last of the positions where something holds, as SelectLastInSeq
   computes it, for the two uses the laws make of it. *)
LEMMA LastBatchIs ==
    ASSUME NEW j, IsSeq(j)
    PROVE  \/ (\A i \in 1..Len(j) : ~IsBatch(j[i])) /\ LastBatch(j) = 0
           \/ \E i \in 1..Len(j) :
                 /\ IsBatch(j[i]) /\ LastBatch(j) = j[i].batch
                 /\ \A k \in 1..Len(j) : IsBatch(j[k]) => k <= i
<1> DEFINE I == {i \in 1..Len(j) : IsBatch(j[i])}
<1>1. Len(j) \in Nat /\ I \in SUBSET (0..Len(j))
  BY DEF IsSeq
<1>2. SelectLastInSeq(j, IsBatch) = IF I # {} THEN Max(I) ELSE 0
  BY DEF SelectLastInSeq
<1>3. CASE I = {}
  BY <1>2, <1>3 DEF LastBatch
<1>4. CASE I # {}
  <2> HIDE DEF I
  <2>1. Max(I) \in I /\ \A y \in I : y <= Max(I)
    BY <1>1, <1>4, MaxIs
  <2>2. Max(I) \in 1..Len(j) /\ IsBatch(j[Max(I)])
    BY <2>1 DEF I
  <2>3. LastBatch(j) = j[Max(I)].batch
    BY <1>2, <1>4, <2>2 DEF LastBatch
  <2>4. \A k \in 1..Len(j) : IsBatch(j[k]) => k <= Max(I)
    BY <2>1 DEF I
  <2> QED
    BY <2>2, <2>3, <2>4
<1> QED
  BY <1>3, <1>4

LEMMA LevelIs ==
    ASSUME NEW j, IsSeq(j)
    PROVE  \/ /\ \A i \in 1..Len(j) : j[i].t # "level_next"
              /\ LevelIndex(j) = 0 /\ Level(j) = 1 /\ Base(j) = 0
           \/ /\ LevelIndex(j) \in 1..Len(j) /\ j[LevelIndex(j)].t = "level_next"
              /\ Level(j) = j[LevelIndex(j)].val /\ Base(j) = j[LevelIndex(j)].batch
              /\ \A k \in 1..Len(j) : j[k].t = "level_next" => k <= LevelIndex(j)
<1> DEFINE I == {i \in 1..Len(j) : j[i].t = "level_next"}
<1>1. Len(j) \in Nat /\ I \in SUBSET (0..Len(j))
  BY DEF IsSeq
<1>2. LevelIndex(j) = IF I # {} THEN Max(I) ELSE 0
  BY DEF LevelIndex, SelectLastInSeq
<1>3. CASE I = {}
  BY <1>2, <1>3 DEF Level, Base
<1>4. CASE I # {}
  <2> HIDE DEF I
  <2>1. Max(I) \in I /\ \A y \in I : y <= Max(I)
    BY <1>1, <1>4, MaxIs
  <2>2. LevelIndex(j) \in 1..Len(j) /\ j[LevelIndex(j)].t = "level_next"
    BY <1>2, <1>4, <2>1 DEF I
  <2>3. LevelIndex(j) # 0
    BY <1>1, <2>2
  <2>4. Level(j) = j[LevelIndex(j)].val /\ Base(j) = j[LevelIndex(j)].batch
    BY <2>3 DEF Level, Base
  <2>5. \A k \in 1..Len(j) : j[k].t = "level_next" => k <= LevelIndex(j)
    BY <1>2, <1>4, <2>1 DEF I
  <2> QED
    BY <2>2, <2>4, <2>5
<1> QED
  BY <1>3, <1>4

(* A journal in order: seq counts, end comes last, batches never go back,
   and the batch lines are 1, 2, 3, ... once each; a level after the first
   has a number of its own, and a file is taken once. *)
Counted(j) ==
    /\ IsSeq(j)
    /\ \A i \in 1..Len(j) :
           /\ j[i].seq = i /\ j[i].batch \in Nat
           /\ j[i].t = "end" => i = Len(j)
           /\ j[i].t = "level_next" => j[i].val \in Nat /\ j[i].val >= 2
    /\ \A i, k \in 1..Len(j) :
           i <= k => j[i].batch <= j[k].batch \/ j[k].t = "end"
BatchLines(j) ==
    /\ \A i \in 1..Len(j) : IsBatch(j[i]) => j[i].batch >= 1
    /\ \A i, k \in 1..Len(j) :
           IsBatch(j[i]) /\ IsBatch(j[k]) /\ j[i].batch = j[k].batch => i = k
    /\ \A n \in 1..LastBatch(j) : \E i \in 1..Len(j) : IsBatch(j[i]) /\ j[i].batch = n
FilesOnce(j) ==
    \A i, k \in 1..Len(j) :
        TakesFile(j[i]) /\ TakesFile(j[k]) /\ j[i].val = j[k].val => i = k
InOrder(j) == Counted(j) /\ BatchLines(j) /\ FilesOnce(j)

(* A line counts for the last batch only if it is a batch line. *)
LEMMA LastBatchAppended ==
    ASSUME NEW j, NEW e, IsSeq(j)
    PROVE  LastBatch(Append(j, e)) = IF IsBatch(e) THEN e.batch ELSE LastBatch(j)
<1> DEFINE t == Append(j, e)
           n == Len(j) + 1
<1>1. /\ IsSeq(t) /\ Len(j) \in Nat /\ Len(t) = n /\ t[n] = e
      /\ \A i \in 1..Len(j) : t[i] = j[i]
  BY Appended
<1> HIDE DEF t
<1>2. /\ n \in 1..Len(t) /\ \A i \in 1..Len(j) : i \in 1..Len(t) /\ i < n
      /\ \A i \in 1..Len(t) : i = n \/ i \in 1..Len(j)
  BY <1>1
<1>3. CASE IsBatch(e)
  <2>1. PICK i \in 1..Len(t) : /\ IsBatch(t[i]) /\ LastBatch(t) = t[i].batch
                               /\ \A k \in 1..Len(t) : IsBatch(t[k]) => k <= i
    BY <1>1, <1>2, <1>3, LastBatchIs
  <2>2. i = n
    BY <1>1, <1>2, <1>3, <2>1
  <2> QED
    BY <1>1, <1>3, <2>1, <2>2 DEF t
<1>4. CASE ~IsBatch(e) /\ \A i \in 1..Len(j) : ~IsBatch(j[i])
  <2>1. \A i \in 1..Len(t) : ~IsBatch(t[i])
    BY <1>1, <1>2, <1>4
  <2>2. LastBatch(t) = 0 /\ LastBatch(j) = 0
    BY <1>1, <1>4, <2>1, LastBatchIs
  <2> QED
    BY <1>4, <2>2 DEF t
<1>5. CASE ~IsBatch(e) /\ \E i \in 1..Len(j) : IsBatch(j[i])
  <2>1. PICK m \in 1..Len(j) : /\ IsBatch(j[m]) /\ LastBatch(j) = j[m].batch
                               /\ \A k \in 1..Len(j) : IsBatch(j[k]) => k <= m
    BY <1>5, LastBatchIs
  <2>2. PICK i \in 1..Len(t) : /\ IsBatch(t[i]) /\ LastBatch(t) = t[i].batch
                               /\ \A k \in 1..Len(t) : IsBatch(t[k]) => k <= i
    BY <1>1, <1>2, <2>1, LastBatchIs
  <2>3. i \in 1..Len(j) /\ IsBatch(j[i]) /\ m \in 1..Len(t) /\ IsBatch(t[m])
    BY <1>1, <1>2, <1>5, <2>1, <2>2
  <2>4. i = m
    BY <1>1, <2>1, <2>2, <2>3
  <2> QED
    BY <1>1, <1>5, <2>1, <2>2, <2>4 DEF t
<1> QED
  BY <1>3, <1>4, <1>5

(* No batch line has a number above the last one's. *)
LEMMA LastBatchTops ==
    ASSUME NEW j, Counted(j)
    PROVE  /\ LastBatch(j) \in Nat
           /\ \A i \in 1..Len(j) : IsBatch(j[i]) => j[i].batch <= LastBatch(j)
<1>1. IsSeq(j) /\ Len(j) \in Nat
  BY DEF Counted, IsSeq
<1>2. CASE (\A i \in 1..Len(j) : ~IsBatch(j[i])) /\ LastBatch(j) = 0
  BY <1>2
<1>3. CASE \E i \in 1..Len(j) :
                 /\ IsBatch(j[i]) /\ LastBatch(j) = j[i].batch
                 /\ \A k \in 1..Len(j) : IsBatch(j[k]) => k <= i
  <2>1. PICK i \in 1..Len(j) :
                 /\ IsBatch(j[i]) /\ LastBatch(j) = j[i].batch
                 /\ \A k \in 1..Len(j) : IsBatch(j[k]) => k <= i
    BY <1>3
  <2>2. ASSUME NEW k \in 1..Len(j), IsBatch(j[k])
        PROVE  j[k].batch <= LastBatch(j)
    <3>1. j[k].batch <= j[i].batch \/ j[i].t = "end"
      BY <2>1, <2>2 DEF Counted
    <3> QED
      BY <2>1, <3>1 DEF IsBatch
  <2>3. j[i].batch \in Nat
    BY DEF Counted
  <2> QED
    BY <2>1, <2>2, <2>3
<1> QED
  BY <1>1, <1>2, <1>3, LastBatchIs

(* The batch line that counts n, when no other counts more, is the last. *)
LEMMA LastBatchFound ==
    ASSUME NEW j, Counted(j), NEW i \in 1..Len(j), IsBatch(j[i]),
           \A k \in 1..Len(j) : IsBatch(j[k]) => j[k].batch <= j[i].batch
    PROVE  LastBatch(j) = j[i].batch
<1>1. LastBatch(j) \in Nat /\ j[i].batch <= LastBatch(j) /\ j[i].batch \in Nat
  BY LastBatchTops DEF Counted
<1>2. \E k \in 1..Len(j) : IsBatch(j[k]) /\ LastBatch(j) = j[k].batch
  BY LastBatchIs DEF Counted
<1> QED
  BY <1>1, <1>2

(* What may be appended. *)
Fits(j, e) ==
    /\ \A i \in 1..Len(j) : j[i].t # "end"
    /\ e.seq = Len(j) + 1 /\ e.batch \in Nat
    /\ \A i \in 1..Len(j) : j[i].batch <= e.batch \/ e.t = "end"
    /\ IsBatch(e) => e.batch = LastBatch(j) + 1
    /\ e.t = "level_next" => e.val \in Nat /\ e.val >= 2
    /\ TakesFile(e) => e.val \notin Taken(j)

LEMMA AppendInOrder ==
    ASSUME NEW j, NEW e, InOrder(j), Fits(j, e)
    PROVE  /\ InOrder(Append(j, e))
           /\ LastBatch(Append(j, e)) = IF IsBatch(e) THEN e.batch ELSE LastBatch(j)
<1> DEFINE t == Append(j, e)
           n == Len(j) + 1
<1>1. /\ IsSeq(t) /\ Len(j) \in Nat /\ Len(t) = n /\ t[n] = e
      /\ \A i \in 1..Len(j) : t[i] = j[i]
  BY Appended DEF InOrder, Counted
<1> HIDE DEF t
<1>2. \A i \in 1..Len(t) : i = n \/ i \in 1..Len(j)
  BY <1>1
<1>3. Counted(t)
  <2>1. \A i \in 1..Len(t) :
           /\ t[i].seq = i /\ t[i].batch \in Nat
           /\ t[i].t = "end" => i = Len(t)
           /\ t[i].t = "level_next" => t[i].val \in Nat /\ t[i].val >= 2
    BY <1>1, <1>2 DEF InOrder, Counted, Fits
  <2>2. ASSUME NEW i \in 1..Len(t), NEW k \in 1..Len(t), i <= k
        PROVE  t[i].batch <= t[k].batch \/ t[k].t = "end"
    <3>1. CASE k = n
      <4>1. CASE i = n
        BY <1>1, <3>1, <4>1 DEF Fits
      <4>2. CASE i \in 1..Len(j)
        BY <1>1, <3>1, <4>2 DEF Fits
      <4> QED
        BY <1>2, <4>1, <4>2
    <3>2. CASE k \in 1..Len(j)
      <4>1. i \in 1..Len(j)
        BY <1>1, <2>2, <3>2
      <4> QED
        BY <1>1, <2>2, <3>2, <4>1 DEF InOrder, Counted
    <3> QED
      BY <1>2, <3>1, <3>2
  <2>3. \A i, k \in 1..Len(t) : i <= k => t[i].batch <= t[k].batch \/ t[k].t = "end"
    BY <2>2
  <2>4. IsSeq(t)
    BY <1>1
  <2> QED
    BY <2>1, <2>3, <2>4 DEF Counted
<1>4. LastBatch(t) = IF IsBatch(e) THEN e.batch ELSE LastBatch(j)
  <2>0. Counted(j) /\ LastBatch(j) \in Nat
    BY LastBatchTops DEF InOrder
  <2>1. CASE IsBatch(e)
    <3>1. ASSUME NEW k \in 1..Len(t), IsBatch(t[k])
          PROVE  t[k].batch <= t[n].batch
      <4>1. t[n].batch = LastBatch(j) + 1 /\ t[n].batch \in Nat
        BY <1>1, <2>1 DEF Fits
      <4>2. CASE k \in 1..Len(j)
        <5>1. j[k].batch <= LastBatch(j) /\ j[k].batch \in Nat /\ t[k] = j[k]
          BY <1>1, <2>0, <3>1, <4>2, LastBatchTops DEF Counted
        <5> QED
          BY <2>0, <4>1, <5>1
      <4> QED
        BY <1>2, <4>1, <4>2
    <3>2. n \in 1..Len(t) /\ IsBatch(t[n])
      BY <1>1, <2>1
    <3> QED
      BY <1>1, <1>3, <2>1, <3>1, <3>2, LastBatchFound
  <2>2. CASE ~IsBatch(e)
    <3>1. CASE \A i \in 1..Len(j) : ~IsBatch(j[i])
      <4>1. LastBatch(j) = 0
        BY <2>0, <3>1, LastBatchIs DEF Counted
      <4>2. \A i \in 1..Len(t) : ~IsBatch(t[i])
        BY <1>1, <1>2, <2>2, <3>1
      <4>3. LastBatch(t) = 0
        BY <1>1, <4>2, LastBatchIs
      <4> QED
        BY <2>2, <4>1, <4>3
    <3>2. CASE \E i \in 1..Len(j) : IsBatch(j[i])
      <4>1. PICK i \in 1..Len(j) : IsBatch(j[i]) /\ LastBatch(j) = j[i].batch
        BY <2>0, <3>2, LastBatchIs DEF Counted
      <4>2. \A k \in 1..Len(t) : IsBatch(t[k]) => t[k].batch <= t[i].batch
        BY <1>1, <1>2, <2>0, <2>2, <4>1, LastBatchTops
      <4>3. i \in 1..Len(t) /\ IsBatch(t[i]) /\ t[i] = j[i]
        BY <1>1, <4>1
      <4>4. LastBatch(t) = t[i].batch
        BY <1>3, <4>2, <4>3, LastBatchFound
      <4> QED
        BY <2>2, <4>1, <4>3, <4>4
    <3> QED
      BY <3>1, <3>2
  <2> QED
    BY <2>1, <2>2
<1>5. BatchLines(t)
  <2>0. LastBatch(j) \in Nat
    BY LastBatchTops DEF InOrder
  <2>1. \A i \in 1..Len(t) : IsBatch(t[i]) => t[i].batch >= 1
    BY <1>1, <1>2, <2>0 DEF InOrder, BatchLines, Fits
  <2>2. ASSUME NEW i \in 1..Len(t), NEW k \in 1..Len(t),
               IsBatch(t[i]), IsBatch(t[k]), t[i].batch = t[k].batch
        PROVE  i = k
    <3>1. \A x \in 1..Len(j) : IsBatch(j[x]) => j[x].batch <= LastBatch(j)
      BY LastBatchTops DEF InOrder
    <3>2. CASE i = n \/ k = n
      BY <1>1, <1>2, <2>0, <2>2, <3>1, <3>2 DEF Fits
    <3>3. CASE i \in 1..Len(j) /\ k \in 1..Len(j)
      BY <1>1, <2>2, <3>3 DEF InOrder, BatchLines
    <3> QED
      BY <1>2, <3>2, <3>3
  <2>3. ASSUME NEW b \in 1..LastBatch(t)
        PROVE  \E i \in 1..Len(t) : IsBatch(t[i]) /\ t[i].batch = b
    <3>1. CASE b \in 1..LastBatch(j)
      <4>1. PICK i \in 1..Len(j) : IsBatch(j[i]) /\ j[i].batch = b
        BY <3>1 DEF InOrder, BatchLines
      <4> QED
        BY <1>1, <4>1
    <3>2. CASE b \notin 1..LastBatch(j)
      <4>1. IsBatch(e) /\ b = e.batch
        BY <1>4, <2>0, <2>3, <3>2 DEF Fits
      <4> QED
        BY <1>1, <4>1
    <3> QED
      BY <3>1, <3>2
  <2> QED
    BY <2>1, <2>2, <2>3 DEF BatchLines
<1>6. FilesOnce(t)
  <2> SUFFICES ASSUME NEW i \in 1..Len(t), NEW k \in 1..Len(t),
                      TakesFile(t[i]), TakesFile(t[k]), t[i].val = t[k].val
               PROVE  i = k
    BY DEF FilesOnce
  <2>1. \A x \in 1..Len(j) : TakesFile(j[x]) => j[x].val \in Taken(j)
    BY DEF Taken
  <2>2. CASE i = n \/ k = n
    BY <1>1, <1>2, <2>1, <2>2 DEF Fits
  <2>3. CASE i \in 1..Len(j) /\ k \in 1..Len(j)
    BY <1>1, <2>3 DEF InOrder, FilesOnce
  <2> QED
    BY <1>2, <2>2, <2>3
<1> QED
  BY <1>3, <1>4, <1>5, <1>6 DEF InOrder, t

(* t is j cut at batch c. *)
CutTo(j, c, t) ==
    /\ IsSeq(t) /\ Len(t) \in 0..Len(j)
    /\ \A i \in 1..Len(t) : t[i] = j[i] /\ j[i].t # "end" /\ j[i].batch <= c
    /\ \A i \in 1..Len(j) : i <= Len(t) \/ j[i].t = "end" \/ j[i].batch > c

(* The nth smallest of the first m numbers is n. *)
LEMMA NthOfFirst ==
    ASSUME NEW m \in Nat, NEW n \in 1..m
    PROVE  Nth(1..m, n) = n
<1>1. ASSUME NEW i \in 1..m
      PROVE  Cardinality({k \in 1..m : k <= i}) = i
  <2>1. {k \in 1..m : k <= i} = 1..i
    OBVIOUS
  <2>2. Cardinality(1..i) = i
    BY FS_Interval
  <2> QED
    BY <2>1, <2>2
<1>2. \A i \in 1..m : Cardinality({k \in 1..m : k <= i}) = n <=> i = n
  BY <1>1
<1> QED
  BY <1>2 DEF Nth

(* kept_at filters, and what it keeps of a journal in order is a prefix. *)
LEMMA KeptIsCut ==
    ASSUME NEW j, Counted(j), NEW c \in Nat
    PROVE  CutTo(j, c, KeptAt(j, c))
<1> DEFINE S == {i \in 1..Len(j) : j[i].t # "end" /\ j[i].batch <= c}
<1>1. Len(j) \in Nat /\ S \in SUBSET (0..Len(j))
  BY DEF Counted, IsSeq
<1>2. PICK m \in 0..Len(j) : S = 1..m
  <2>1. CASE S = {}
    <3>1. S = 1..0
      BY <2>1
    <3> QED
      BY <1>1, <3>1
  <2>2. CASE S # {}
    <3>1. Max(S) \in S /\ \A y \in S : y <= Max(S)
      <4> HIDE DEF S
      <4> QED
        BY <1>1, <2>2, MaxIs
    <3>2. ASSUME NEW i \in 1..Max(S)
          PROVE  i \in S
      <4>1. i \in 1..Len(j) /\ i <= Max(S) /\ Max(S) \in 1..Len(j)
        BY <1>1, <3>1
      <4>2. j[i].t = "end" => i = Len(j)
        BY <4>1 DEF Counted
      <4>3. j[i].t # "end"
        BY <1>1, <3>1, <4>1, <4>2
      <4>4. j[i].batch <= j[Max(S)].batch \/ j[Max(S)].t = "end"
        BY <4>1 DEF Counted
      <4>5. j[i].batch <= c
        BY <3>1, <4>1, <4>4 DEF Counted
      <4> QED
        BY <4>1, <4>3, <4>5
    <3>3. S = 1..Max(S)
      <4> HIDE DEF S
      <4>1. \A i \in S : i \in 1..Max(S)
        <5>1. \A i \in S : i \in 1..Len(j)
          BY DEF S
        <5> QED
          BY <1>1, <3>1, <5>1
      <4> QED
        BY <3>2, <4>1
    <3> QED
      BY <1>1, <3>1, <3>3
  <2> QED
    BY <2>1, <2>2
<1>3. KeptAt(j, c) = [n \in 1..m |-> j[Nth(S, n)]]
  <2>1. Cardinality(S) = m
    <3>1. m \in Nat /\ Cardinality(1..m) = m
      BY <1>1, FS_Interval
    <3> HIDE DEF S
    <3> QED
      BY <1>2, <3>1
  <2> QED
    BY <2>1 DEF KeptAt, AtPositions
<1> DEFINE t == KeptAt(j, c)
<1>4. t = [n \in 1..m |-> j[n]]
  <2> HIDE DEF S
  <2>1. \A n \in 1..m : Nth(S, n) = n
    BY <1>1, <1>2, NthOfFirst
  <2> QED
    BY <1>3, <2>1
<1>5. Len(t) = m /\ \A n \in 1..m : t[n] = j[n]
  BY <1>1, <1>4
<1>6. IsSeq(t)
  <2>1. m \in Nat /\ \A n \in 1..m : t[n] \in {t[i] : i \in 1..Len(t)}
    BY <1>1, <1>5
  <2>2. t = [n \in 1..m |-> t[n]]
    BY <1>4
  <2> DEFINE R == {t[i] : i \in 1..Len(t)}
  <2>3. \A n \in 1..m : t[n] \in R
    BY <2>1
  <2> HIDE DEF t, R
  <2>4. t \in [1..m -> R]
    BY <2>2, <2>3
  <2>5. t \in Seq(R)
    BY <2>1, <2>4
  <2> QED
    BY <2>5 DEF IsSeq, R
<1>7. \A i \in 1..m : j[i].t # "end" /\ j[i].batch <= c
  BY <1>2
<1>8. \A i \in 1..Len(j) : i <= m \/ j[i].t = "end" \/ j[i].batch > c
  <2> TAKE i \in 1..Len(j)
  <2>1. i \in 1..m => i <= m
    OBVIOUS
  <2>2. CASE i \in S
    BY <1>2, <2>1, <2>2
  <2>3. CASE i \notin S
    BY <2>3 DEF Counted
  <2> QED
    BY <2>2, <2>3
<1> HIDE DEF t
<1> QED
  BY <1>5, <1>6, <1>7, <1>8 DEF CutTo, t

(* What a cut keeps in order, and which batch line is then the last. *)
LEMMA CutInOrder ==
    ASSUME NEW j, InOrder(j), NEW c \in Nat, NEW t, CutTo(j, c, t)
    PROVE  /\ InOrder(t)
           /\ \A i \in 1..Len(t) : t[i].t # "end"
           /\ Taken(t) \subseteq Taken(j)
           /\ c <= LastBatch(j) => LastBatch(t) = c
<1>1. /\ Len(j) \in Nat /\ Len(t) \in Nat /\ IsSeq(t)
      /\ \A i \in 1..Len(t) : i \in 1..Len(j) /\ t[i] = j[i] /\ t[i].t # "end"
  <2>1. IsSeq(t) /\ Len(t) \in 0..Len(j)
    BY DEF CutTo
  <2>2. Len(j) \in Nat
    BY DEF InOrder, Counted, IsSeq
  <2>3. \A i \in 1..Len(t) : t[i] = j[i] /\ t[i].t # "end"
    BY DEF CutTo
  <2> QED
    BY <2>1, <2>2, <2>3
<1>2. Counted(t)
  <2>1. \A i \in 1..Len(t) :
           /\ t[i].seq = i /\ t[i].batch \in Nat
           /\ t[i].t = "end" => i = Len(t)
           /\ t[i].t = "level_next" => t[i].val \in Nat /\ t[i].val >= 2
    BY <1>1 DEF InOrder, Counted
  <2>2. \A i, k \in 1..Len(t) : i <= k => t[i].batch <= t[k].batch \/ t[k].t = "end"
    BY <1>1 DEF InOrder, Counted
  <2> QED
    BY <1>1, <2>1, <2>2 DEF Counted
<1>3. FilesOnce(t)
  BY <1>1 DEF InOrder, FilesOnce
<1>4. LastBatch(t) \in Nat /\ LastBatch(j) \in Nat /\ LastBatch(t) <= LastBatch(j)
  <2>1. LastBatch(t) \in Nat /\ LastBatch(j) \in Nat
    BY <1>2, LastBatchTops DEF InOrder
  <2>2. CASE LastBatch(t) = 0
    BY <2>1, <2>2
  <2>3. CASE \E i \in 1..Len(t) : IsBatch(t[i]) /\ LastBatch(t) = t[i].batch
    BY <1>1, <2>1, <2>3, LastBatchTops DEF InOrder
  <2> QED
    BY <1>1, <2>1, <2>2, <2>3, LastBatchIs
<1>5. ASSUME NEW n \in 1..LastBatch(j), n <= c
      PROVE  \E i \in 1..Len(t) : IsBatch(t[i]) /\ t[i].batch = n
  <2>1. PICK i \in 1..Len(j) : IsBatch(j[i]) /\ j[i].batch = n
    BY <1>5 DEF InOrder, BatchLines
  <2>2. j[i].t # "end" /\ ~(j[i].batch > c)
    BY <1>5, <2>1 DEF IsBatch
  <2>3. i \in 1..Len(t)
    BY <1>1, <2>2 DEF CutTo
  <2> QED
    BY <1>1, <2>1, <2>3
<1>6. LastBatch(t) <= c
  <2>1. CASE LastBatch(t) = 0
    BY <2>1
  <2>2. CASE \E i \in 1..Len(t) : IsBatch(t[i]) /\ LastBatch(t) = t[i].batch
    BY <1>1, <2>2 DEF CutTo
  <2> QED
    BY <1>1, <2>1, <2>2, LastBatchIs
<1>7. BatchLines(t)
  <2>1. \A i \in 1..Len(t) : IsBatch(t[i]) => t[i].batch >= 1
    BY <1>1 DEF InOrder, BatchLines
  <2>2. \A i, k \in 1..Len(t) :
           IsBatch(t[i]) /\ IsBatch(t[k]) /\ t[i].batch = t[k].batch => i = k
    BY <1>1 DEF InOrder, BatchLines
  <2>3. \A n \in 1..LastBatch(t) : \E i \in 1..Len(t) : IsBatch(t[i]) /\ t[i].batch = n
    BY <1>4, <1>5, <1>6
  <2> QED
    BY <2>1, <2>2, <2>3 DEF BatchLines
<1>8. Taken(t) \subseteq Taken(j)
  BY <1>1 DEF Taken
<1>9. ASSUME c <= LastBatch(j)
      PROVE  LastBatch(t) = c
  <2>1. CASE c = 0
    BY <1>4, <1>6, <2>1
  <2>2. CASE c # 0
    <3>1. PICK i \in 1..Len(t) : IsBatch(t[i]) /\ t[i].batch = c
      BY <1>4, <1>5, <1>9, <2>2
    <3>2. c <= LastBatch(t)
      BY <1>2, <3>1, LastBatchTops
    <3> QED
      BY <1>4, <1>6, <3>2
  <2> QED
    BY <2>1, <2>2
<1> QED
  BY <1>1, <1>2, <1>3, <1>7, <1>8, <1>9 DEF InOrder

(* A history counts its batches. *)
LEMMA BatchesOf ==
    ASSUME NEW h, IsSeq(h)
    PROVE  /\ Batches(h) \in Nat
           /\ h = <<>> => Batches(h) = 0
           /\ \A x : Batches(Append(h, x)) = IF x.kind = "batch" THEN Batches(h) + 1
                                                              ELSE Batches(h)
<1> DEFINE B(s) == {i \in 1..Len(s) : s[i].kind = "batch"}
<1>1. Len(h) \in Nat /\ IsFiniteSet(1..Len(h))
  BY FS_Interval DEF IsSeq
<1>2. IsFiniteSet(B(h)) /\ Batches(h) = Cardinality(B(h)) /\ Batches(h) \in Nat
  <2>1. B(h) \in SUBSET (1..Len(h))
    OBVIOUS
  <2>2. IsFiniteSet(B(h))
    BY <1>1, <2>1, FS_Subset
  <2>3. Cardinality(B(h)) \in Nat
    BY <2>2, FS_CardinalityType
  <2> QED
    BY <2>2, <2>3 DEF Batches
<1>3. h = <<>> => Batches(h) = 0
  <2>1. h = <<>> => B(h) = {}
    BY <1>1
  <2> QED
    BY <1>2, <2>1, FS_EmptySet
<1>4. ASSUME NEW x
      PROVE  Batches(Append(h, x)) = IF x.kind = "batch" THEN Batches(h) + 1 ELSE Batches(h)
  <2> DEFINE t == Append(h, x)
             n == Len(h) + 1
  <2>1. /\ Len(t) = n /\ t[n] = x
        /\ \A i \in 1..Len(h) : t[i] = h[i]
    BY Appended
  <2> HIDE DEF t
  <2>2. B(t) = IF x.kind = "batch" THEN B(h) \cup {n} ELSE B(h)
    <3>1. 1..Len(t) = (1..Len(h)) \cup {n}
      BY <1>1, <2>1
    <3> QED
      BY <2>1, <3>1
  <2>3. n \notin B(h)
    BY <1>1
  <2>4. Cardinality(B(h) \cup {n}) = Cardinality(B(h)) + 1
    BY <1>2, <2>3, FS_AddElement
  <2>5. Batches(t) = Cardinality(B(t))
    BY DEF Batches
  <2> HIDE DEF B
  <2> QED
    BY <1>2, <2>2, <2>4, <2>5 DEF t
<1> QED
  BY <1>2, <1>3, <1>4

(* Growing cases adds no batch. *)
LEMMA BatchesSteered ==
    ASSUME NEW h, IsSeq(h), NEW n \in Nat, NEW v
    PROVE  LET s == h \o [i \in 1..n |-> Grew(v[i])]
           IN  IsSeq(s) /\ Batches(s) = Batches(h)
<1> DEFINE g == [i \in 1..n |-> Grew(v[i])]
           s == h \o g
           S == {h[i] : i \in 1..Len(h)} \cup {g[i] : i \in 1..n}
<1>1. h \in Seq(S)
  <2>1. h \in Seq({h[i] : i \in 1..Len(h)})
    BY DEF IsSeq
  <2> QED
    BY <2>1
<1>2. g \in Seq(S) /\ Len(g) = n
  OBVIOUS
<1>3. \A i \in 1..n : g[i].kind = "grow"
  BY DEF Grew
<1>4. /\ s \in Seq(S) /\ Len(s) = Len(h) + n /\ Len(h) \in Nat
      /\ \A i \in 1..Len(h) : s[i] = h[i]
      /\ \A i \in (Len(h) + 1)..Len(s) : s[i] = g[i - Len(h)]
  <2> HIDE DEF g, S
  <2> QED
    BY <1>1, <1>2
<1> HIDE DEF g, S, s
<1>5. IsSeq(s)
  <2>1. s \in Seq({s[i] : i \in 1..Len(s)})
    BY <1>4
  <2> QED
    BY <2>1 DEF IsSeq
<1>6. {i \in 1..Len(s) : s[i].kind = "batch"} = {i \in 1..Len(h) : h[i].kind = "batch"}
  <2>1. \A i \in 1..Len(s) : i \in 1..Len(h) \/ i - Len(h) \in 1..n
    BY <1>4
  <2>2. \A i \in 1..Len(h) : i \in 1..Len(s)
    BY <1>4
  <2>3. ASSUME NEW i \in 1..Len(s), i \notin 1..Len(h)
        PROVE  s[i].kind = "grow"
    BY <1>3, <1>4, <2>1, <2>3
  <2> QED
    BY <1>4, <2>2, <2>3
<1>7. Batches(s) = Batches(h)
  BY <1>6 DEF Batches
<1> QED
  BY <1>5, <1>7 DEF s, g

-----------------------------------------------------------------------------
(* The session a journal describes *)

LEMMA UpToIs ==
    ASSUME NEW j, IsSeq(j), NEW n \in 0..Len(j)
    PROVE  /\ IsSeq(UpTo(j, n)) /\ Len(UpTo(j, n)) = n
           /\ \A i \in 1..n : UpTo(j, n)[i] = j[i]
<1> DEFINE S == {j[i] : i \in 1..Len(j)}
           t == UpTo(j, n)
<1>1. j \in Seq(S) /\ Len(j) \in Nat
  BY DEF IsSeq
<1>2. t \in Seq(S) /\ Len(t) = n /\ \A i \in 1..n : t[i] = j[i]
  <2> HIDE DEF S
  <2> QED
    BY <1>1 DEF UpTo
<1> HIDE DEF t
<1>3. t \in Seq({t[i] : i \in 1..Len(t)})
  BY <1>2
<1> QED
  BY <1>2, <1>3 DEF IsSeq, t

LEMMA SameSeq ==
    ASSUME NEW s, NEW t, IsSeq(s), IsSeq(t), Len(s) = Len(t),
           \A i \in 1..Len(s) : s[i] = t[i]
    PROVE  s = t
<1> DEFINE S == {s[i] : i \in 1..Len(s)} \cup {t[i] : i \in 1..Len(t)}
<1>1. s \in Seq(S) /\ t \in Seq(S)
  <2>1. s \in Seq({s[i] : i \in 1..Len(s)}) /\ t \in Seq({t[i] : i \in 1..Len(t)})
    BY DEF IsSeq
  <2> QED
    BY <2>1
<1> HIDE DEF S
<1> QED
  BY <1>1

(* Two journals that begin alike *)
Alike(s, t, n) ==
    /\ IsSeq(s) /\ IsSeq(t) /\ n \in 0..Len(s) /\ n \in 0..Len(t)
    /\ \A i \in 1..n : s[i] = t[i]

LEMMA SameUpTo ==
    ASSUME NEW s, NEW t, NEW n, Alike(s, t, n)
    PROVE  UpTo(s, n) = UpTo(t, n)
BY UpToIs, SameSeq DEF Alike

LEMMA AllUpTo == ASSUME NEW j, IsSeq(j) PROVE UpTo(j, Len(j)) = j /\ Len(j) \in 0..Len(j)
<1>1. Len(j) \in 0..Len(j)
  BY DEF IsSeq
<1> QED
  BY <1>1, UpToIs, SameSeq

LEMMA UpToAlike ==
    ASSUME NEW j, IsSeq(j), NEW n \in 0..Len(j)
    PROVE  Alike(UpTo(j, n), j, n)
<1>1. Len(j) \in Nat
  BY DEF IsSeq
<1> QED
  BY <1>1, UpToIs DEF Alike

LEMMA CutAlike ==
    ASSUME NEW j, IsSeq(j), NEW c, NEW t, CutTo(j, c, t)
    PROVE  /\ Len(t) \in 0..Len(j) /\ Alike(t, j, Len(t)) /\ t = UpTo(j, Len(t))
<1>1. Alike(t, j, Len(t)) /\ Len(t) \in 0..Len(j) /\ IsSeq(t)
  <2>1. IsSeq(t) /\ Len(t) \in 0..Len(j) /\ \A i \in 1..Len(t) : t[i] = j[i]
    BY DEF CutTo
  <2>2. Len(t) \in 0..Len(t)
    BY <2>1 DEF IsSeq
  <2> QED
    BY <2>1, <2>2 DEF Alike
<1>2. t = UpTo(t, Len(t))
  BY <1>1, AllUpTo
<1> QED
  BY <1>1, <1>2, SameUpTo

LEMMA AppendAlike ==
    ASSUME NEW j, IsSeq(j), NEW e
    PROVE  /\ Alike(Append(j, e), j, Len(j)) /\ UpTo(Append(j, e), Len(j)) = j
<1>1. Alike(Append(j, e), j, Len(j))
  <2>1. Len(j) \in Nat /\ Len(Append(j, e)) = Len(j) + 1
    BY Appended
  <2> QED
    BY <2>1, Appended DEF Alike
<1> QED
  BY <1>1, SameUpTo, AllUpTo

(* ... read the same as far as they are alike. *)
LEMMA ReadAlike ==
    ASSUME NEW s, NEW t, NEW n, Alike(s, t, n)
    PROVE  /\ EvidenceUpTo(s, n) = EvidenceUpTo(t, n)
           /\ \A i \in 1..n : Entries(s)[i] = Entries(t)[i]
<1>0. Len(s) \in Nat /\ Len(t) \in Nat
  <2>1. s \in Seq({s[i] : i \in 1..Len(s)}) /\ t \in Seq({t[i] : i \in 1..Len(t)})
    BY DEF Alike, IsSeq
  <2> QED
    BY <2>1
<1>1. /\ n \in Nat /\ n <= Len(s) /\ n <= Len(t)
      /\ \A i \in 1..n : i \in 1..Len(s) /\ i \in 1..Len(t) /\ s[i] = t[i]
  BY <1>0 DEF Alike
<1>2. ASSUME NEW m \in 0..n
      PROVE  EvidenceUpTo(s, m) = EvidenceUpTo(t, m)
  <2> DEFINE S == {i \in 1..m : s[i].t = "evidence"}
  <2>1. m \in Nat /\ \A i \in 1..m : i \in 1..n
    BY <1>1
  <2>2. S = {i \in 1..m : t[i].t = "evidence"}
    BY <1>1, <2>1
  <2>3. Places(S, m)
    BY <2>1 DEF Places
  <2>4. \A i \in S : Vals(s)[i] = Vals(t)[i]
    BY <1>1, <2>1 DEF Vals
  <2>5. AtPositions(Vals(s), S) = AtPositions(Vals(t), S)
    <3> HIDE DEF S
    <3> QED
      BY <2>3, <2>4, AtSame
  <2> QED
    BY <2>2, <2>5 DEF EvidenceUpTo
<1>3. ASSUME NEW i \in 1..n
      PROVE  Entries(s)[i] = Entries(t)[i]
  <2>1. EvidenceUpTo(s, i) = EvidenceUpTo(t, i)
    BY <1>0, <1>1, <1>2
  <2> QED
    BY <1>1, <2>1 DEF Entries
<1> QED
  BY <1>1, <1>2, <1>3

(* A history is what the entries of the applied events are, in order. *)
LEMMA HistoryIs ==
    ASSUME NEW j, IsSeq(j)
    PROVE  /\ IsSeq(Entries(j)) /\ Len(Entries(j)) = Len(j)
           /\ Applied(j) \in SUBSET (1..Len(j)) /\ Places(Applied(j), Len(j))
           /\ IsSeq(History(j)) /\ Len(History(j)) = Cardinality(Applied(j))
           /\ \A n \in 1..Len(History(j)) :
                  /\ Nth(Applied(j), n) \in Applied(j)
                  /\ History(j)[n] = Entries(j)[Nth(Applied(j), n)]
           /\ \A i \in Applied(j) : \E n \in 1..Len(History(j)) : History(j)[n] = Entries(j)[i]
<1> DEFINE E == Entries(j)
           R == {E[i] : i \in 1..Len(j)}
           h == History(j)
<1>1. Len(j) \in Nat /\ Applied(j) \in SUBSET (1..Len(j))
  BY DEF IsSeq, Applied
<1>2. E \in [1..Len(j) -> R]
  BY DEF Entries
<1>3. E \in Seq(R) /\ Len(E) = Len(j)
  <2> HIDE DEF E, R
  <2> QED
    BY <1>1, <1>2
<1>4. IsSeq(E)
  BY <1>3 DEF IsSeq
<1> HIDE DEF E, R
<1>5. /\ h \in Seq(R) /\ Len(h) = Cardinality(Applied(j))
      /\ \A n \in 1..Cardinality(Applied(j)) : h[n] = E[Nth(Applied(j), n)]
                                              /\ Nth(Applied(j), n) \in Applied(j)
      /\ \A i \in Applied(j) : \E n \in 1..Cardinality(Applied(j)) : h[n] = E[i]
  BY <1>1, <1>3, AtPlaces DEF History, E
<1>6. IsSeq(h)
  <2> HIDE DEF h
  <2>1. h \in Seq({h[i] : i \in 1..Len(h)})
    BY <1>5
  <2> QED
    BY <2>1 DEF IsSeq
<1> QED
  BY <1>1, <1>3, <1>4, <1>5, <1>6 DEF E, Places

(* While no level begins, what is applied adds to the history. *)
Later(j, n) == {i \in 1..Len(j) : i > n /\ j[i].t \in {"batch", "steer"}}

LEMMA LevelKept ==
    ASSUME NEW j, IsSeq(j), NEW n \in 0..Len(j),
           \A i \in 1..Len(j) : j[i].t = "level_next" => i <= n
    PROVE  /\ LevelIndex(UpTo(j, n)) = LevelIndex(j)
           /\ Level(UpTo(j, n)) = Level(j) /\ Base(UpTo(j, n)) = Base(j)
<1> DEFINE p == UpTo(j, n)
<1>1. /\ IsSeq(p) /\ Len(p) = n /\ \A i \in 1..n : p[i] = j[i] /\ i \in 1..Len(j)
  <2>1. Len(j) \in Nat
    BY DEF IsSeq
  <2> QED
    BY <2>1, UpToIs
<1> HIDE DEF p
<1>2. CASE \A i \in 1..Len(j) : j[i].t # "level_next"
  <2>1. \A i \in 1..Len(p) : p[i].t # "level_next"
    BY <1>1, <1>2
  <2>2. LevelIndex(p) = 0 /\ Level(p) = 1 /\ Base(p) = 0
    BY <1>1, <2>1, LevelIs
  <2>3. LevelIndex(j) = 0 /\ Level(j) = 1 /\ Base(j) = 0
    BY <1>2, LevelIs
  <2> QED
    BY <2>2, <2>3 DEF p
<1>3. CASE \E i \in 1..Len(j) : j[i].t = "level_next"
  <2>1. /\ LevelIndex(j) \in 1..Len(j) /\ j[LevelIndex(j)].t = "level_next"
        /\ Level(j) = j[LevelIndex(j)].val /\ Base(j) = j[LevelIndex(j)].batch
        /\ \A k \in 1..Len(j) : j[k].t = "level_next" => k <= LevelIndex(j)
    BY <1>3, LevelIs
  <2>2. LevelIndex(j) \in 1..n
    BY <2>1
  <2>3. /\ LevelIndex(p) \in 1..Len(p) /\ p[LevelIndex(p)].t = "level_next"
        /\ Level(p) = p[LevelIndex(p)].val /\ Base(p) = p[LevelIndex(p)].batch
        /\ \A k \in 1..Len(p) : p[k].t = "level_next" => k <= LevelIndex(p)
    BY <1>1, <2>1, <2>2, LevelIs
  <2>4. LevelIndex(p) = LevelIndex(j)
    <3>1. LevelIndex(j) <= LevelIndex(p)
      BY <1>1, <2>1, <2>2, <2>3
    <3>2. LevelIndex(p) <= LevelIndex(j)
      BY <1>1, <2>1, <2>3
    <3> QED
      BY <2>1, <2>2, <2>3, <3>1, <3>2, <1>1
  <2> QED
    BY <1>1, <2>1, <2>2, <2>3, <2>4 DEF p
<1> QED
  BY <1>2, <1>3

LEMMA HistoryGrows ==
    ASSUME NEW j, IsSeq(j), NEW n \in 0..Len(j),
           \A i \in 1..Len(j) : j[i].t = "level_next" => i <= n
    PROVE  History(j) = History(UpTo(j, n)) \o AtPositions(Entries(j), Later(j, n))
<1> DEFINE p == UpTo(j, n)
           E == Entries(j)
           A == Applied(p)
           B == Later(j, n)
<1>1. /\ Alike(p, j, n) /\ IsSeq(p) /\ Len(p) = n /\ Len(j) \in Nat
      /\ LevelIndex(p) = LevelIndex(j)
  <2>1. Len(j) \in Nat
    BY DEF IsSeq
  <2> QED
    BY <2>1, UpToAlike, UpToIs, LevelKept
<1>2. LevelIndex(j) \in 0..n
  BY LevelIs, <1>1
<1>3. /\ A \in SUBSET (1..Len(E)) /\ B \in SUBSET (1..Len(E)) /\ Places(A, n)
      /\ A = {i \in 1..n : i > LevelIndex(j) /\ j[i].t \in {"batch", "steer"}}
  <2>1. Len(E) = Len(j) /\ A \in SUBSET (1..n) /\ Places(A, n)
    BY <1>1, HistoryIs
  <2>2. \A i \in 1..n : p[i] = j[i] /\ i \in 1..Len(j)
    BY <1>1 DEF Alike
  <2>3. A = {i \in 1..n : i > LevelIndex(j) /\ j[i].t \in {"batch", "steer"}}
    BY <1>1, <2>2 DEF Applied
  <2>4. B \in SUBSET (1..Len(j))
    BY DEF Later
  <2> QED
    BY <2>1, <2>2, <2>3, <2>4
<1>4. Applied(j) = A \cup B /\ Before(A, B)
  <2>1. Applied(j) = A \cup B
    <3>1. \A i \in 1..Len(j) : i \in 1..n \/ i > n
      BY <1>1
    <3>2. \A i \in 1..Len(j) : i > n => i > LevelIndex(j)
      BY <1>1, <1>2
    <3>3. \A i \in 1..n : i \in 1..Len(j) /\ ~(i > n)
      BY <1>1
    <3> QED
      BY <1>3, <3>1, <3>2, <3>3 DEF Applied, Later
  <2>2. Before(A, B)
    BY <1>3 DEF Before, Later
  <2> QED
    BY <2>1, <2>2
<1>5. \A i \in A : Entries(p)[i] = E[i]
  BY <1>1, <1>3, ReadAlike
<1>6. E \in Seq({E[i] : i \in 1..Len(E)})
  BY <1>1, HistoryIs DEF IsSeq
<1> HIDE DEF p, E, A, B
<1>7. AtPositions(E, A \cup B) = AtPositions(E, A) \o AtPositions(E, B)
  BY <1>3, <1>4, <1>6, AtUnion
<1>8. AtPositions(Entries(p), A) = AtPositions(E, A)
  BY <1>3, <1>5, AtSame
<1> QED
  BY <1>4, <1>7, <1>8 DEF History, p, E, A, B

(* What one more event makes of the evidence and of the history *)
LEMMA EvidenceAppended ==
    ASSUME NEW j, NEW e, IsSeq(j)
    PROVE  /\ Evidence(Append(j, e)) = IF e.t = "evidence" THEN Append(Evidence(j), e.val)
                                                          ELSE Evidence(j)
           /\ EvidenceUpTo(Append(j, e), Len(j)) = Evidence(j)
<1> DEFINE t == Append(j, e)
           n == Len(j) + 1
           V == Vals(t)
           R == {V[i] : i \in 1..n}
           S == {i \in 1..Len(j) : t[i].t = "evidence"}
<1>1. /\ IsSeq(t) /\ Len(j) \in Nat /\ Len(t) = n /\ t[n] = e
      /\ \A i \in 1..Len(j) : t[i] = j[i]
  BY Appended
<1>2. EvidenceUpTo(t, Len(j)) = Evidence(j)
  <2>1. Alike(t, j, Len(j))
    BY AppendAlike
  <2> HIDE DEF t
  <2> QED
    BY <2>1, ReadAlike DEF Evidence
<1> HIDE DEF t
<1>3. V \in Seq(R) /\ Len(V) = n /\ V[n] = e.val
  <2>1. V \in [1..n -> R] /\ V[n] = e.val
    BY <1>1 DEF Vals
  <2> HIDE DEF V, R
  <2> QED
    BY <1>1, <2>1
<1>4. AtPositions(V, S) = Evidence(j) /\ S \in SUBSET (1..Len(V))
  BY <1>1, <1>2, <1>3 DEF EvidenceUpTo
<1>5. {i \in 1..n : t[i].t = "evidence"} = IF e.t = "evidence" THEN S \cup {n} ELSE S
  <2>1. 1..n = (1..Len(j)) \cup {n}
    BY <1>1
  <2> HIDE DEF n
  <2> QED
    BY <1>1, <2>1
<1>6. Evidence(t) = AtPositions(V, {i \in 1..n : t[i].t = "evidence"})
  BY <1>1 DEF Evidence, EvidenceUpTo
<1>7. CASE e.t = "evidence"
  <2>1. Before(S, {n})
    BY <1>1 DEF Before
  <2>2. n \in 1..Len(V) /\ {n} \in SUBSET (1..Len(V))
    BY <1>1, <1>3
  <2> HIDE DEF S, V, R, n
  <2>3. AtPositions(V, S \cup {n}) = AtPositions(V, S) \o AtPositions(V, {n})
    BY <1>3, <1>4, <2>1, <2>2, AtUnion
  <2>4. AtPositions(V, {n}) = <<e.val>>
    BY <1>3, <2>2, AtOne
  <2>5. AtPositions(V, S) \in Seq(R)
    BY <1>3, <1>4, AtPlaces
  <2>6. AtPositions(V, S) \o <<e.val>> = Append(AtPositions(V, S), e.val)
    <3> DEFINE s == AtPositions(V, S)
    <3>1. s \in Seq(R \cup {e.val})
      BY <2>5
    <3> HIDE DEF s
    <3>2. s \o <<e.val>> = Append(s, e.val)
      BY <3>1
    <3> QED
      BY <3>2 DEF s
  <2> QED
    BY <1>2, <1>4, <1>5, <1>6, <1>7, <2>3, <2>4, <2>6 DEF t
<1>8. CASE e.t # "evidence"
  BY <1>2, <1>4, <1>5, <1>6, <1>8 DEF t
<1> QED
  BY <1>7, <1>8

LEMMA Joins ==
    ASSUME NEW s, IsSeq(s)
    PROVE  s \o <<>> = s /\ \A x : s \o <<x>> = Append(s, x)
<1> DEFINE R(x) == {s[i] : i \in 1..Len(s)} \cup {x}
<1>1. ASSUME NEW x
      PROVE  s \o <<>> = s /\ s \o <<x>> = Append(s, x)
  <2>1. s \in Seq({s[i] : i \in 1..Len(s)})
    BY DEF IsSeq
  <2>2. s \in Seq(R(x)) /\ x \in R(x)
    BY <2>1
  <2> HIDE DEF R
  <2>3. s \o <<>> = s
    BY <2>2
  <2>4. s \o <<x>> = Append(s, x)
    BY <2>2
  <2> QED
    BY <2>3, <2>4
<1> QED
  BY <1>1

LEMMA HistoryAppended ==
    ASSUME NEW j, NEW e, IsSeq(j)
    PROVE  LET h == History(Append(j, e))
           IN  /\ e.t = "level_next" => h = <<>>
               /\ e.t = "steer" => h = Append(History(j), Grew(e.val))
               /\ IsBatch(e) => h = Append(History(j), Ran(e.val, Evidence(j), e.verdict))
               /\ e.t \notin {"level_next", "steer", "batch"} => h = History(j)
<1> DEFINE t == Append(j, e)
           n == Len(j) + 1
           E == Entries(t)
           B == Later(t, Len(j))
<1>1. /\ IsSeq(t) /\ Len(j) \in Nat /\ Len(t) = n /\ t[n] = e
      /\ \A i \in 1..Len(j) : t[i] = j[i]
      /\ UpTo(t, Len(j)) = j /\ Len(j) \in 0..Len(t)
  <2>1. Len(j) \in Nat /\ Len(t) = n
    BY Appended
  <2> QED
    BY <2>1, Appended, AppendAlike
<1>2. EvidenceUpTo(t, n) = IF e.t = "evidence" THEN Append(Evidence(j), e.val) ELSE Evidence(j)
  BY <1>1, EvidenceAppended DEF Evidence
<1> HIDE DEF t
<1>3. E[n] = IF e.t = "steer" THEN Grew(e.val) ELSE Ran(e.val, EvidenceUpTo(t, n), e.verdict)
  <2>1. n \in 1..Len(t)
    BY <1>1
  <2> HIDE DEF n
  <2> QED
    BY <1>1, <2>1 DEF Entries
<1>4. B = IF e.t \in {"batch", "steer"} THEN {n} ELSE {}
  <2>1. \A i \in 1..Len(t) : i > Len(j) <=> i = n
    BY <1>1
  <2>2. n \in 1..Len(t)
    BY <1>1
  <2> HIDE DEF n
  <2> QED
    BY <1>1, <2>1, <2>2 DEF Later
<1>5. CASE e.t = "level_next"
  <2>1. LevelIndex(t) = n
    <3>1. LevelIndex(t) \in 1..n /\ n <= LevelIndex(t)
      BY <1>1, <1>5, LevelIs
    <3> QED
      BY <1>1, <3>1
  <2>2. Applied(t) = {}
    BY <1>1, <2>1 DEF Applied
  <2>3. History(t) = <<>>
    BY <2>2, AtNone DEF History
  <2> QED
    BY <1>5, <2>3 DEF t, IsBatch
<1>6. CASE e.t # "level_next"
  <2>1. \A i \in 1..Len(t) : t[i].t = "level_next" => i <= Len(j)
    <3>1. \A i \in 1..Len(t) : i = n \/ i <= Len(j)
      BY <1>1
    <3> QED
      BY <1>1, <1>6, <3>1
  <2>2. History(t) = History(j) \o AtPositions(E, B)
    BY <1>1, <2>1, HistoryGrows
  <2>3. IsSeq(History(j)) /\ IsSeq(E) /\ Len(E) = n
    BY <1>1, HistoryIs
  <2> HIDE DEF E, B
  <2>4. CASE e.t \in {"batch", "steer"}
    <3>1. AtPositions(E, B) = <<E[n]>>
      <4>1. n \in 1..Len(E)
        BY <1>1, <2>3
      <4>2. AtPositions(E, {n}) = <<E[n]>>
        <5> HIDE DEF n
        <5> QED
          BY <2>3, <4>1, AtOne DEF IsSeq
      <4> QED
        BY <1>4, <2>4, <4>2
    <3>2. History(t) = Append(History(j), E[n])
      BY <2>2, <2>3, <3>1, Joins
    <3> HIDE DEF n
    <3> QED
      BY <1>2, <1>3, <2>4, <3>2 DEF t, IsBatch
  <2>5. CASE e.t \notin {"batch", "steer"}
    <3>1. AtPositions(E, B) = <<>>
      BY <1>4, <2>5, AtNone
    <3>2. History(t) = History(j)
      BY <2>2, <2>3, <3>1, Joins
    <3> QED
      BY <1>6, <2>5, <3>2 DEF t, IsBatch
  <2> QED
    BY <2>4, <2>5
<1> QED
  BY <1>5, <1>6

LEMMA AlikeLess ==
    ASSUME NEW s, NEW t, NEW m, Alike(s, t, m), NEW n \in 0..m
    PROVE  Alike(s, t, n) /\ UpTo(s, n) = UpTo(t, n)
<1>1. Len(s) \in Nat /\ Len(t) \in Nat
  <2>1. s \in Seq({s[i] : i \in 1..Len(s)}) /\ t \in Seq({t[i] : i \in 1..Len(t)})
    BY DEF Alike, IsSeq
  <2> QED
    BY <2>1
<1>2. Alike(s, t, n)
  BY <1>1 DEF Alike
<1> QED
  BY <1>2, SameUpTo

(* What makes a history one of its own journal: within a level a case is
   steered once; a batch or a level only follows steering, or a level, of an
   earlier batch; levels count; and no batch has an unknown verdict. *)
SteersApart(j) ==
    \A i, k \in 1..Len(j) :
        i < k /\ j[i].t = "steer" /\ j[k].t = "steer" /\ j[i].val = j[k].val
            => \E m \in i..k : j[m].t = "level_next"
LevelsApart(j) ==
    \A i, k \in 1..Len(j) :
        i < k /\ j[i].t \in {"steer", "level_next"} /\ j[k].t \in {"batch", "level_next"}
            => j[i].batch < j[k].batch
LevelsCount(j) ==
    \A i \in 1..Len(j) : j[i].t = "level_next" => j[i].val = Level(UpTo(j, i - 1)) + 1
NoneUnknown(j) == \A i \in 1..Len(j) : IsBatch(j[i]) => j[i].verdict # 5
Shape(j) == SteersApart(j) /\ LevelsApart(j) /\ LevelsCount(j) /\ NoneUnknown(j)

LEMMA ShapeUpTo ==
    ASSUME NEW j, IsSeq(j), Shape(j), NEW n \in 0..Len(j)
    PROVE  Shape(UpTo(j, n))
<1> DEFINE p == UpTo(j, n)
<1>1. /\ Alike(p, j, n) /\ Len(p) = n /\ Len(j) \in Nat
      /\ \A i \in 1..n : p[i] = j[i] /\ i \in 1..Len(j)
  <2>1. Len(j) \in Nat
    BY DEF IsSeq
  <2> QED
    BY <2>1, UpToAlike, UpToIs
<1>2. \A i \in 1..n : UpTo(p, i - 1) = UpTo(j, i - 1)
  <2> TAKE i \in 1..n
  <2>1. i - 1 \in 0..n
    BY <1>1
  <2> HIDE DEF p
  <2> QED
    BY <1>1, <2>1, AlikeLess
<1> HIDE DEF p
<1>3. SteersApart(p)
  <2> SUFFICES ASSUME NEW i \in 1..n, NEW k \in 1..n, i < k,
                      p[i].t = "steer", p[k].t = "steer", p[i].val = p[k].val
               PROVE  \E m \in i..k : p[m].t = "level_next"
    BY <1>1 DEF SteersApart
  <2>1. PICK m \in i..k : j[m].t = "level_next"
    BY <1>1 DEF Shape, SteersApart
  <2>2. m \in 1..n
    BY <1>1
  <2> QED
    BY <1>1, <2>1, <2>2
<1>4. LevelsApart(p) /\ NoneUnknown(p)
  BY <1>1 DEF Shape, LevelsApart, NoneUnknown
<1>5. LevelsCount(p)
  BY <1>1, <1>2 DEF Shape, LevelsCount
<1> QED
  BY <1>3, <1>4, <1>5 DEF Shape, p

(* An event that keeps the shape *)
Shapely(j, e) ==
    /\ e.t = "steer" => \A i \in 1..Len(j) :
           j[i].t = "steer" /\ j[i].val = e.val => i <= LevelIndex(j)
    /\ e.t \in {"batch", "level_next"} => \A i \in 1..Len(j) :
           j[i].t \in {"steer", "level_next"} => j[i].batch < e.batch
    /\ e.t = "level_next" => e.val = Level(j) + 1
    /\ IsBatch(e) => e.verdict # 5

LEMMA ShapeAppended ==
    ASSUME NEW j, IsSeq(j), Shape(j), NEW e, Shapely(j, e)
    PROVE  Shape(Append(j, e))
<1> DEFINE t == Append(j, e)
           n == Len(j) + 1
<1>1. /\ Alike(t, j, Len(j)) /\ UpTo(t, Len(j)) = j
      /\ Len(j) \in Nat /\ Len(t) = n /\ t[n] = e
      /\ \A i \in 1..Len(j) : t[i] = j[i]
  BY Appended, AppendAlike
<1> HIDE DEF t
<1>2. \A i \in 1..Len(j) : UpTo(t, i - 1) = UpTo(j, i - 1)
  <2> TAKE i \in 1..Len(j)
  <2>1. i - 1 \in 0..Len(j)
    BY <1>1
  <2> QED
    BY <1>1, <2>1, AlikeLess
<1>3. /\ n \in 1..Len(t) /\ n - 1 = Len(j)
      /\ \A i \in 1..Len(t) : i = n \/ i \in 1..Len(j)
      /\ \A i \in 1..Len(j) : i < n /\ i # n
      /\ \A i, k \in 1..Len(t) : i < k => i \in 1..Len(j)
  BY <1>1
<1>4. SteersApart(t)
  <2> SUFFICES ASSUME NEW i \in 1..Len(t), NEW k \in 1..Len(t), i < k,
                      t[i].t = "steer", t[k].t = "steer", t[i].val = t[k].val
               PROVE  \E m \in i..k : t[m].t = "level_next"
    BY DEF SteersApart
  <2>1. i \in 1..Len(j)
    BY <1>3
  <2>2. CASE k \in 1..Len(j)
    <3>1. PICK m \in i..k : j[m].t = "level_next"
      BY <1>1, <2>1, <2>2 DEF Shape, SteersApart
    <3>2. m \in 1..Len(j)
      BY <1>1, <2>1, <2>2
    <3> QED
      BY <1>1, <3>1, <3>2
  <2>3. CASE k = n
    <3>1. i <= LevelIndex(j)
      BY <1>1, <2>1, <2>3 DEF Shapely
    <3>2. LevelIndex(j) \in 1..Len(j) /\ j[LevelIndex(j)].t = "level_next"
      BY <1>1, <2>1, <3>1, LevelIs
    <3>3. LevelIndex(j) \in i..k
      BY <1>1, <2>1, <2>3, <3>1, <3>2
    <3> QED
      BY <1>1, <3>2, <3>3
  <2> QED
    BY <1>3, <2>2, <2>3
<1>5. LevelsApart(t)
  <2> SUFFICES ASSUME NEW i \in 1..Len(t), NEW k \in 1..Len(t), i < k,
                      t[i].t \in {"steer", "level_next"}, t[k].t \in {"batch", "level_next"}
               PROVE  t[i].batch < t[k].batch
    BY DEF LevelsApart
  <2>1. i \in 1..Len(j)
    BY <1>3
  <2>2. CASE k \in 1..Len(j)
    BY <1>1, <2>1, <2>2 DEF Shape, LevelsApart
  <2>3. CASE k = n
    <3> HIDE DEF n
    <3> QED
      BY <1>1, <2>1, <2>3 DEF Shapely
  <2> QED
    BY <1>3, <2>2, <2>3
<1>6. LevelsCount(t) /\ NoneUnknown(t)
  <2>1. ASSUME NEW i \in 1..Len(t), t[i].t = "level_next"
        PROVE  t[i].val = Level(UpTo(t, i - 1)) + 1
    <3>1. CASE i = n
      <4>1. UpTo(t, i - 1) = j
        BY <1>1, <1>3, <3>1
      <4>2. t[i] = e
        BY <1>1, <3>1
      <4> QED
        BY <2>1, <4>1, <4>2 DEF Shapely
    <3>2. CASE i \in 1..Len(j)
      BY <1>1, <1>2, <2>1, <3>2 DEF Shape, LevelsCount
    <3> QED
      BY <1>3, <3>1, <3>2
  <2>2. ASSUME NEW i \in 1..Len(t), IsBatch(t[i])
        PROVE  t[i].verdict # 5
    <3> HIDE DEF n
    <3> QED
      BY <1>1, <1>3, <2>2 DEF Shapely, Shape, NoneUnknown
  <2> QED
    BY <2>1, <2>2 DEF LevelsCount, NoneUnknown
<1> QED
  BY <1>4, <1>5, <1>6 DEF Shape, t

(* The first n events are what a checkpoint was taken of: all of them, and
   no later batch line, belong to its batch or an earlier one. *)
Describes(j, n, k) ==
    /\ \A i \in 1..n : j[i].batch <= k.batch /\ j[i].t # "end"
    /\ \A i \in 1..Len(j) : i > n /\ IsBatch(j[i]) => j[i].batch > k.batch
    /\ k.hist = History(UpTo(j, n)) /\ k.level = Level(UpTo(j, n))
Described(j, k) == \E n \in 0..Len(j) : Describes(j, n, k)

LEMMA DescribedAppended ==
    ASSUME NEW j, IsSeq(j), NEW k, Described(j, k), NEW e, IsBatch(e) => e.batch > k.batch
    PROVE  Described(Append(j, e), k)
<1> DEFINE t == Append(j, e)
<1>1. /\ Alike(t, j, Len(j)) /\ Len(j) \in Nat /\ Len(t) = Len(j) + 1
      /\ t[Len(j) + 1] = e /\ \A i \in 1..Len(j) : t[i] = j[i]
  BY Appended, AppendAlike
<1> HIDE DEF t
<1>2. PICK n \in 0..Len(j) : Describes(j, n, k)
  BY DEF Described
<1>3. UpTo(t, n) = UpTo(j, n) /\ n \in 0..Len(t)
  BY <1>1, AlikeLess
<1>4. \A i \in 1..n : i \in 1..Len(j)
  BY <1>1
<1>5. \A i \in 1..Len(t) : i \in 1..Len(j) \/ i = Len(j) + 1
  BY <1>1
<1>6. \A i \in 1..Len(t) : i > n /\ IsBatch(t[i]) => t[i].batch > k.batch
  BY <1>1, <1>2, <1>5 DEF Describes
<1>7. Describes(t, n, k)
  BY <1>1, <1>2, <1>3, <1>4, <1>6 DEF Describes
<1> QED
  BY <1>3, <1>7 DEF Described, t

LEMMA DescribedCut ==
    ASSUME NEW j, Counted(j), NEW k, Described(j, k), k.batch \in Nat,
           NEW c \in Nat, k.batch <= c, NEW t, CutTo(j, c, t)
    PROVE  Described(t, k)
<1>1. /\ IsSeq(j) /\ Len(j) \in Nat /\ Len(t) \in 0..Len(j) /\ Alike(t, j, Len(t))
      /\ \A i \in 1..Len(t) : t[i] = j[i] /\ i \in 1..Len(j)
      /\ \A i \in 1..Len(j) : j[i].batch \in Nat
  <2>1. IsSeq(j) /\ Len(j) \in Nat /\ \A i \in 1..Len(j) : j[i].batch \in Nat
    BY DEF Counted, IsSeq
  <2>2. Len(t) \in 0..Len(j) /\ Alike(t, j, Len(t)) /\ \A i \in 1..Len(t) : t[i] = j[i]
    BY <2>1, CutAlike DEF CutTo
  <2>3. \A i \in 1..Len(t) : i \in 1..Len(j)
    BY <2>1, <2>2
  <2> QED
    BY <2>1, <2>2, <2>3
<1>2. PICK n \in 0..Len(j) : Describes(j, n, k)
  BY DEF Described
<1>3. n \in 0..Len(t)
  <2>1. CASE n = 0
    BY <1>1, <2>1
  <2>2. CASE n # 0
    <3>1. n \in 1..Len(j) /\ n \in 1..n
      BY <1>1, <2>2
    <3>2. j[n].batch <= k.batch /\ j[n].t # "end"
      BY <1>2, <3>1 DEF Describes
    <3>3. j[n].batch <= c
      BY <1>1, <3>1, <3>2
    <3>4. n <= Len(t)
      BY <1>1, <3>1, <3>2, <3>3 DEF CutTo
    <3> QED
      BY <1>1, <3>4
  <2> QED
    BY <2>1, <2>2
<1>4. UpTo(t, n) = UpTo(j, n)
  BY <1>1, <1>3, AlikeLess
<1>5. \A i \in 1..n : i \in 1..Len(t)
  BY <1>1, <1>3
<1>6. Describes(t, n, k)
  BY <1>1, <1>2, <1>4, <1>5 DEF Describes
<1> QED
  BY <1>3, <1>6 DEF Described

(* Applied steering is a sequence of case growths. *)
LEMMA Steered ==
    ASSUME NEW j, IsSeq(j), NEW S \in SUBSET (1..Len(j)), \A i \in S : j[i].t = "steer"
    PROVE  LET m == AtPositions(j, S)
           IN  /\ Len(m) \in Nat
               /\ AtPositions(Entries(j), S) = [i \in 1..Len(m) |-> Grew(m[i].val)]
<1> DEFINE m == AtPositions(j, S)
<1>1. /\ Len(m) = Cardinality(S)
      /\ \A n \in 1..Cardinality(S) : m[n] = j[Nth(S, n)] /\ Nth(S, n) \in S
  BY AtPlaces DEF IsSeq
<1>2. Len(m) \in Nat
  <2>1. m \in Seq({j[i] : i \in 1..Len(j)})
    BY AtPlaces DEF IsSeq
  <2> HIDE DEF m
  <2> QED
    BY <2>1
<1>3. \A n \in 1..Cardinality(S) : Entries(j)[Nth(S, n)] = Grew(m[n].val)
  <2> HIDE DEF m
  <2>1. \A i \in S : Entries(j)[i] = Grew(j[i].val)
    BY DEF Entries
  <2> QED
    BY <1>1, <2>1
<1>4. AtPositions(Entries(j), S) = [n \in 1..Cardinality(S) |-> Entries(j)[Nth(S, n)]]
  BY DEF AtPositions
<1> HIDE DEF m
<1> QED
  BY <1>1, <1>2, <1>3, <1>4 DEF m

(* Where no batch and no level follows, the history only grows cases. *)
LEMMA HistoryCovers ==
    ASSUME NEW j, IsSeq(j), NEW n \in 0..Len(j),
           \A i \in 1..Len(j) : j[i].t \in {"batch", "level_next"} => i <= n
    PROVE  /\ IsPrefix(History(UpTo(j, n)), History(j))
           /\ Batches(History(UpTo(j, n))) = Batches(History(j))
           /\ Level(UpTo(j, n)) = Level(j) /\ LevelIndex(UpTo(j, n)) = LevelIndex(j)
<1> DEFINE p == UpTo(j, n)
           h == History(p)
           B == Later(j, n)
           m == AtPositions(j, B)
           v == [i \in 1..Len(m) |-> m[i].val]
           g == [i \in 1..Len(m) |-> Grew(v[i])]
<1>1. /\ IsSeq(p) /\ IsSeq(h) /\ Len(j) \in Nat
      /\ Level(p) = Level(j) /\ LevelIndex(p) = LevelIndex(j)
      /\ History(j) = h \o AtPositions(Entries(j), B)
  <2>1. IsSeq(p) /\ Len(j) \in Nat
    <3>1. Len(j) \in Nat
      BY DEF IsSeq
    <3> QED
      BY <3>1, UpToIs
  <2>2. \A i \in 1..Len(j) : j[i].t = "level_next" => i <= n
    OBVIOUS
  <2>3. Level(p) = Level(j) /\ LevelIndex(p) = LevelIndex(j)
    BY <2>2, LevelKept
  <2>4. History(j) = h \o AtPositions(Entries(j), B)
    BY <2>2, HistoryGrows
  <2>5. IsSeq(h)
    BY <2>1, HistoryIs
  <2> QED
    BY <2>1, <2>3, <2>4, <2>5
<1>2. B \in SUBSET (1..Len(j)) /\ \A i \in B : j[i].t = "steer"
  BY <1>1 DEF Later
<1> HIDE DEF p, h, B
<1>3. Len(m) \in Nat /\ AtPositions(Entries(j), B) = g
  <2>1. Len(m) \in Nat /\ AtPositions(Entries(j), B) = [i \in 1..Len(m) |-> Grew(m[i].val)]
    BY <1>2, Steered
  <2> HIDE DEF m
  <2> QED
    BY <2>1
<1> HIDE DEF m, v
<1>4. IsSeq(h \o g) /\ Batches(h \o g) = Batches(h)
  BY <1>1, <1>3, BatchesSteered
<1>5. IsPrefix(h, h \o g)
  <2> DEFINE R == {h[i] : i \in 1..Len(h)} \cup {g[i] : i \in 1..Len(m)}
  <2>1. h \in Seq({h[i] : i \in 1..Len(h)})
    BY <1>1 DEF IsSeq
  <2>2. h \in Seq(R) /\ g \in Seq(R)
    BY <1>3, <2>1
  <2> HIDE DEF R, g
  <2>3. /\ Len(h) \in Nat /\ Len(h) <= Len(h \o g)
        /\ SubSeq(h, 1, Len(h)) = SubSeq(h \o g, 1, Len(h))
    BY <2>2
  <2> QED
    BY <2>3 DEF IsPrefix
<1> QED
  BY <1>1, <1>3, <1>4, <1>5 DEF p, h

(* The cases of a history are those steered since the level began, ... *)
LEMMA CasesAre ==
    ASSUME NEW j, IsSeq(j), NEW c
    PROVE  c \in Cases(History(j)) <=> \E i \in Applied(j) : j[i].t = "steer" /\ j[i].val = c
<1> DEFINE h == History(j)
           E == Entries(j)
<1>1. /\ Applied(j) \in SUBSET (1..Len(j))
      /\ \A n \in 1..Len(h) : Nth(Applied(j), n) \in Applied(j) /\ h[n] = E[Nth(Applied(j), n)]
      /\ \A i \in Applied(j) : \E n \in 1..Len(h) : h[n] = E[i]
  BY HistoryIs
<1>2. \A i \in Applied(j) : IF j[i].t = "steer" THEN E[i].kind = "grow" /\ E[i].case = j[i].val
                                                ELSE E[i].kind = "batch"
  BY <1>1 DEF Entries, Ran, Grew
<1> HIDE DEF h, E
<1>3. ASSUME c \in Cases(h)
      PROVE  \E i \in Applied(j) : j[i].t = "steer" /\ j[i].val = c
  <2>1. PICK n \in 1..Len(h) : h[n].kind = "grow" /\ h[n].case = c
    BY <1>3 DEF Cases
  <2>2. Nth(Applied(j), n) \in Applied(j) /\ h[n] = E[Nth(Applied(j), n)]
    BY <1>1
  <2> QED
    BY <1>2, <2>1, <2>2
<1>4. ASSUME NEW i \in Applied(j), j[i].t = "steer", j[i].val = c
      PROVE  c \in Cases(h)
  <2>1. PICK n \in 1..Len(h) : h[n] = E[i]
    BY <1>1
  <2>2. h[n].kind = "grow" /\ h[n].case = c
    BY <1>2, <1>4, <2>1
  <2> QED
    BY <2>2 DEF Cases
<1> QED
  BY <1>3, <1>4 DEF h

(* ... and it grows each of them once. *)
LEMMA GrowsOnce ==
    ASSUME NEW j, IsSeq(j), SteersApart(j),
           NEW i \in 1..Len(History(j)), NEW k \in 1..Len(History(j)),
           History(j)[i].kind = "grow", History(j)[i] = History(j)[k]
    PROVE  i = k
<1> DEFINE h == History(j)
           E == Entries(j)
           A == Applied(j)
           a == Nth(A, i)
           b == Nth(A, k)
<1>1. /\ A \in SUBSET (1..Len(j)) /\ Places(A, Len(j)) /\ Len(h) = Cardinality(A)
      /\ a \in A /\ b \in A /\ h[i] = E[a] /\ h[k] = E[b] /\ Len(j) \in Nat
  <2>1. Len(j) \in Nat
    BY DEF IsSeq
  <2> QED
    BY <2>1, HistoryIs
<1>2. /\ a \in 1..Len(j) /\ b \in 1..Len(j) /\ a > LevelIndex(j) /\ b > LevelIndex(j)
      /\ j[a].t = "steer" /\ j[b].t = "steer" /\ j[a].val = j[b].val
  <2>1. \A x \in A : /\ x \in 1..Len(j) /\ x > LevelIndex(j) /\ j[x].t \in {"batch", "steer"}
                     /\ IF j[x].t = "steer" THEN E[x].kind = "grow" /\ E[x].case = j[x].val
                                             ELSE E[x].kind = "batch"
    BY <1>1 DEF Applied, Entries, Ran, Grew
  <2> HIDE DEF h, E, A, a, b
  <2>2. E[a].kind = "grow" /\ E[a] = E[b]
    BY <1>1 DEF h
  <2> QED
    BY <1>1, <2>1, <2>2
<1>3. Rank(A, a) = i /\ Rank(A, b) = k
  <2>1. i \in 1..Cardinality(A) /\ k \in 1..Cardinality(A)
    BY <1>1
  <2> HIDE DEF A
  <2> QED
    BY <1>1, <2>1, NthIs
<1> HIDE DEF a, b, A, E
<1>4. \A x \in 1..Len(j) : j[x].t = "level_next" => x <= LevelIndex(j)
  BY LevelIs
<1>5. LevelIndex(j) \in Nat
  BY <1>1, LevelIs
<1>6. ~(a < b) /\ ~(b < a)
  <2>1. ASSUME NEW x \in {a, b}, NEW y \in {a, b}, x < y
        PROVE  FALSE
    <3>1. /\ x \in 1..Len(j) /\ y \in 1..Len(j) /\ x > LevelIndex(j)
          /\ j[x].t = "steer" /\ j[y].t = "steer" /\ j[x].val = j[y].val
      BY <1>2
    <3>2. PICK m \in x..y : j[m].t = "level_next"
      BY <2>1, <3>1 DEF SteersApart
    <3>3. m \in 1..Len(j) /\ m > LevelIndex(j)
      BY <1>1, <1>5, <3>1
    <3> QED
      BY <1>4, <1>5, <3>2, <3>3
  <2> QED
    BY <2>1
<1>7. a = b
  BY <1>1, <1>2, <1>6
<1> QED
  BY <1>3, <1>7

(* What follows the events a checkpoint describes belongs to its batch, or
   a later one. *)
LEMMA DescribedBefore ==
    ASSUME NEW j, Counted(j), BatchLines(j), NEW k, k.batch \in 0..LastBatch(j),
           NEW n \in 0..Len(j), Describes(j, n, k),
           NEW i \in 1..Len(j), i > n, j[i].t # "end"
    PROVE  k.batch <= j[i].batch
<1>1. Len(j) \in Nat /\ LastBatch(j) \in Nat /\ \A x \in 1..Len(j) : j[x].batch \in Nat
  <2>1. LastBatch(j) \in Nat
    BY LastBatchTops
  <2>2. IsSeq(j) /\ \A x \in 1..Len(j) : j[x].batch \in Nat
    BY DEF Counted
  <2>3. Len(j) \in Nat
    BY <2>2 DEF IsSeq
  <2> QED
    BY <2>1, <2>2, <2>3
<1>2. CASE k.batch = 0
  BY <1>1, <1>2
<1>3. CASE k.batch # 0
  <2>1. k.batch \in 1..LastBatch(j)
    BY <1>1, <1>3
  <2>2. PICK x \in 1..Len(j) : IsBatch(j[x]) /\ j[x].batch = k.batch
    BY <2>1 DEF BatchLines
  <2>3. x <= n
    BY <1>1, <2>2 DEF Describes
  <2>4. x <= i
    BY <1>1, <2>3
  <2> QED
    BY <2>2, <2>4 DEF Counted
<1> QED
  BY <1>2, <1>3

(* What resume makes of a history restored at batch c: the steering of that
   batch it has not grown. *)
Regrown(j, c, h) ==
    LET missed == AtPositions(j, {i \in 1..Len(j) :
                                     /\ j[i].t = "steer" /\ j[i].batch = c
                                     /\ j[i].val \notin Cases(h)})
    IN  h \o [i \in 1..Len(missed) |-> Grew(missed[i].val)]

LEMMA RegrownIs ==
    ASSUME NEW j, IsSeq(j), NEW c, NEW h, NEW B \in SUBSET (1..Len(j)),
           \A i \in 1..Len(j) :
               i \in B <=> j[i].t = "steer" /\ j[i].batch = c /\ j[i].val \notin Cases(h)
    PROVE  Regrown(j, c, h) = h \o AtPositions(Entries(j), B)
<1> DEFINE m == AtPositions(j, B)
<1>1. B = {i \in 1..Len(j) : /\ j[i].t = "steer" /\ j[i].batch = c
                             /\ j[i].val \notin Cases(h)}
  OBVIOUS
<1>2. AtPositions(Entries(j), B) = [i \in 1..Len(m) |-> Grew(m[i].val)]
  <2>1. \A i \in B : j[i].t = "steer"
    OBVIOUS
  <2> QED
    BY <2>1, Steered
<1> QED
  BY <1>1, <1>2, Zenon DEF Regrown

(* Restored at the batch its level began at, the session is the steering of
   that batch since: nothing earlier is of that batch. *)
LEMMA RegrownAtSeed ==
    ASSUME NEW j, InOrder(j), Shape(j),
           \A i \in 1..Len(j) : j[i].t # "end" /\ j[i].batch <= Base(j)
    PROVE  History(j) = Regrown(j, Base(j), <<>>)
<1> DEFINE c == Base(j)
           q == LevelIndex(j)
<1>1. /\ IsSeq(j) /\ Len(j) \in Nat /\ \A i \in 1..Len(j) : j[i].batch \in Nat
      /\ LevelsApart(j)
      /\ \A i \in 1..Len(j) : IsBatch(j[i]) => j[i].batch >= 1
      /\ \A i, k \in 1..Len(j) : i <= k => j[i].batch <= j[k].batch
  BY DEF InOrder, Counted, BatchLines, IsSeq, Shape
<1>2. \/ q = 0 /\ c = 0
      \/ q \in 1..Len(j) /\ j[q].t = "level_next" /\ c = j[q].batch
  BY <1>1, LevelIs
<1> HIDE DEF q, c
<1>3. ASSUME NEW i \in 1..Len(j), i > q
      PROVE  j[i].batch = c /\ ~IsBatch(j[i])
  <2>1. CASE q = 0 /\ c = 0
    <3>1. j[i].batch = c
      BY <1>1, <2>1 DEF c
    <3> QED
      BY <1>1, <2>1, <3>1
  <2>2. CASE q \in 1..Len(j) /\ j[q].t = "level_next" /\ c = j[q].batch
    <3>1. j[q].batch <= j[i].batch /\ j[i].batch <= c
      BY <1>1, <1>3, <2>2 DEF c
    <3>2. j[i].batch = c
      BY <1>1, <2>2, <3>1
    <3>3. IsBatch(j[i]) => j[q].batch < j[i].batch
      BY <1>1, <1>3, <2>2 DEF IsBatch, LevelsApart
    <3> QED
      BY <1>1, <2>2, <3>2, <3>3
  <2> QED
    BY <1>2, <2>1, <2>2
<1>4. ASSUME NEW i \in 1..Len(j), j[i].t = "steer", j[i].batch = c
      PROVE  i > q
  <2>1. CASE q = 0
    BY <2>1
  <2>2. CASE q \in 1..Len(j) /\ j[q].t = "level_next" /\ c = j[q].batch
    <3>1. i < q => j[i].batch < j[q].batch
      BY <1>1, <1>4, <2>2 DEF LevelsApart
    <3>2. i # q
      BY <1>4, <2>2
    <3> QED
      BY <1>1, <1>4, <2>2, <3>1, <3>2
  <2> QED
    BY <1>2, <2>1, <2>2
<1>5. \A i \in 1..Len(j) : i \in Applied(j) <=> j[i].t = "steer" /\ j[i].batch = c
  BY <1>3, <1>4 DEF Applied, IsBatch, q
<1>6. Cases(<<>>) = {} /\ Applied(j) \in SUBSET (1..Len(j))
  <2>1. Len(<<>>) = 0
    OBVIOUS
  <2> QED
    BY <2>1 DEF Cases, Applied
<1>7. \A i \in 1..Len(j) :
          i \in Applied(j) <=> j[i].t = "steer" /\ j[i].batch = c /\ j[i].val \notin Cases(<<>>)
  BY <1>5, <1>6
<1>8. Regrown(j, c, <<>>) = <<>> \o History(j)
  BY <1>1, <1>6, <1>7, RegrownIs DEF History
<1>9. <<>> \o History(j) = History(j)
  <2> DEFINE h == History(j)
  <2>1. IsSeq(h)
    BY <1>1, HistoryIs
  <2> HIDE DEF h
  <2>2. <<>> \o h = h
    BY <2>1 DEF IsSeq
  <2> QED
    BY <2>2 DEF h
<1> QED
  BY <1>8, <1>9 DEF c

(* Restored from a checkpoint at the last batch, it is the checkpoint's
   history and the steering of that batch which came after. *)
LEMMA RegrownAtCheckpoint ==
    ASSUME NEW j, InOrder(j), Shape(j), NEW k, Described(j, k), k.batch = LastBatch(j),
           \A i \in 1..Len(j) : j[i].t # "end" /\ j[i].batch <= k.batch,
           LevelIndex(j) = 0 \/ Base(j) # k.batch
    PROVE  History(j) = Regrown(j, k.batch, k.hist)
<1> DEFINE c == k.batch
           q == LevelIndex(j)
<1>1. /\ IsSeq(j) /\ Len(j) \in Nat /\ \A i \in 1..Len(j) : j[i].batch \in Nat
      /\ Counted(j) /\ BatchLines(j) /\ SteersApart(j) /\ LevelsApart(j)
      /\ c \in Nat /\ c \in 0..LastBatch(j)
  <2>1. Counted(j) /\ BatchLines(j) /\ SteersApart(j) /\ LevelsApart(j) /\ LastBatch(j) \in Nat
    BY LastBatchTops DEF InOrder, Shape
  <2> QED
    BY <2>1 DEF Counted, IsSeq
<1>2. PICK n \in 0..Len(j) : Describes(j, n, k)
  BY DEF Described
<1>3. \/ q = 0 /\ \A i \in 1..Len(j) : j[i].t # "level_next"
      \/ /\ q \in 1..Len(j) /\ j[q].t = "level_next" /\ j[q].batch = Base(j)
         /\ \A i \in 1..Len(j) : j[i].t = "level_next" => i <= q
  BY <1>1, LevelIs
<1>4. \A i \in 1..Len(j) : i > n => j[i].batch = c /\ ~IsBatch(j[i])
  <2> TAKE i \in 1..Len(j)
  <2>1. ASSUME i > n PROVE j[i].batch = c /\ ~IsBatch(j[i])
    <3>1. c <= j[i].batch /\ j[i].batch <= c
      BY <1>1, <1>2, <2>1, DescribedBefore
    <3>2. IsBatch(j[i]) => j[i].batch > c
      BY <1>2, <2>1 DEF Describes
    <3> QED
      BY <1>1, <3>1, <3>2
  <2> QED
    BY <2>1
<1>5. q <= n
  <2>1. CASE q = 0
    BY <1>1, <2>1
  <2>2. CASE q # 0
    BY <1>1, <1>3, <1>4, <2>2
  <2> QED
    BY <2>1, <2>2
<1>6. \A i \in 1..Len(j) : j[i].t = "level_next" => i <= n
  BY <1>1, <1>3, <1>5
<1> DEFINE p == UpTo(j, n)
<1>7. /\ IsSeq(p) /\ Len(p) = n /\ LevelIndex(p) = q
      /\ \A i \in 1..n : p[i] = j[i] /\ i \in 1..Len(j)
      /\ History(j) = History(p) \o AtPositions(Entries(j), Later(j, n))
      /\ k.hist = History(p)
  <2>1. /\ IsSeq(p) /\ Len(p) = n
        /\ \A i \in 1..n : p[i] = j[i] /\ i \in 1..Len(j)
    BY <1>1, UpToIs
  <2>2. LevelIndex(p) = q
    BY <1>1, <1>6, LevelKept
  <2>3. History(j) = History(p) \o AtPositions(Entries(j), Later(j, n))
    BY <1>1, <1>6, HistoryGrows
  <2>4. k.hist = History(p)
    BY <1>2 DEF Describes
  <2> HIDE DEF p, q
  <2> QED
    BY <2>1, <2>2, <2>3, <2>4
<1> HIDE DEF p, q, c
<1>8. \A x : x \in Cases(k.hist) <=> \E i \in 1..n : i > q /\ j[i].t = "steer" /\ j[i].val = x
  <2> TAKE x
  <2>1. x \in Cases(History(p)) <=> \E i \in Applied(p) : p[i].t = "steer" /\ p[i].val = x
    BY <1>7, CasesAre
  <2>2. \A i \in Applied(p) : i \in 1..n /\ i > q
    BY <1>7 DEF Applied
  <2>3. \A i \in 1..n : i > q /\ p[i].t = "steer" => i \in Applied(p)
    BY <1>7 DEF Applied
  <2> QED
    BY <1>7, <2>1, <2>2, <2>3
<1>9. ASSUME NEW i \in 1..Len(j)
      PROVE  i \in Later(j, n) <=>
                 j[i].t = "steer" /\ j[i].batch = c /\ j[i].val \notin Cases(k.hist)
  <2>1. ASSUME i > n, j[i].t = "steer", j[i].val \in Cases(k.hist)
        PROVE  FALSE
    <3>1. PICK x \in 1..n : x > q /\ j[x].t = "steer" /\ j[x].val = j[i].val
      BY <1>8, <2>1
    <3>2. x \in 1..Len(j) /\ x < i
      BY <1>1, <2>1
    <3>3. PICK m \in x..i : j[m].t = "level_next"
      BY <1>1, <2>1, <3>1, <3>2 DEF SteersApart
    <3>4. m \in 1..Len(j) /\ m > q
      BY <1>1, <1>3, <3>1, <3>2 DEF q
    <3> QED
      BY <1>1, <1>3, <3>3, <3>4 DEF q
  <2>2. ASSUME ~(i > n), j[i].t = "steer", j[i].batch = c
        PROVE  j[i].val \in Cases(k.hist)
    <3>1. i \in 1..n
      BY <1>1, <2>2
    <3>2. CASE i > q
      BY <1>8, <2>2, <3>1, <3>2
    <3>3. CASE ~(i > q)
      <4>1. q \in 1..Len(j) /\ j[q].t = "level_next" /\ j[q].batch = Base(j) /\ q # 0
        BY <1>1, <1>3, <3>3 DEF q
      <4>2. i < q
        BY <1>1, <2>2, <3>3, <4>1
      <4>3. j[i].batch < j[q].batch
        BY <1>1, <2>2, <4>1, <4>2 DEF LevelsApart
      <4>4. j[q].batch <= c /\ j[q].batch # c
        BY <4>1 DEF q, c
      <4> QED
        BY <1>1, <2>2, <4>1, <4>3, <4>4
    <3> QED
      BY <3>2, <3>3
  <2>3. i > n => j[i].batch = c /\ j[i].t # "batch"
    BY <1>4 DEF IsBatch, c
  <2> QED
    BY <2>1, <2>2, <2>3 DEF Later
<1>10. Regrown(j, c, k.hist) = k.hist \o AtPositions(Entries(j), Later(j, n))
  <2> DEFINE B == Later(j, n)
             h == k.hist
  <2>1. B \in SUBSET (1..Len(j))
    BY DEF Later
  <2>2. \A i \in 1..Len(j) :
            i \in B <=> j[i].t = "steer" /\ j[i].batch = c /\ j[i].val \notin Cases(h)
    BY <1>9
  <2> HIDE DEF B, h
  <2>3. Regrown(j, c, h) = h \o AtPositions(Entries(j), B)
    BY <1>1, <2>1, <2>2, RegrownIs
  <2> QED
    BY <2>3 DEF B, h
<1> QED
  BY <1>7, <1>10 DEF c
=============================================================================
