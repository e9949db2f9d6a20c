---------------------------- MODULE DreamJournal ----------------------------
(***************************************************************************)
(* The journal of a dream run and the laws that read it back: which events *)
(* a restart keeps, the level, ladder, evidence and session a kept journal *)
(* describes, and which ended runs may resume (dream/resume.rs,            *)
(* dream/inbox.rs replay, the reading half of driver.rs resume).           *)
(*                                                                         *)
(* An event is [seq, t, batch, ...]; of its payload only what the laws read *)
(* is kept: a file, case, level, item or watermark in val, the verdict and *)
(* plateau streak of a batch, the outcome of an end.  A session's state is *)
(* a pure function of what was applied to it, so it is represented by      *)
(* that: its history, a sequence of batches (with the watermark and the    *)
(* evidence they ran under, and the verdict they reached) and of case      *)
(* growths.  A watermark is represented by the number of raises in its     *)
(* level that led to it.                                                   *)
(***************************************************************************)
EXTENDS Naturals, Sequences, SequencesExt, FiniteSetsExt, Positions

CONSTANTS PlateauClose   \* plateau verdicts in a row that close a level

Event(s, t, b, v) == [seq |-> s, t |-> t, batch |-> b, val |-> v,
                      verdict |-> 0, streak |-> 0, outcome |-> ""]
BatchEvent(s, b, w, v, streak) ==
    [Event(s, "batch", b, w) EXCEPT !.verdict = v, !.streak = streak]
EndEvent(s, b, outcome) == [Event(s, "end", b, 0) EXCEPT !.outcome = outcome]

Ran(w, files, v) == [kind |-> "batch", wm |-> w, ev |-> files, verdict |-> v]
Grew(c) == [kind |-> "grow", case |-> c]

IsBatch(e) == e.t = "batch"
Batches(h) == Cardinality({i \in 1..Len(h) : h[i].kind = "batch"})
(* Mutant: no case is a duplicate. *)
NoCases(h) == {}
Cases(h) == {h[i].case : i \in {k \in 1..Len(h) : h[k].kind = "grow"}}

LastBatch(j) == LET i == SelectLastInSeq(j, IsBatch) IN IF i = 0 THEN 0 ELSE j[i].batch
LastSeq(j) == IF j = <<>> THEN 0 ELSE Last(j).seq

(* Mutant: one batch too few is kept. *)
KeptShort(j, c) ==
    AtPositions(j, {i \in 1..Len(j) : j[i].t # "end" /\ (j[i].batch < c \/ c = 0)})

(* kept_at: no end, and nothing that belongs to a batch after c *)
KeptAt(j, c) == AtPositions(j, {i \in 1..Len(j) : j[i].t # "end" /\ j[i].batch <= c})

(* The level in force: the last level_next, else level 1 from batch 0. *)
LevelIndex(j) == SelectLastInSeq(j, LAMBDA e : e.t = "level_next")
Level(j) == IF LevelIndex(j) = 0 THEN 1 ELSE j[LevelIndex(j)].val
Base(j) == IF LevelIndex(j) = 0 THEN 0 ELSE j[LevelIndex(j)].batch
(* Mutant: the ladder is folded over every level. *)
EveryLevel(j) == j
ThisLevel(j) == SubSeq(j, LevelIndex(j) + 1, Len(j))

(* ladder_of, over the events of the level in force *)
Watermark(j) ==
    LET l == ThisLevel(j)
        i == SelectLastInSeq(l, LAMBDA e : e.t = "budget")
    IN  IF i = 0 THEN 0 ELSE l[i].val
Streak(j) ==
    LET l == ThisLevel(j)
        i == SelectLastInSeq(l, IsBatch)
    IN  IF i = 0 THEN 0 ELSE l[i].streak

(* inbox::replay: the evidence in force, and every file already taken.
   Mutants: rejected files count as evidence; or do not count as taken. *)
TakesFile(e) == e.t \in {"evidence", "evidence_rejected"}
Vals(j) == [i \in 1..Len(j) |-> j[i].val]
EvidenceOfAny(j) == AtPositions(Vals(j), {i \in 1..Len(j) : TakesFile(j[i])})
EvidenceUpTo(j, n) == AtPositions(Vals(j), {i \in 1..n : j[i].t = "evidence"})
Evidence(j) == EvidenceUpTo(j, Len(j))
TakenAccepted(j) == {j[i].val : i \in {k \in 1..Len(j) : j[k].t = "evidence"}}
Taken(j) == {j[i].val : i \in {k \in 1..Len(j) : TakesFile(j[k])}}
(* The boundary each file of the dropped tail was taken at *)
Deferred(j, c) == {[file |-> j[i].val, batch |-> j[i].batch] :
                      i \in {k \in 1..Len(j) : TakesFile(j[k]) /\ j[k].batch > c}}

(* The session the journal describes: what was applied since the level began *)
Applied(j) == {i \in 1..Len(j) : i > LevelIndex(j) /\ j[i].t \in {"batch", "steer"}}
Entries(j) == [i \in 1..Len(j) |-> IF j[i].t = "steer" THEN Grew(j[i].val)
                                   ELSE Ran(j[i].val, EvidenceUpTo(j, i), j[i].verdict)]
History(j) == AtPositions(Entries(j), Applied(j))

(* The state a journal leaves the run in, and those it came through *)
UpTo(j, n) == SubSeq(j, 1, n)
StateOf(j) == [batch |-> LastBatch(j), level |-> Level(j), session |-> History(j)]
PastOf(j) == {StateOf(UpTo(j, n)) : n \in 0..Len(j)}

(* Verdict 1 stands for goal (1) and exhausted (2), which both close. *)
Closes(v, streak) == v = 1 \/ (v = 3 /\ streak >= PlateauClose)

(* resumable: a journaled level is final; so is an end, unless it is one of
   the bounded stops.  "work" is a fault with code budget_exhausted, "fault"
   one with any other code. *)
MayFollow == {"stopped", "batch_cap", "budget_exhausted", "work"}
(* Mutant: only the last end decides. *)
ResumableByEnd(j) ==
    LET i == SelectLastInSeq(j, LAMBDA e : e.t = "end")
    IN  i # 0 => j[i].outcome \in MayFollow
HasLevel(j) == \E i \in 1..Len(j) : j[i].t = "level"
Resumable(j) ==
    /\ ~HasLevel(j)
    /\ LET i == SelectLastInSeq(j, LAMBDA e : e.t = "end")
       IN  i # 0 => j[i].outcome \in MayFollow
=============================================================================
