------------------------------- MODULE RunStore -------------------------------
(***************************************************************************)
(* What the directory of a dream run promises to whoever drives it.  The   *)
(* run is in one state and keeps every state it came through; a driver     *)
(* holds the run's state in memory, or that one with one batch more.  A    *)
(* driver that starts holds a state the run has been in, at most Loss      *)
(* batches back, and the last of its batch; a run whose last level closed  *)
(* is never driven on; a fork begins in a state of its original.           *)
(* DreamDriver implements this with a journal, checkpoints and a session.  *)
(*                                                                         *)
(* A state is [batch, level, session]; a session is what was applied to    *)
(* it, a sequence of entries whose kind is "batch" or "grow".              *)
(***************************************************************************)
EXTENDS Naturals, Sequences, SequencesExt

CONSTANTS Loss   \* batches that may go with a driver

VARIABLES now,    \* the state the run is in
          past,   \* the states it came through, with that one
          held,   \* the state a driver holds: {} or {state}
          closed  \* the run's last level has closed

vars == <<now, past, held, closed>>

Seed(b, l) == [batch |-> b, level |-> l, session |-> <<>>]

Init == now = Seed(0, 1) /\ past = {now} /\ held = {} /\ closed = FALSE

(* t is s with one entry more. *)
Adds(s, t, kind) ==
    /\ t.level = s.level /\ t.session # <<>>
    /\ t.session = Append(s.session, Last(t.session)) /\ Last(t.session).kind = kind

Ran(s, t) == t.batch = s.batch + 1 /\ Adds(s, t, "batch")
Grew(s, t) == /\ t.batch = s.batch /\ Adds(s, t, "grow")
              /\ \A i \in 1..Len(s.session) : s.session[i] # Last(t.session)

Enter(t) == now' = t /\ past' = past \cup {t}

(* A batch runs in memory; its line makes the state the run's. *)
RunBatch ==
    /\ held = {now} /\ ~closed
    /\ \E t \in held' : held' = {t} /\ Ran(now, t)
    /\ UNCHANGED <<now, past, closed>>

Commit ==
    /\ ~closed
    /\ \E t \in held : held = {t} /\ Ran(now, t) /\ Enter(t)
    /\ UNCHANGED <<held, closed>>

Grow ==
    /\ held = {now} /\ ~closed
    /\ \E t \in held' : held' = {t} /\ Grew(now, t) /\ Enter(t)
    /\ UNCHANGED closed

NextLevel ==
    /\ held = {now} /\ ~closed
    /\ LET t == Seed(now.batch, now.level + 1) IN held' = {t} /\ Enter(t)
    /\ UNCHANGED closed

Close ==
    /\ held = {now} /\ ~closed
    /\ closed' = TRUE
    /\ UNCHANGED <<now, past, held>>

(* The driver ends or is killed. *)
Leave ==
    /\ held # {} /\ held' = {}
    /\ UNCHANGED <<now, past, closed>>

(* s is on the way to t. *)
Before(s, t) == \/ s.level < t.level
                \/ s.level = t.level /\ IsPrefix(s.session, t.session)

BackTo(s) ==
    /\ now' = s
    /\ past' = {p \in past : p.batch <= s.batch}
    /\ \A p \in past : p.batch = s.batch => Before(p, s)

Restart ==
    /\ held = {} /\ ~closed
    /\ \E s \in past : BackTo(s) /\ now.batch <= s.batch + Loss /\ held' = {s}
    /\ UNCHANGED closed

(* From here on the run is the fork. *)
Fork ==
    /\ held' = {} /\ closed' \in BOOLEAN /\ (closed' => closed)
    /\ \E s \in past : BackTo(s)

Next == RunBatch \/ Commit \/ Grow \/ NextLevel \/ Close \/ Leave \/ Restart \/ Fork

Spec == Init /\ [][Next]_vars
=============================================================================
