------------------------------ MODULE RunWatch ------------------------------
(***************************************************************************)
(* The viewer of a dream run, src/crates/emath-tui/src/dashboard/watch.rs, *)
(* beside the driver that writes what it reads: the viewer follows         *)
(* journal.jsonl by byte offset, reads the control files whole, probes     *)
(* run.json and the driver's process, and derives the RUN badge from all   *)
(* of it.  Nothing locks a file: a driver is killed or fails in the middle *)
(* of a line, and a resume replaces the journal under the viewer.          *)
(*                                                                         *)
(* A file is counted in half lines, so that a torn line, and a line that   *)
(* was written after one, have their place in it.  A line is its seq, the  *)
(* driver that wrote it, and whether it is the end of the run.             *)
(*                                                                         *)
(* Left out: metrics.jsonl, which is followed as the journal is; step,     *)
(* grow_case and checkpoint requests; a reused pid; --overwrite; faults    *)
(* that end a run otherwise than by a failed write of the journal.         *)
(***************************************************************************)
EXTENDS Naturals, Sequences, SequencesExt, Positions

CONSTANTS Inodes,      \* numbers the file system gives to files, and gives again
          MaxSeq, MaxDrivers, MaxRequests, \* bounds: lines, drivers, requests
          Faults       \* whether writes of the journal may fail

ASSUME BoundsAssumption ==
  /\ MaxSeq \in Nat /\ MaxDrivers \in Nat /\ MaxRequests \in Nat /\ Faults \in BOOLEAN
  /\ Inodes # {}

VARIABLES files,   \* the files journal.jsonl has named, the current one last
          reqs,    \* requests.jsonl, a sequence of actions; a request's id is its place
          acks,    \* acks.jsonl, in half lines
          ended,   \* run.json says that the run ended
          drv,     \* the driver, and how many there were
          view     \* the viewer, and what its cursor stands in

vars == <<files, reqs, acks, ended, drv, view>>

-----------------------------------------------------------------------------
(* Files of lines *)

Head1(x) == [of |-> x, end |-> FALSE]
Tail1(x) == [of |-> x, end |-> TRUE]
Whole(x) == <<Head1(x), Tail1(x)>>
Written(lines) ==
  [i \in 1..2 * Len(lines) |-> IF i % 2 = 1 THEN Head1(lines[(i + 1) \div 2])
                                          ELSE Tail1(lines[i \div 2])]

(* The places up to which a reader from offset has complete lines, and those
   at which one ends that was written whole. *)
LineEnds(bytes, offset) == {i \in offset + 1..Len(bytes) : bytes[i].end}
Parses(bytes, offset, i) == i > offset + 1 /\ (i = offset + 2 \/ bytes[i - 2].end)

LastOf(offset, ends) == IF ends = {} THEN offset ELSE CHOOSE i \in ends : \A j \in ends : j <= i

(* What JournalEvent::parse and parse_objects keep of the complete lines. *)
LinePlaces(bytes, offset) == {i \in LineEnds(bytes, offset) : Parses(bytes, offset, i)}
Contents(bytes) == [i \in 1..Len(bytes) |-> bytes[i].of]
Parsed(bytes, offset) == AtPositions(Contents(bytes), LinePlaces(bytes, offset))

Broken(bytes, offset) == \E i \in LineEnds(bytes, offset) : ~Parses(bytes, offset, i)

Journal == files[Len(files)]
Write(bytes) == files' = [files EXCEPT ![Len(files)].bytes = @ \o bytes]

-----------------------------------------------------------------------------
(* The driver *)

NoLine == [seq |-> 0, by |-> 0, end |-> FALSE]
Off(n) == [pc |-> "off", no |-> n, seq |-> 0, paused |-> FALSE, ended |-> FALSE,
           acked |-> {}, seen |-> 0, answer |-> 0, outcome |-> "none", line |-> NoLine]
Up == drv.pc # "off"

Ack(id, outcome, by) == [id |-> id, outcome |-> outcome, by |-> by]
AckedIn(bytes) == {a.id : a \in ToSet(Parsed(bytes, 0))}

Init ==
  /\ files = <<[ino |-> CHOOSE i \in Inodes : TRUE, bytes |-> <<>>]>>
  /\ reqs = <<>> /\ acks = <<>> /\ ended = FALSE
  /\ drv = Off(0)
  /\ view = [pc |-> "idle", file |-> 0, handle |-> 0, ino |-> 0, offset |-> 0,
             lines |-> <<>>, fault |-> FALSE, acks |-> <<>>, reqs |-> <<>>,
             ended |-> FALSE, alive |-> "unknown", fooled |-> FALSE]

Lines == Parsed(Journal.bytes, 0)
HasEnd(lines) == \E i \in 1..Len(lines) : lines[i].end

(* Driver::open of a journal without a complete line: the start of the run is
   appended to what there is, and then Opened follows as in resume. *)
OpenFresh ==
  /\ ~Up /\ drv.no < MaxDrivers
  /\ LineEnds(Journal.bytes, 0) = {}
  /\ drv' = [Off(drv.no + 1) EXCEPT !.pc = "emit", !.acked = AckedIn(acks),
                                    !.line = [seq |-> 1, by |-> drv.no + 1, end |-> FALSE]]
  /\ UNCHANGED <<files, reqs, acks, ended, view>>

(* Driver::open of any other: the lines up to a checkpoint are written to a
   new file, which takes the name. *)
Resume ==
  /\ ~Up /\ drv.no < MaxDrivers
  /\ LineEnds(Journal.bytes, 0) # {} /\ ~Broken(Journal.bytes, 0)
  /\ \E kept \in 1..Len(Lines), ino \in Inodes \ {Journal.ino} :
       /\ \A i \in 1..kept : ~Lines[i].end
       /\ files' = Append(files, [ino |-> ino, bytes |-> Written(SubSeq(Lines, 1, kept))])
       /\ drv' = [Off(drv.no + 1) EXCEPT !.pc = "open", !.seq = kept]
  /\ UNCHANGED <<reqs, acks, ended, view>>

(* Mutant: the acknowledgements of earlier drivers are not read. *)
OpenedAnew ==
  /\ drv.pc = "open"
  /\ ended' = FALSE
  /\ drv' = [drv EXCEPT !.pc = "poll"]
  /\ UNCHANGED <<files, reqs, acks, view>>

(* The rest of fresh and of resume: run.json is no longer ended, and requests
   that have their ack are not applied again. *)
Opened ==
  /\ drv.pc = "open"
  /\ ended' = FALSE
  /\ drv' = [drv EXCEPT !.pc = "poll", !.acked = AckedIn(acks)]
  /\ UNCHANGED <<files, reqs, acks, view>>

(* A journal with a line that does not parse is refused, and run.json told. *)
Refuse ==
  /\ ~Up /\ drv.no < MaxDrivers /\ Broken(Journal.bytes, 0)
  /\ ended' = TRUE
  /\ drv' = Off(drv.no + 1)
  /\ UNCHANGED <<files, reqs, acks, view>>

(* poll_control reads the requests there are. *)
PollControl ==
  /\ drv.pc = "poll"
  /\ drv' = [drv EXCEPT !.pc = "control", !.seen = Len(reqs)]
  /\ UNCHANGED <<files, reqs, acks, ended, view>>

Waiting == {id \in 1..drv.seen : id \notin drv.acked}
NextRequest == CHOOSE id \in Waiting : \A other \in Waiting : id <= other

(* apply: after the end everything is refused; a stop emits the end before it
   is answered. *)
Apply ==
  /\ drv.pc = "control" /\ Waiting # {}
  /\ LET id == NextRequest
         action == reqs[id] IN
       drv' = CASE drv.ended -> [drv EXCEPT !.pc = "ack", !.answer = id, !.outcome = "refused"]
                [] ~drv.ended /\ action \in {"pause", "resume"} ->
                     [drv EXCEPT !.pc = "ack", !.answer = id, !.outcome = "applied",
                                 !.paused = (action = "pause")]
                [] ~drv.ended /\ action = "stop" ->
                     [drv EXCEPT !.pc = "emit", !.answer = id, !.outcome = "applied",
                                 !.line = [seq |-> drv.seq + 1, by |-> drv.no, end |-> TRUE]]
  /\ UNCHANGED <<files, reqs, acks, ended, view>>

(* run: no request is left. *)
Proceed ==
  /\ drv.pc = "control" /\ Waiting = {}
  /\ drv' = IF drv.ended THEN Off(drv.no)
            ELSE IF drv.paused THEN [drv EXCEPT !.pc = "poll"]
            ELSE [drv EXCEPT !.pc = "emit",
                             !.line = [seq |-> drv.seq + 1, by |-> drv.no, end |-> FALSE]]
  /\ UNCHANGED <<files, reqs, acks, ended, view>>

(* A line of the journal reaches the file in two halves; after the end, and
   after the first line of a fresh run, run.json is written. *)
EmitHead ==
  /\ drv.pc = "emit" /\ drv.line.seq <= MaxSeq
  /\ Write(<<Head1(drv.line)>>)
  /\ drv' = [drv EXCEPT !.pc = "emitting"]
  /\ UNCHANGED <<reqs, acks, ended, view>>

EmitTail ==
  /\ drv.pc = "emitting"
  /\ Write(<<Tail1(drv.line)>>)
  /\ drv' = [drv EXCEPT !.pc = IF drv.line.end THEN "ending"
                               ELSE IF drv.seq = 0 THEN "open" ELSE "poll",
                        !.seq = drv.line.seq]
  /\ UNCHANGED <<reqs, acks, ended, view>>

WriteEnded ==
  /\ drv.pc = "ending"
  /\ ended' = TRUE
  /\ drv' = [drv EXCEPT !.pc = "ack", !.ended = TRUE]
  /\ UNCHANGED <<files, reqs, acks, view>>

(* A write of the journal fails in the middle of a line, and record_fault
   appends the end of the run to what is there.  (A faulted run does not
   resume, but the torn line refuses that as well.) *)
EmitFails ==
  /\ Faults /\ drv.pc = "emitting"
  /\ IF Lines # <<>> /\ ~Broken(Journal.bytes, 0) /\ ~Lines[Len(Lines)].end
     THEN Write(Whole([seq |-> drv.seq + 1, by |-> drv.no, end |-> TRUE]))
     ELSE UNCHANGED files
  /\ ended' = TRUE
  /\ drv' = Off(drv.no)
  /\ UNCHANGED <<reqs, acks, view>>

(* The acknowledgement is appended in two halves as well. *)
AckHead ==
  /\ drv.pc = "ack"
  /\ acks' = Append(acks, Head1(Ack(drv.answer, drv.outcome, drv.no)))
  /\ drv' = [drv EXCEPT !.pc = "acking"]
  /\ UNCHANGED <<files, reqs, ended, view>>

AckTail ==
  /\ drv.pc = "acking"
  /\ acks' = Append(acks, Tail1(Ack(drv.answer, drv.outcome, drv.no)))
  /\ drv' = [drv EXCEPT !.pc = "control", !.acked = @ \cup {drv.answer}, !.answer = 0,
                        !.outcome = "none"]
  /\ UNCHANGED <<files, reqs, ended, view>>

Kill ==
  /\ Up
  /\ drv' = Off(drv.no)
  /\ UNCHANGED <<files, reqs, acks, ended, view>>

Driver == \/ OpenFresh \/ Resume \/ Opened \/ Refuse \/ PollControl \/ Apply \/ Proceed
          \/ EmitHead \/ EmitTail \/ WriteEnded \/ EmitFails \/ AckHead \/ AckTail \/ Kill

-----------------------------------------------------------------------------
(* The viewer *)

(* send_request, by this viewer or another. *)
Send(action) ==
  /\ Len(reqs) < MaxRequests
  /\ reqs' = Append(reqs, action)
  /\ UNCHANGED <<files, acks, ended, drv, view>>

(* tail_lines opens the file before it looks at it. *)
Open ==
  /\ view.pc = "idle"
  /\ view' = [view EXCEPT !.pc = "tail", !.handle = Len(files)]
  /\ UNCHANGED <<files, reqs, acks, ended, drv>>

(* Mutant: a file that is no shorter than before is the one before. *)
ReplacedBySize(handle) == Len(files[handle].bytes) < view.offset

(* Whether the opened file is another than the one the offset is in. *)
Replaced(handle) ==
  \/ view.offset > 0 /\ files[handle].ino # view.ino
  \/ Len(files[handle].bytes) < view.offset

(* Another file under the number of the one before. *)
Disguised(handle) ==
  view.offset > 0 /\ handle # view.file /\ files[handle].ino = view.ino

(* Mutant: a line that is still being written is taken for one. *)
TailAll ==
  /\ view.pc = "tail"
  /\ LET file == files[view.handle]
         replaced == Replaced(view.handle)
         offset == IF replaced THEN 0 ELSE view.offset IN
       view' = [view EXCEPT !.pc = "acks", !.ino = file.ino, !.file = view.handle,
                            !.offset = Len(file.bytes),
                            !.lines = (IF replaced THEN <<>> ELSE @) \o Parsed(file.bytes, offset),
                            !.fault = Broken(file.bytes, offset) \/ (~replaced /\ @),
                            !.fooled = ~replaced /\ (@ \/ Disguised(view.handle))]
  /\ UNCHANGED <<files, reqs, acks, ended, drv>>

(* tail_lines and the fold: the complete lines after the offset, or those of
   the whole file when it is another.  fooled: the cursor went on in a disguised one. *)
Tail_ ==
  /\ view.pc = "tail"
  /\ LET file == files[view.handle]
         replaced == Replaced(view.handle)
         offset == IF replaced THEN 0 ELSE view.offset IN
       view' = [view EXCEPT !.pc = "acks", !.ino = file.ino, !.file = view.handle,
                            !.offset = LastOf(offset, LineEnds(file.bytes, offset)),
                            !.lines = (IF replaced THEN <<>> ELSE @) \o Parsed(file.bytes, offset),
                            !.fault = Broken(file.bytes, offset) \/ (~replaced /\ @),
                            !.fooled = ~replaced /\ (@ \/ Disguised(view.handle))]
  /\ UNCHANGED <<files, reqs, acks, ended, drv>>

ReadAcks ==
  /\ view.pc = "acks"
  /\ view' = [view EXCEPT !.pc = "requests", !.acks = Parsed(acks, 0)]
  /\ UNCHANGED <<files, reqs, acks, ended, drv>>

ReadRequests ==
  /\ view.pc = "requests"
  /\ view' = [view EXCEPT !.pc = "idle", !.reqs = reqs]
  /\ UNCHANGED <<files, reqs, acks, ended, drv>>

(* refresh *)
Refresh ==
  /\ view.pc = "idle"
  /\ view' = [view EXCEPT !.ended = ended, !.alive = IF Up THEN "yes" ELSE "no"]
  /\ UNCHANGED <<files, reqs, acks, ended, drv>>

Viewer == Open \/ Tail_ \/ ReadAcks \/ ReadRequests \/ Refresh

Actions == {"pause", "resume", "stop"}
Next == Driver \/ Viewer \/ (\E action \in Actions : Send(action))

Spec == Init /\ [][Next]_vars

Polls == Open \/ Tail_ \/ ReadAcks \/ ReadRequests
FairSpec == Spec /\ WF_vars(Polls) /\ SF_vars(Refresh)

-----------------------------------------------------------------------------
(* derive_badge *)

(* Mutant: a pause counts once it is requested. *)
LastOnRequest(as, rs, action) ==
  LastOf(0, {i \in 1..Len(rs) : rs[i] = action})

(* The last applied ack of an action, 0 for none. *)
LastApplied(as, rs, action) ==
  LastOf(0, {i \in 1..Len(as) : /\ as[i].outcome = "applied"
                                /\ as[i].id <= Len(rs) /\ rs[as[i].id] = action})

Unacked(as, rs, action) ==
  \E id \in 1..Len(rs) : rs[id] = action /\ \A i \in 1..Len(as) : as[i].id # id

Badge(v) ==
  IF HasEnd(v.lines) \/ v.ended THEN "Ended"
  ELSE IF v.alive = "unknown" THEN "Starting"
  ELSE IF v.alive = "no" THEN "Stalled"
  ELSE IF LastApplied(v.acks, v.reqs, "pause") > LastApplied(v.acks, v.reqs, "resume") THEN "Paused"
  ELSE IF Unacked(v.acks, v.reqs, "stop") THEN "Stopping"
  ELSE IF Unacked(v.acks, v.reqs, "pause") THEN "Pausing"
  ELSE IF v.lines = <<>> THEN "Starting" ELSE "Running"

-----------------------------------------------------------------------------
(* What the viewer shows of the journal is the lines of one file, up to its
   offset: a line that is still being written is not shown, none is shown
   twice or skipped, and a resume that replaces the file leaves nothing of the
   one before.  A complete line that does not parse is a fault the viewer
   reports (tail_lines, poll).  Only a file that has the inode number of the
   one it follows and is no shorter escapes it. *)
ViewIsOneFile ==
  view.file # 0 /\ ~view.fooled =>
    LET read == SubSeq(files[view.file].bytes, 1, view.offset) IN
      view.lines = Parsed(read, 0) /\ view.fault = Broken(read, 0)

(* No request is answered twice, whatever was torn and whichever driver
   answered (poll_control, resume). *)
AnsweredOnce ==
  LET answers == Parsed(acks, 0) IN
    \A i, j \in 1..Len(answers) : answers[i].id = answers[j].id => i = j

(* The viewer has read all there is. *)
Current ==
  /\ view.file = Len(files) /\ view.lines = Lines
  /\ view.acks = Parsed(acks, 0) /\ view.reqs = reqs
  /\ view.ended = ended /\ view.alive = (IF Up THEN "yes" ELSE "no")

Settled == view.pc = "idle" /\ Current /\ ~view.fooled

(* The last applied pause or resume is of the driver that runs, and no
   acknowledgement was torn. *)
PauseIsOfThisDriver ==
  /\ ~Broken(acks, 0)
  /\ LET as == Parsed(acks, 0)
         last == LastOf(0, {i \in 1..Len(as) : as[i].outcome = "applied"
                                              /\ reqs[as[i].id] \in {"pause", "resume"}}) IN
       last # 0 => as[last].by = drv.no

(* The badge of a viewer that has read all there is tells the driver's state,
   as long as the pause it knows of is this driver's (derive_badge). *)
BadgeTruth ==
  Settled /\ drv.pc \in {"off", "poll"} /\ PauseIsOfThisDriver =>
    LET over == ended \/ HasEnd(Lines) IN
      /\ Badge(view) = "Ended" <=> over
      /\ Badge(view) = "Stalled" <=> ~Up /\ ~over
      /\ Badge(view) = "Paused" <=> drv.paused /\ ~over
      /\ Badge(view) \in {"Running", "Starting"} =>
           \A id \in 1..Len(reqs) : reqs[id] \in {"pause", "stop"} => id \in drv.acked

(* Once nothing is written any more the viewer shows all there is, for good. *)
ViewCatchesUp == <>[](view.fooled \/ Current)

=============================================================================
