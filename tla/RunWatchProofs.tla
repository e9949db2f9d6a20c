---------------------------- MODULE RunWatchProofs ----------------------------
(***************************************************************************)
(* The viewer shows the complete lines of one file up to its offset, no    *)
(* request is answered twice, and the badge is true: theorems of RunWatch  *)
(* for every number of drivers, requests, lines and inodes, with or        *)
(* without failing writes.                                                 *)
(***************************************************************************)
EXTENDS RunWatch, PositionProofs

-----------------------------------------------------------------------------
(* The invariant *)

Half(S) == [of : S, end : BOOLEAN]
Line == [seq : Nat, by : Nat, end : BOOLEAN]
Outcomes == {"none", "applied", "refused"}
AckLine == [id : Nat, outcome : Outcomes, by : Nat]
File == [ino : Inodes, bytes : Seq(Half(Line))]

DriverType ==
  [pc : {"off", "open", "poll", "control", "emit", "emitting", "ending", "ack", "acking"},
   no : Nat, seq : Nat, paused : BOOLEAN, ended : BOOLEAN, acked : SUBSET Nat,
   seen : Nat, answer : Nat, outcome : Outcomes, line : Line]
ViewType ==
  [pc : {"idle", "tail", "acks", "requests"}, file : Nat, handle : Nat,
   ino : Inodes \cup {0}, offset : Nat, lines : Seq(Line), fault : BOOLEAN,
   acks : Seq(AckLine), reqs : Seq(Actions), ended : BOOLEAN,
   alive : {"unknown", "yes", "no"}, fooled : BOOLEAN]

TypeOK ==
  /\ files \in Seq(File) /\ files # <<>>
  /\ reqs \in Seq(Actions)
  /\ acks \in Seq(Half(AckLine))
  /\ ended \in BOOLEAN
  /\ drv \in DriverType
  /\ view \in ViewType

(* No line ends where none began. *)
Framed(bytes) == \A i \in 1..Len(bytes) : bytes[i].end => i > 1 /\ ~bytes[i - 1].end
Torn(bytes) == bytes # <<>> /\ ~bytes[Len(bytes)].end

FilesHold ==
  /\ \A f \in 1..Len(files) : Framed(files[f].bytes)
  /\ drv.pc = "emitting" => Torn(Journal.bytes)
  /\ Framed(acks)
  /\ drv.pc = "acking" => Torn(acks)

(* The cursor stands at the end of a line, and what was read is what is before it. *)
AtLineEnd(bytes, offset) == offset = 0 \/ bytes[offset].end
ReadUpTo(bytes, offset, lines, fault) ==
  /\ offset \in 0..Len(bytes) /\ AtLineEnd(bytes, offset)
  /\ lines = Parsed(SubSeq(bytes, 1, offset), 0)
  /\ fault = Broken(SubSeq(bytes, 1, offset), 0)

ViewHolds ==
  /\ view.pc = "tail" => view.handle \in 1..Len(files)
  /\ view.file \in 0..Len(files)
  /\ view.file = 0 => view.offset = 0 /\ view.lines = <<>> /\ ~view.fault /\ ~view.fooled
  /\ view.file # 0 /\ ~view.fooled =>
       ReadUpTo(files[view.file].bytes, view.offset, view.lines, view.fault)

(* A request is answered by the driver that has it in hand, and no other ack
   of it can be read. *)
InHand ==
  drv.pc \in {"ack", "acking", "ending"} \/ (drv.pc \in {"emit", "emitting"} /\ drv.line.end)

Answers == Parsed(acks, 0)
AcksHold ==
  /\ AnsweredOnce
  /\ \A i \in 1..Len(Answers) : Answers[i].id \in 1..Len(reqs) /\ Answers[i].by <= drv.no
  /\ drv.pc \notin {"off", "open"} =>
       \A i \in 1..Len(Answers) : Answers[i].id \in drv.acked
  /\ drv.seen <= Len(reqs)
  /\ InHand => drv.answer \in 1..Len(reqs) /\ drv.answer \notin drv.acked

(* The pause the driver is in is the last it acknowledged, unless it is about
   to acknowledge it, or an ack of it was torn. *)
OfPause(ack) == ack.outcome = "applied" /\ reqs[ack.id] \in {"pause", "resume"}
Mine == {i \in 1..Len(Answers) : Answers[i].by = drv.no /\ OfPause(Answers[i])}
Now == Ack(drv.answer, drv.outcome, drv.no)
PauseTold ==
  \/ Mine = {} /\ drv.paused = FALSE
  \/ \E i \in Mine : /\ \A k \in Mine : k <= i
                    /\ drv.paused = (reqs[Answers[i].id] = "pause")

PauseHolds ==
  /\ drv.pc = "off" => drv.paused = FALSE
  /\ InHand /\ drv.pc \notin {"ack", "acking"} => reqs[drv.answer] = "stop"
  /\ ~Broken(acks, 0) =>
       IF drv.pc \in {"ack", "acking"} /\ OfPause(Now)
       THEN drv.paused = (reqs[drv.answer] = "pause")
       ELSE drv.pc # "off" => PauseTold

IInv == TypeOK /\ FilesHold /\ ViewHolds /\ AcksHold /\ PauseHolds

-----------------------------------------------------------------------------
(* Files of lines *)

(* The whole lines of a file are lines. *)
LEMMA ContentsType ==
  ASSUME NEW S, NEW b \in Seq(Half(S))
  PROVE  /\ Contents(b) \in Seq(S) /\ Len(Contents(b)) = Len(b) /\ Len(b) \in Nat
         /\ \A i \in 1..Len(b) : Contents(b)[i] = b[i].of /\ b[i].end \in BOOLEAN
                                 /\ b[i] \in Half(S)
<1>1. Len(b) \in Nat /\ \A i \in 1..Len(b) : b[i] \in Half(S)
  OBVIOUS
<1>2. \A x \in Half(S) : x.of \in S /\ x.end \in BOOLEAN
  BY DEF Half
<1>3. \A i \in 1..Len(b) : b[i].of \in S /\ b[i].end \in BOOLEAN
  BY <1>1, <1>2
<1> QED
  BY <1>1, <1>3 DEF Contents

(* Where the complete lines of a file are *)
LEMMA PlacesAre ==
  ASSUME NEW S, NEW b \in Seq(Half(S)), NEW o \in Nat
  PROVE  /\ LinePlaces(b, o) \in SUBSET (1..Len(b))
         /\ \A i \in 1..Len(b) :
              i \in LinePlaces(b, o) <=> o < i /\ b[i].end /\ Parses(b, o, i)
<1>1. Len(b) \in Nat
  OBVIOUS
<1>2. \A i : i \in o + 1..Len(b) <=> i \in 1..Len(b) /\ o < i
  BY <1>1
<1> QED
  BY <1>2 DEF LinePlaces, LineEnds

(* What is read of a file are its lines. *)
LEMMA ParsedType ==
  ASSUME NEW S, NEW b \in Seq(Half(S)), NEW o \in Nat
  PROVE  Parsed(b, o) \in Seq(S)
<1>1. LinePlaces(b, o) \in SUBSET (1..Len(Contents(b)))
  BY PlacesAre, ContentsType
<1>2. Contents(b) \in Seq(S)
  BY ContentsType
<1> QED
  BY <1>1, <1>2, AtPlaces DEF Parsed

(* Nothing is read of an empty file. *)
LEMMA ParsedNothing ==
  ASSUME NEW b, b = <<>>
  PROVE  Parsed(b, 0) = <<>> /\ Broken(b, 0) = FALSE
<1>1. LineEnds(b, 0) = {}
  <2>1. Len(b) = 0
    OBVIOUS
  <2>2. 0 + 1..Len(b) = {}
    BY <2>1
  <2> QED
    BY <2>2 DEF LineEnds
<1>2. LinePlaces(b, 0) = {}
  BY <1>1 DEF LinePlaces
<1> QED
  BY <1>1, <1>2, AtNone DEF Parsed, Broken

(* A half line after a file: a line is added, or lost, or not yet complete. *)
LEMMA ParsedAppend ==
  ASSUME NEW S, NEW b \in Seq(Half(S)), NEW x \in Half(S)
  PROVE  LET c == Append(b, x)
             whole == Parses(c, 0, Len(c)) IN
           /\ Parsed(c, 0) = IF x.end /\ whole THEN Append(Parsed(b, 0), x.of)
                                               ELSE Parsed(b, 0)
           /\ Broken(c, 0) <=> Broken(b, 0) \/ (x.end /\ ~whole)
<1> DEFINE n == Len(b)
           c == Append(b, x)
<1>1. /\ n \in Nat /\ c \in Seq(Half(S)) /\ Len(c) = n + 1 /\ c[n + 1] = x
      /\ \A i \in 1..n : c[i] = b[i] /\ i \in 1..Len(c)
  OBVIOUS
<1>2. \A i \in 1..n : Parses(c, 0, i) <=> Parses(b, 0, i)
  <2> TAKE i \in 1..n
  <2>1. i > 1 /\ i # 2 => i - 2 \in 1..n
    BY <1>1
  <2>2. i > 0 + 1 /\ i # 0 + 2 => c[i - 2] = b[i - 2]
    BY <1>1, <2>1
  <2> HIDE DEF c, n
  <2> QED
    BY <2>2 DEF Parses
<1>3. /\ LinePlaces(b, 0) \in SUBSET (1..n)
      /\ \A i \in 1..n : i \in LinePlaces(b, 0) <=> b[i].end /\ Parses(b, 0, i)
  <2>1. \A i \in 1..n : 0 < i
    BY <1>1
  <2> QED
    BY <2>1, PlacesAre
<1>4. /\ LinePlaces(c, 0) \in SUBSET (1..Len(c))
      /\ \A i \in 1..Len(c) : i \in LinePlaces(c, 0) <=> c[i].end /\ Parses(c, 0, i)
  <2> HIDE DEF c
  <2>1. \A i \in 1..Len(c) : 0 < i
    BY <1>1
  <2> QED
    BY <1>1, <2>1, PlacesAre
<1>5. 1..Len(c) = (1..n) \cup {n + 1}
  <2> HIDE DEF c
  <2>1. n \in Nat /\ Len(c) = n + 1
    BY <1>1
  <2> HIDE DEF n
  <2> QED
    BY <2>1
<1> HIDE DEF c, n
<1>6. LinePlaces(c, 0) = IF x.end /\ Parses(c, 0, Len(c)) THEN LinePlaces(b, 0) \cup {n + 1}
                                                        ELSE LinePlaces(b, 0)
  <2>1. \A i \in 1..n : i \in LinePlaces(c, 0) <=> i \in LinePlaces(b, 0)
    BY <1>1, <1>2, <1>3, <1>4
  <2>2. n + 1 \in LinePlaces(c, 0) <=> x.end /\ Parses(c, 0, Len(c))
    BY <1>1, <1>4, <1>5
  <2>3. \A i \in LinePlaces(c, 0) : i \in 1..n \/ i = n + 1
    BY <1>4, <1>5
  <2>4. \A i \in LinePlaces(b, 0) : i \in 1..n
    BY <1>3
  <2>5. CASE x.end /\ Parses(c, 0, Len(c))
    <3>1. LinePlaces(c, 0) = LinePlaces(b, 0) \cup {n + 1}
      BY <2>1, <2>2, <2>3, <2>4, <2>5
    <3> QED
      BY <2>5, <3>1
  <2>6. CASE ~(x.end /\ Parses(c, 0, Len(c)))
    <3>1. LinePlaces(c, 0) = LinePlaces(b, 0)
      BY <2>1, <2>2, <2>3, <2>4, <2>6
    <3> QED
      BY <2>6, <3>1
  <2> QED
    BY <2>5, <2>6
<1>7. /\ Contents(b) \in Seq(S) /\ Len(Contents(b)) = n
      /\ \A i \in 1..n : Contents(b)[i] = b[i].of
  BY ContentsType DEF n
<1>8. /\ Contents(c) \in Seq(S) /\ Len(Contents(c)) = n + 1
      /\ \A i \in 1..Len(c) : Contents(c)[i] = c[i].of
  BY <1>1, ContentsType
<1>9. AtPositions(Contents(c), LinePlaces(b, 0)) = Parsed(b, 0)
  <2>1. Places(LinePlaces(b, 0), n)
    BY <1>1, <1>3 DEF Places
  <2>2. \A i \in LinePlaces(b, 0) : Contents(c)[i] = Contents(b)[i]
    BY <1>1, <1>3, <1>7, <1>8
  <2> QED
    BY <2>1, <2>2, AtSame DEF Parsed
<1>10. ASSUME x.end, Parses(c, 0, Len(c)) PROVE Parsed(c, 0) = Append(Parsed(b, 0), x.of)
  <2> DEFINE T == {n + 1}
             L == LinePlaces(b, 0)
  <2>1. L \in SUBSET (1..Len(Contents(c))) /\ T \in SUBSET (1..Len(Contents(c)))
    BY <1>1, <1>3, <1>5, <1>8
  <2>2. Before(L, T)
    <3>1. \A i \in 1..n : i < n + 1
      BY <1>1
    <3> QED
      BY <1>3, <3>1 DEF Before
  <2>3. AtPositions(Contents(c), T) = <<x.of>>
    <3>1. n + 1 \in 1..Len(Contents(c)) /\ Contents(c)[n + 1] = x.of
      BY <1>1, <1>5, <1>8
    <3> QED
      BY <1>8, <3>1, AtOne
  <2>4. LinePlaces(c, 0) = L \cup T
    BY <1>6, <1>10
  <2> HIDE DEF L, T
  <2>5. AtPositions(Contents(c), L \cup T)
          = AtPositions(Contents(c), L) \o AtPositions(Contents(c), T)
    BY <1>8, <2>1, <2>2, AtUnion
  <2>6. Parsed(c, 0) = Parsed(b, 0) \o <<x.of>>
    BY <1>9, <2>3, <2>4, <2>5 DEF Parsed, L
  <2>7. Parsed(b, 0) \in Seq(S) /\ x.of \in S
    <3>1. x.of \in S
      BY DEF Half
    <3> QED
      BY <3>1, ParsedType
  <2> QED
    BY <2>6, <2>7
<1>11. ASSUME ~(x.end /\ Parses(c, 0, Len(c))) PROVE Parsed(c, 0) = Parsed(b, 0)
  BY <1>6, <1>9, <1>11 DEF Parsed
<1>12. Broken(c, 0) <=> Broken(b, 0) \/ (x.end /\ ~Parses(c, 0, Len(c)))
  <2>1. LineEnds(b, 0) = {i \in 1..n : b[i].end}
    BY DEF LineEnds, n
  <2>2. LineEnds(c, 0) = {i \in 1..Len(c) : c[i].end}
    BY DEF LineEnds
  <2> QED
    BY <1>1, <1>2, <1>5, <2>1, <2>2 DEF Broken
<1> QED
  BY <1>10, <1>11, <1>12 DEF c

(* The last of the line ends, if there is one *)
LEMMA LastOfIs ==
  ASSUME NEW n \in Nat, NEW o \in 0..n, NEW E \in SUBSET (1..n)
  PROVE  LET p == LastOf(o, E) IN
           IF E = {} THEN p = o ELSE p \in E /\ \A i \in E : i <= p
<1>1. CASE E = {}
  BY <1>1 DEF LastOf
<1>2. CASE E # {}
  <2>1. \A i \in E : i \in 0..n
    OBVIOUS
  <2>2. E \in SUBSET (0..n)
    BY <2>1
  <2>3. \E i \in E : \A k \in E : k <= i
    BY <1>2, <2>2, Greatest
  <2> QED
    BY <1>2, <2>3 DEF LastOf
<1> QED
  BY <1>1, <1>2

(* The complete lines up to a line end *)
PlacesUpTo(b, q) == {i \in 1..q : b[i].end /\ i > 1 /\ (i = 2 \/ b[i - 2].end)}
BreaksUpTo(b, q) == \E i \in 1..q : b[i].end /\ ~(i > 1 /\ (i = 2 \/ b[i - 2].end))

(* What is read of the beginning of a file, by the places it has in the whole. *)
LEMMA ReadFromStart ==
  ASSUME NEW S, NEW b \in Seq(Half(S)), NEW q \in 0..Len(b)
  PROVE  /\ Parsed(SubSeq(b, 1, q), 0) = AtPositions(Contents(b), PlacesUpTo(b, q))
         /\ Broken(SubSeq(b, 1, q), 0) <=> BreaksUpTo(b, q)
<1> DEFINE c == SubSeq(b, 1, q)
<1>1. /\ Len(b) \in Nat /\ q \in Nat /\ q <= Len(b)
      /\ \A i \in 1..q : i \in 1..Len(b)
  OBVIOUS
<1>2. c \in Seq(Half(S)) /\ Len(c) = q /\ \A i \in 1..q : c[i] = b[i]
  BY <1>1
<1> HIDE DEF c
<1>3. ASSUME NEW i \in 1..q
      PROVE  Parses(c, 0, i) <=> i > 1 /\ (i = 2 \/ b[i - 2].end)
  <2>1. i > 1 /\ i # 2 => i - 2 \in 1..q
    BY <1>1
  <2>2. i > 1 /\ i # 2 => c[i - 2] = b[i - 2]
    BY <1>2, <2>1
  <2> QED
    BY <2>2 DEF Parses
<1>4. LineEnds(c, 0) = {i \in 1..q : b[i].end}
  BY <1>2 DEF LineEnds
<1>5. LinePlaces(c, 0) = PlacesUpTo(b, q)
  BY <1>3, <1>4 DEF LinePlaces, PlacesUpTo
<1>6. Broken(c, 0) <=> BreaksUpTo(b, q)
  BY <1>3, <1>4 DEF Broken, BreaksUpTo
<1>7. Places(PlacesUpTo(b, q), q)
  BY <1>1 DEF Places, PlacesUpTo
<1>8. \A i \in 1..q : Contents(c)[i] = Contents(b)[i]
  BY <1>1, <1>2, ContentsType
<1>9. \A i \in PlacesUpTo(b, q) : Contents(c)[i] = Contents(b)[i]
  BY <1>8 DEF PlacesUpTo
<1>10. Parsed(c, 0) = AtPositions(Contents(b), PlacesUpTo(b, q))
  BY <1>5, <1>7, <1>9, AtSame DEF Parsed
<1> QED
  BY <1>6, <1>10 DEF c

(* Reading on from a line end gives what reading it all at once does. *)
LEMMA ReadOn ==
  ASSUME NEW S, NEW b \in Seq(Half(S)), Framed(b), NEW o \in 0..Len(b), AtLineEnd(b, o)
  PROVE  LET p == LastOf(o, LineEnds(b, o)) IN
           /\ p \in 0..Len(b) /\ AtLineEnd(b, p)
           /\ Parsed(SubSeq(b, 1, p), 0) = Parsed(SubSeq(b, 1, o), 0) \o Parsed(b, o)
           /\ Broken(SubSeq(b, 1, p), 0) <=> Broken(SubSeq(b, 1, o), 0) \/ Broken(b, o)
<1> DEFINE n == Len(b)
           E == LineEnds(b, o)
           p == LastOf(o, E)
<1>1. n \in Nat /\ o \in Nat /\ o <= n
  OBVIOUS
<1>2. E \in SUBSET (1..n) /\ \A i \in 1..n : i \in E <=> o < i /\ b[i].end
  BY <1>1 DEF LineEnds
<1>3. IF E = {} THEN p = o ELSE p \in E /\ \A i \in E : i <= p
  <2> HIDE DEF E
  <2> QED
    BY <1>1, <1>2, LastOfIs
<1> HIDE DEF E, p
<1>4. p \in 0..n /\ AtLineEnd(b, p) /\ o <= p /\ \A i \in E : i <= p
  <2>1. \A i \in 1..n : i \in 0..n
    BY <1>1
  <2>2. CASE E = {}
    BY <1>1, <1>3, <2>2
  <2>3. CASE E # {}
    <3>1. p \in E /\ \A i \in E : i <= p
      BY <1>3, <2>3
    <3>2. p \in 1..n /\ o < p /\ b[p].end
      BY <1>2, <3>1
    <3>3. o <= p
      BY <1>1, <3>2
    <3> QED
      BY <2>1, <3>1, <3>2, <3>3 DEF AtLineEnd
  <2> QED
    BY <2>2, <2>3
<1>5. ASSUME NEW i \in 1..n, o < i, b[i].end
      PROVE  Parses(b, o, i) <=> i > 1 /\ (i = 2 \/ b[i - 2].end)
  <2>1. i > 1 /\ ~b[i - 1].end
    BY <1>5 DEF Framed
  <2>2. i # o + 1
    <3>1. CASE o = 0
      BY <1>1, <2>1, <3>1
    <3>2. CASE o # 0
      <4>1. b[o].end
        BY <3>2 DEF AtLineEnd
      <4>2. i = o + 1 => i - 1 = o
        BY <1>1
      <4> QED
        BY <2>1, <4>1, <4>2
    <3> QED
      BY <3>1, <3>2
  <2>3. i > o + 1
    BY <1>1, <1>5, <2>2
  <2>4. i = o + 2 => (i = 2 \/ b[i - 2].end)
    <3>1. i = o + 2 => i - 2 = o
      BY <1>1
    <3> QED
      BY <3>1 DEF AtLineEnd
  <2>5. i = 2 => i = o + 2
    BY <1>1, <2>3
  <2> QED
    BY <2>1, <2>3, <2>4, <2>5 DEF Parses
<1>6. PlacesUpTo(b, p) = PlacesUpTo(b, o) \cup LinePlaces(b, o)
  <2>1. \A i \in 1..p : i \in 1..n /\ (i \in 1..o \/ o < i)
    BY <1>1, <1>4
  <2>2. \A i \in 1..o : i \in 1..p
    BY <1>1, <1>4
  <2>3. \A i \in LinePlaces(b, o) : i \in E /\ i \in 1..n /\ i \in 1..p /\ Parses(b, o, i)
    BY <1>1, <1>2, <1>4 DEF LinePlaces, E
  <2>4. ASSUME NEW i \in 1..p, o < i
        PROVE  i \in PlacesUpTo(b, p) <=> i \in LinePlaces(b, o)
    <3>1. i \in 1..n
      BY <2>1
    <3>2. CASE b[i].end
      <4>1. i \in E
        BY <1>2, <2>4, <3>1, <3>2
      <4> QED
        BY <1>5, <2>4, <3>1, <3>2, <4>1 DEF PlacesUpTo, LinePlaces, E
    <3>3. CASE ~b[i].end
      BY <1>2, <2>3, <3>3 DEF PlacesUpTo
    <3> QED
      BY <3>2, <3>3
  <2>5. \A i \in 1..o : i \in PlacesUpTo(b, p) <=> i \in PlacesUpTo(b, o)
    BY <2>2 DEF PlacesUpTo
  <2>6. \A i \in LinePlaces(b, o) : o < i
    BY <1>2, <2>3
  <2>7. \A i \in PlacesUpTo(b, p) : i \in 1..p
    BY DEF PlacesUpTo
  <2>8. \A i \in PlacesUpTo(b, o) : i \in 1..o
    BY DEF PlacesUpTo
  <2> QED
    BY <2>1, <2>2, <2>3, <2>4, <2>5, <2>6, <2>7, <2>8
<1>7. BreaksUpTo(b, p) <=> BreaksUpTo(b, o) \/ Broken(b, o)
  <2>1. \A i \in 1..p : i \in 1..n /\ (i \in 1..o \/ o < i)
    BY <1>1, <1>4
  <2>2. \A i \in 1..o : i \in 1..p
    BY <1>1, <1>4
  <2>3. \A i \in E : i \in 1..n /\ i \in 1..p /\ o < i /\ b[i].end
    BY <1>1, <1>2, <1>4
  <2>4. BreaksUpTo(b, p) => BreaksUpTo(b, o) \/ Broken(b, o)
    <3>1. SUFFICES ASSUME NEW i \in 1..p, b[i].end, ~(i > 1 /\ (i = 2 \/ b[i - 2].end)), o < i
                   PROVE  Broken(b, o)
      BY <2>1 DEF BreaksUpTo
    <3>2. i \in E /\ ~Parses(b, o, i)
      BY <1>2, <1>5, <2>1, <3>1
    <3> QED
      BY <3>2 DEF Broken, E
  <2>5. Broken(b, o) => BreaksUpTo(b, p)
    <3>1. SUFFICES ASSUME NEW i \in E, ~Parses(b, o, i)
                   PROVE  BreaksUpTo(b, p)
      BY DEF Broken, E
    <3>2. i \in 1..p /\ b[i].end /\ ~(i > 1 /\ (i = 2 \/ b[i - 2].end))
      BY <1>5, <2>3, <3>1
    <3> QED
      BY <3>2 DEF BreaksUpTo
  <2>6. BreaksUpTo(b, o) => BreaksUpTo(b, p)
    BY <2>2 DEF BreaksUpTo
  <2> QED
    BY <2>4, <2>5, <2>6
<1>8. Parsed(SubSeq(b, 1, p), 0) = Parsed(SubSeq(b, 1, o), 0) \o Parsed(b, o)
  <2> DEFINE A == PlacesUpTo(b, o)
             B == LinePlaces(b, o)
             j == Contents(b)
  <2>1. j \in Seq(S) /\ Len(j) = n
    BY ContentsType DEF n
  <2>2. A \in SUBSET (1..Len(j)) /\ B \in SUBSET (1..Len(j))
    <3>1. \A i \in 1..o : i \in 1..n
      BY <1>1
    <3> QED
      BY <1>1, <2>1, <3>1, PlacesAre DEF PlacesUpTo, n
  <2>3. Before(A, B)
    <3>1. \A i \in 1..o : \A k \in E : i < k
      BY <1>1, <1>2
    <3> QED
      BY <3>1 DEF Before, PlacesUpTo, LinePlaces, E
  <2>4. Parsed(SubSeq(b, 1, p), 0) = AtPositions(j, PlacesUpTo(b, p))
    BY <1>4, ReadFromStart DEF n
  <2>5. Parsed(SubSeq(b, 1, o), 0) = AtPositions(j, A)
    BY ReadFromStart
  <2>6. Parsed(b, o) = AtPositions(j, B)
    BY DEF Parsed
  <2> HIDE DEF A, B, j
  <2>7. AtPositions(j, A \cup B) = AtPositions(j, A) \o AtPositions(j, B)
    BY <2>1, <2>2, <2>3, AtUnion
  <2>8. PlacesUpTo(b, p) = A \cup B
    BY <1>6 DEF A, B
  <2> QED
    BY <2>4, <2>5, <2>6, <2>7, <2>8
<1>9. Broken(SubSeq(b, 1, p), 0) <=> Broken(SubSeq(b, 1, o), 0) \/ Broken(b, o)
  <2>1. Broken(SubSeq(b, 1, p), 0) <=> BreaksUpTo(b, p)
    BY <1>4, ReadFromStart DEF n
  <2>2. Broken(SubSeq(b, 1, o), 0) <=> BreaksUpTo(b, o)
    BY ReadFromStart
  <2> QED
    BY <1>7, <2>1, <2>2
<1> QED
  BY <1>4, <1>8, <1>9 DEF p, E, n

(* A resumed journal is whole lines. *)
LEMMA WrittenIs ==
  ASSUME NEW S, NEW lines \in Seq(S)
  PROVE  Written(lines) \in Seq(Half(S)) /\ Framed(Written(lines))
<1> DEFINE n == Len(lines)
           b == Written(lines)
<1>1. n \in Nat /\ \A i \in 1..n : lines[i] \in S
  OBVIOUS
<1>2. \A x \in S : Head1(x) \in Half(S) /\ Tail1(x) \in Half(S)
  BY DEF Head1, Tail1, Half
<1>3. ASSUME NEW i \in 1..2 * n
      PROVE  /\ i % 2 = 1 => (i + 1) \div 2 \in 1..n
             /\ i % 2 # 1 => i \div 2 \in 1..n /\ i > 1 /\ i - 1 \in 1..2 * n /\ (i - 1) % 2 = 1
  BY <1>1
<1>4. \A i \in 1..2 * n : b[i] = IF i % 2 = 1 THEN Head1(lines[(i + 1) \div 2])
                                            ELSE Tail1(lines[i \div 2])
  BY DEF Written
<1>5. \A i \in 1..2 * n : b[i] \in Half(S)
  BY <1>1, <1>2, <1>3, <1>4
<1>6. b \in Seq(Half(S)) /\ Len(b) = 2 * n
  <2>1. 2 * n \in Nat
    BY <1>1
  <2> QED
    BY <1>5, <2>1 DEF Written
<1>7. ASSUME NEW i \in 1..2 * n PROVE b[i].end <=> i % 2 # 1
  <2> HIDE DEF b
  <2>1. CASE i % 2 = 1
    <3>1. b[i] = Head1(lines[(i + 1) \div 2])
      BY <1>4, <2>1
    <3> QED
      BY <2>1, <3>1 DEF Head1
  <2>2. CASE i % 2 # 1
    <3>1. b[i] = Tail1(lines[i \div 2])
      BY <1>4, <2>2
    <3> QED
      BY <2>2, <3>1 DEF Tail1
  <2> QED
    BY <2>1, <2>2
<1>8. Framed(b)
  <2> HIDE DEF b, n
  <2> QED
    BY <1>3, <1>6, <1>7 DEF Framed
<1> QED
  BY <1>6, <1>8

(* A half line after a framed file *)
LEMMA FramedAppend ==
  ASSUME NEW S, NEW b \in Seq(Half(S)), NEW x \in Half(S), Framed(b), x.end => Torn(b)
  PROVE  Framed(Append(b, x))
<1> DEFINE c == Append(b, x)
           n == Len(b)
<1>1. /\ n \in Nat /\ Len(c) = n + 1 /\ c[n + 1] = x
      /\ \A i \in 1..n : c[i] = b[i]
  OBVIOUS
<1>2. x.end => n > 0 /\ ~b[n].end
  BY <1>1 DEF Torn
<1> HIDE DEF c
<1>3. ASSUME NEW i \in 1..n, c[i].end PROVE i > 1 /\ ~c[i - 1].end
  <2>1. i > 1 /\ ~b[i - 1].end
    BY <1>1, <1>3 DEF Framed
  <2>2. i - 1 \in 1..n
    BY <1>1, <2>1
  <2> QED
    BY <1>1, <2>1, <2>2
<1>4. c[n + 1].end => n + 1 > 1 /\ ~c[n + 1 - 1].end
  <2>1. n > 0 => n \in 1..n /\ n + 1 - 1 = n
    BY <1>1
  <2> QED
    BY <1>1, <1>2, <2>1
<1> QED
  BY <1>1, <1>3, <1>4 DEF Framed, c

(* The next request is one that waits. *)
LEMMA NextRequestIs ==
  ASSUME TypeOK, Waiting # {}
  PROVE  NextRequest \in Waiting
<1>1. drv.seen \in Nat
  BY DEF TypeOK, DriverType
<1>2. Waiting \in SUBSET Nat
  BY <1>1 DEF Waiting
<1>3. \E id \in Waiting : \A other \in Waiting : id <= other
  BY <1>2, Least
<1> QED
  BY <1>3 DEF NextRequest

(* Lines read are lines. *)
LEMMA LinesType ==
  ASSUME TypeOK
  PROVE  /\ Len(files) \in Nat \ {0} /\ Len(files) \in 1..Len(files)
         /\ \A f \in 1..Len(files) : files[f] \in File /\ files[f].bytes \in Seq(Half(Line))
         /\ Journal \in File /\ Journal.bytes \in Seq(Half(Line))
         /\ Lines \in Seq(Line) /\ Answers \in Seq(AckLine)
<1>1. Len(files) \in Nat \ {0} /\ Len(files) \in 1..Len(files)
  BY DEF TypeOK
<1>2. \A f \in 1..Len(files) : files[f] \in File /\ files[f].bytes \in Seq(Half(Line))
  <2>1. \A f \in 1..Len(files) : files[f] \in File
    BY DEF TypeOK
  <2>2. \A x \in File : x.bytes \in Seq(Half(Line))
    BY DEF File
  <2> QED
    BY <2>1, <2>2
<1>3. Journal \in File /\ Journal.bytes \in Seq(Half(Line))
  BY <1>1, <1>2 DEF Journal
<1>4. Lines \in Seq(Line)
  BY <1>3, ParsedType DEF Lines
<1>5. Answers \in Seq(AckLine)
  BY ParsedType DEF TypeOK, Answers
<1> QED
  BY <1>1, <1>2, <1>3, <1>4, <1>5

-----------------------------------------------------------------------------
(* Types *)

(* The journal grows by what is written, the other files stay. *)
LEMMA WriteIs ==
  ASSUME TypeOK, NEW bytes \in Seq(Half(Line)), Write(bytes)
  PROVE  /\ files' \in Seq(File) /\ files' # <<>> /\ Len(files') = Len(files)
         /\ \A f \in 1..Len(files) : f # Len(files) => files'[f] = files[f]
         /\ files'[Len(files)].bytes = Journal.bytes \o bytes
         /\ Journal'.bytes = Journal.bytes \o bytes
<1> DEFINE n == Len(files)
           file == [files[n] EXCEPT !.bytes = @ \o bytes]
<1>1. n \in Nat \ {0} /\ n \in 1..n /\ files[n] \in File /\ files \in Seq(File)
  BY LinesType DEF TypeOK
<1>2. files' = [files EXCEPT ![n] = file]
  BY DEF Write
<1>3. files[n].bytes \in Seq(Half(Line)) /\ Journal.bytes = files[n].bytes
  BY LinesType DEF Journal
<1>4. file \in File /\ file.bytes = files[n].bytes \o bytes
  <2>1. files[n].bytes \o bytes \in Seq(Half(Line))
    BY <1>3
  <2>2. files[n] \in [ino : Inodes, bytes : Seq(Half(Line))]
    BY <1>1 DEF File
  <2> QED
    BY <2>1, <2>2 DEF File
<1> HIDE DEF file
<1>5. /\ files' \in Seq(File) /\ Len(files') = n /\ files' # <<>>
      /\ \A f \in 1..n : files'[f] = IF f = n THEN file ELSE files[f]
  <2>2. Len(files) = n
    BY DEF n
  <2> HIDE DEF n
  <2>1. files' \in Seq(File) /\ Len(files') = Len(files)
    BY <1>1, <1>2, <1>4, <2>2
  <2>3. \A f \in 1..n : files'[f] = IF f = n THEN file ELSE files[f]
    BY <1>1, <1>2, <2>2
  <2> QED
    BY <1>1, <2>1, <2>2, <2>3
<1>6. Journal'.bytes = files'[n].bytes
  BY <1>5 DEF Journal
<1> QED
  BY <1>1, <1>3, <1>4, <1>5, <1>6

(* The halves of a line are halves. *)
LEMMA HalfIs ==
  ASSUME NEW S, NEW x \in S
  PROVE  Head1(x) \in Half(S) /\ Tail1(x) \in Half(S)
         /\ ~Head1(x).end /\ Tail1(x).end /\ Tail1(x).of = x
BY DEF Head1, Tail1, Half

(* Joining one element is appending it. *)
LEMMA AppendingIs ==
  ASSUME NEW S, NEW b \in Seq(S), NEW x \in S
  PROVE  b \o <<x>> = Append(b, x)
OBVIOUS

(* The types hold at the start. *)
LEMMA InitType == Init => TypeOK
<1> SUFFICES ASSUME Init PROVE TypeOK
  OBVIOUS
<1>1. files \in Seq(File) /\ files # <<>>
  <2>1. (CHOOSE i \in Inodes : TRUE) \in Inodes
    BY BoundsAssumption
  <2>2. <<>> \in Seq(Half(Line))
    OBVIOUS
  <2>3. [ino |-> CHOOSE i \in Inodes : TRUE, bytes |-> <<>>] \in File
    BY <2>1, <2>2 DEF File
  <2> QED
    BY <2>3 DEF Init
<1>2. drv \in DriverType
  BY DEF Init, Off, NoLine, DriverType, Line, Outcomes
<1>3. view \in ViewType
  BY DEF Init, ViewType
<1> QED
  <2>1. reqs \in Seq(Actions) /\ acks \in Seq(Half(AckLine)) /\ ended \in BOOLEAN
    <3>1. \A S : <<>> \in Seq(S)
      OBVIOUS
    <3>2. FALSE \in BOOLEAN
      OBVIOUS
    <3> QED
      BY <3>1, <3>2, Zenon DEF Init
  <2> QED
    BY <1>1, <1>2, <1>3, <2>1 DEF TypeOK

(* A driver that is off has the type of a driver. *)
LEMMA OffType == \A n \in Nat : Off(n) \in DriverType
BY DEF Off, NoLine, DriverType, Line, Outcomes

(* What a step writes to the files and the control files *)
LEMMA FilesTyped ==
  ASSUME TypeOK, [Next]_vars
  PROVE  (/\ files \in Seq(File) /\ files # <<>>
          /\ reqs \in Seq(Actions) /\ acks \in Seq(Half(AckLine)) /\ ended \in BOOLEAN)'
<1>0. UNCHANGED files => (files \in Seq(File) /\ files # <<>>)'
  BY DEF TypeOK
<1>1. UNCHANGED reqs => (reqs \in Seq(Actions))'
  BY DEF TypeOK
<1>2. UNCHANGED acks => (acks \in Seq(Half(AckLine)))'
  BY DEF TypeOK
<1>3. UNCHANGED ended => (ended \in BOOLEAN)'
  BY DEF TypeOK
<1>4. drv \in DriverType /\ drv.line \in Line /\ drv.no \in Nat /\ drv.seq \in Nat
      /\ drv.answer \in Nat /\ drv.outcome \in Outcomes
  BY DEF TypeOK, DriverType
<1>5. Ack(drv.answer, drv.outcome, drv.no) \in AckLine
  BY <1>4 DEF Ack, AckLine
<1>6. \A x \in Half(AckLine) : Append(acks, x) \in Seq(Half(AckLine))
  BY DEF TypeOK
<1>7. CASE Resume
  <2>1. PICK kept \in 1..Len(Lines), ino \in Inodes \ {Journal.ino} :
          files' = Append(files, [ino |-> ino, bytes |-> Written(SubSeq(Lines, 1, kept))])
    BY <1>7 DEF Resume
  <2>2. SubSeq(Lines, 1, kept) \in Seq(Line)
    BY LinesType
  <2>3. [ino |-> ino, bytes |-> Written(SubSeq(Lines, 1, kept))] \in File
    BY <2>2, WrittenIs DEF File
  <2>4. (files \in Seq(File) /\ files # <<>>)'
    <3> DEFINE file == [ino |-> ino, bytes |-> Written(SubSeq(Lines, 1, kept))]
    <3>1. files \in Seq(File) /\ file \in File /\ files' = Append(files, file)
      BY <2>1, <2>3 DEF TypeOK
    <3> HIDE DEF file
    <3> QED
      BY <3>1
  <2> QED
    BY <1>1, <1>2, <1>3, <1>7, <2>4 DEF Resume
<1>8. CASE EmitHead
  <2>1. <<Head1(drv.line)>> \in Seq(Half(Line))
    BY <1>4, HalfIs
  <2>2. (files \in Seq(File) /\ files # <<>>)'
    BY <1>8, <2>1, WriteIs DEF EmitHead
  <2> QED
    BY <1>1, <1>2, <1>3, <1>8, <2>2 DEF EmitHead
<1>9. CASE EmitTail
  <2>1. <<Tail1(drv.line)>> \in Seq(Half(Line))
    BY <1>4, HalfIs
  <2>2. (files \in Seq(File) /\ files # <<>>)'
    BY <1>9, <2>1, WriteIs DEF EmitTail
  <2> QED
    BY <1>1, <1>2, <1>3, <1>9, <2>2 DEF EmitTail
<1>10. CASE EmitFails
  <2> DEFINE last == [seq |-> drv.seq + 1, by |-> drv.no, end |-> TRUE]
  <2>1. last \in Line
    BY <1>4 DEF Line
  <2>2. Whole(last) \in Seq(Half(Line))
    <3> HIDE DEF last
    <3> QED
      BY <2>1, HalfIs DEF Whole
  <2>3. UNCHANGED files \/ Write(Whole(last))
    BY <1>10 DEF EmitFails
  <2> HIDE DEF last
  <2>4. (files \in Seq(File) /\ files # <<>>)'
    BY <1>0, <2>2, <2>3, WriteIs
  <2> QED
    BY <1>1, <1>2, <1>10, <2>4 DEF EmitFails
<1>11. CASE AckHead
  <2>1. (acks \in Seq(Half(AckLine)))'
    BY <1>5, <1>6, <1>11, HalfIs DEF AckHead
  <2> QED
    BY <1>0, <1>1, <1>3, <1>11, <2>1 DEF AckHead
<1>12. CASE AckTail
  <2>1. (acks \in Seq(Half(AckLine)))'
    BY <1>5, <1>6, <1>12, HalfIs DEF AckTail
  <2> QED
    BY <1>0, <1>1, <1>3, <1>12, <2>1 DEF AckTail
<1>13. CASE \E action \in Actions : Send(action)
  <2>1. PICK action \in Actions : Send(action)
    BY <1>13
  <2>2. (reqs \in Seq(Actions))'
    BY <2>1 DEF Send, TypeOK
  <2> QED
    BY <1>0, <1>2, <1>3, <2>1, <2>2 DEF Send
<1>14. CASE OpenFresh \/ Opened \/ Refuse \/ PollControl \/ Apply \/ Proceed \/ WriteEnded \/ Kill
  <2>1. UNCHANGED <<files, reqs, acks>> /\ (UNCHANGED ended \/ ended' \in BOOLEAN)
    BY <1>14 DEF OpenFresh, Opened, Refuse, PollControl, Apply, Proceed, WriteEnded, Kill
  <2> QED
    BY <1>0, <1>1, <1>2, <1>3, <2>1
<1>15. CASE Viewer \/ UNCHANGED vars
  <2>1. UNCHANGED <<files, reqs, acks, ended>>
    BY <1>15 DEF Viewer, Open, Tail_, ReadAcks, ReadRequests, Refresh, vars
  <2> QED
    BY <1>0, <1>1, <1>2, <1>3, <2>1
<1> QED
  BY <1>7, <1>8, <1>9, <1>10, <1>11, <1>12, <1>13, <1>14, <1>15 DEF Next, Driver

(* apply serves the first request that has no answer, in one of three ways. *)
LEMMA ApplyIs ==
  ASSUME TypeOK, drv.seen <= Len(reqs), Apply
  PROVE  LET id == NextRequest IN
           /\ drv.pc = "control" /\ id \in 1..Len(reqs) /\ id \notin drv.acked
           /\ \/ drv' = [drv EXCEPT !.pc = "ack", !.answer = id, !.outcome = "refused"]
              \/ /\ reqs[id] \in {"pause", "resume"}
                 /\ drv' = [drv EXCEPT !.pc = "ack", !.answer = id, !.outcome = "applied",
                                       !.paused = (reqs[id] = "pause")]
              \/ /\ reqs[id] = "stop"
                 /\ drv' = [drv EXCEPT !.pc = "emit", !.answer = id, !.outcome = "applied",
                              !.line = [seq |-> drv.seq + 1, by |-> drv.no, end |-> TRUE]]
           /\ UNCHANGED <<files, reqs, acks, ended, view>>
<1> DEFINE id == NextRequest
<1>1. id \in 1..drv.seen /\ id \notin drv.acked
  BY NextRequestIs DEF Apply, Waiting
<1>2. drv.seen \in Nat /\ Len(reqs) \in Nat /\ reqs \in Seq(Actions)
  BY DEF TypeOK, DriverType
<1> HIDE DEF id
<1>3. id \in 1..Len(reqs)
  BY <1>1, <1>2
<1>4. reqs[id] \in {"pause", "resume", "stop"}
  BY <1>2, <1>3 DEF Actions
<1>5. drv.ended \in BOOLEAN
  BY DEF TypeOK, DriverType
<1>6. CASE drv.ended
  <2>1. drv' = [drv EXCEPT !.pc = "ack", !.answer = id, !.outcome = "refused"]
    BY <1>6 DEF Apply, id
  <2> QED
    BY <1>1, <1>3, <2>1 DEF Apply, id
<1>7. CASE ~drv.ended /\ reqs[id] \in {"pause", "resume"}
  <2>1. drv' = [drv EXCEPT !.pc = "ack", !.answer = id, !.outcome = "applied",
                           !.paused = (reqs[id] = "pause")]
    BY <1>7 DEF Apply, id
  <2> QED
    BY <1>1, <1>3, <1>7, <2>1 DEF Apply, id
<1>8. CASE ~drv.ended /\ reqs[id] = "stop"
  <2>1. drv' = [drv EXCEPT !.pc = "emit", !.answer = id, !.outcome = "applied",
                           !.line = [seq |-> drv.seq + 1, by |-> drv.no, end |-> TRUE]]
    BY <1>8 DEF Apply, id
  <2> QED
    BY <1>1, <1>3, <1>8, <2>1 DEF Apply, id
<1> QED
  BY <1>4, <1>5, <1>6, <1>7, <1>8

(* The driver keeps its type. *)
LEMMA DriverTyped ==
  ASSUME TypeOK, drv.seen <= Len(reqs), Driver
  PROVE  (drv \in DriverType)'
<1>1. /\ drv \in DriverType /\ drv.no \in Nat /\ drv.seq \in Nat /\ drv.seen \in Nat
      /\ drv.line \in Line /\ drv.acked \in SUBSET Nat /\ drv.answer \in Nat
      /\ drv.line.seq \in Nat
  BY DEF TypeOK, DriverType, Line
<1>2. Off(drv.no + 1) \in DriverType /\ Off(drv.no) \in DriverType
  BY <1>1, OffType
<1>3. AckedIn(acks) \in SUBSET Nat
  <2>1. \A a \in ToSet(Answers) : a \in AckLine
    BY LinesType DEF ToSet
  <2>2. \A a \in AckLine : a.id \in Nat
    BY DEF AckLine
  <2> QED
    BY <2>1, <2>2 DEF AckedIn, Answers
<1>5. CASE OpenFresh
  <2>1. [seq |-> 1, by |-> drv.no + 1, end |-> FALSE] \in Line
    BY <1>1 DEF Line
  <2> QED
    BY <1>2, <1>3, <1>5, <2>1 DEF OpenFresh, DriverType
<1>6. CASE Resume
  <2>1. PICK kept \in 1..Len(Lines) :
          drv' = [Off(drv.no + 1) EXCEPT !.pc = "open", !.seq = kept]
    BY <1>6 DEF Resume
  <2>2. kept \in Nat
    BY LinesType
  <2> QED
    BY <1>2, <2>1, <2>2 DEF DriverType
<1>7. CASE Opened
  BY <1>1, <1>3, <1>7 DEF Opened, DriverType
<1>8. CASE PollControl
  <2>1. Len(reqs) \in Nat
    BY DEF TypeOK
  <2> QED
    BY <1>1, <1>8, <2>1 DEF PollControl, DriverType
<1>9. CASE Apply
  <2> DEFINE id == NextRequest
             action == reqs[id]
  <2>1. id \in Nat
    BY <1>9, ApplyIs
  <2>2. [seq |-> drv.seq + 1, by |-> drv.no, end |-> TRUE] \in Line
    BY <1>1 DEF Line
  <2>3. \/ drv' = [drv EXCEPT !.pc = "ack", !.answer = id, !.outcome = "refused"]
        \/ drv' = [drv EXCEPT !.pc = "ack", !.answer = id, !.outcome = "applied",
                              !.paused = (action = "pause")]
        \/ drv' = [drv EXCEPT !.pc = "emit", !.answer = id, !.outcome = "applied",
                     !.line = [seq |-> drv.seq + 1, by |-> drv.no, end |-> TRUE]]
    BY <1>9, ApplyIs
  <2> HIDE DEF id, action
  <2>4. CASE drv' = [drv EXCEPT !.pc = "ack", !.answer = id, !.outcome = "refused"]
    BY <1>1, <2>1, <2>4 DEF DriverType, Outcomes
  <2>5. CASE drv' = [drv EXCEPT !.pc = "ack", !.answer = id, !.outcome = "applied",
                                !.paused = (action = "pause")]
    BY <1>1, <2>1, <2>5 DEF DriverType, Outcomes
  <2>6. CASE drv' = [drv EXCEPT !.pc = "emit", !.answer = id, !.outcome = "applied",
                       !.line = [seq |-> drv.seq + 1, by |-> drv.no, end |-> TRUE]]
    BY <1>1, <2>1, <2>2, <2>6 DEF DriverType, Outcomes
  <2> QED
    BY <2>3, <2>4, <2>5, <2>6
<1>10. CASE Proceed
  <2>1. [seq |-> drv.seq + 1, by |-> drv.no, end |-> FALSE] \in Line
    BY <1>1 DEF Line
  <2>2. \/ drv' = Off(drv.no) \/ drv' = [drv EXCEPT !.pc = "poll"]
        \/ drv' = [drv EXCEPT !.pc = "emit",
                     !.line = [seq |-> drv.seq + 1, by |-> drv.no, end |-> FALSE]]
    BY <1>10 DEF Proceed
  <2>3. CASE drv' = Off(drv.no)
    BY <1>1, <1>2, <2>3 DEF DriverType
  <2>4. CASE drv' = [drv EXCEPT !.pc = "poll"]
    BY <1>1, <2>4 DEF DriverType
  <2>5. CASE drv' = [drv EXCEPT !.pc = "emit",
                       !.line = [seq |-> drv.seq + 1, by |-> drv.no, end |-> FALSE]]
    BY <1>1, <2>1, <2>5 DEF DriverType
  <2> QED
    BY <2>2, <2>3, <2>4, <2>5
<1>11. CASE EmitHead
  BY <1>1, <1>11 DEF EmitHead, DriverType
<1>12. CASE EmitTail
  BY <1>1, <1>12 DEF EmitTail, DriverType
<1>13. CASE WriteEnded
  BY <1>1, <1>13 DEF WriteEnded, DriverType
<1>14. CASE AckHead
  BY <1>1, <1>14 DEF AckHead, DriverType
<1>15. CASE AckTail
  BY <1>1, <1>15 DEF AckTail, DriverType, Outcomes
<1>16. CASE Refuse \/ EmitFails \/ Kill
  BY <1>2, <1>16 DEF Refuse, EmitFails, Kill
<1> QED
  BY <1>5, <1>6, <1>7, <1>8, <1>9, <1>10, <1>11, <1>12, <1>13, <1>14, <1>15, <1>16 DEF Driver

(* The viewer keeps its type. *)
LEMMA ViewerTyped ==
  ASSUME TypeOK, ViewHolds, Viewer
  PROVE  (view \in ViewType)'
<1>1. /\ view \in ViewType /\ view.offset \in Nat /\ view.handle \in Nat
      /\ view.lines \in Seq(Line) /\ view.fault \in BOOLEAN /\ view.fooled \in BOOLEAN
  BY DEF TypeOK, ViewType
<1>2. CASE Open
  <2>1. Len(files) \in Nat
    BY LinesType
  <2> QED
    BY <1>1, <1>2, <2>1 DEF Open, ViewType
<1>3. CASE ReadAcks
  <2>1. Parsed(acks, 0) \in Seq(AckLine)
    BY LinesType DEF Answers
  <2> QED
    BY <1>1, <1>3, <2>1 DEF ReadAcks, ViewType
<1>4. CASE ReadRequests
  BY <1>1, <1>4 DEF ReadRequests, ViewType, TypeOK
<1>5. CASE Refresh
  BY <1>1, <1>5 DEF Refresh, ViewType, TypeOK
<1>6. CASE Tail_
  <2> DEFINE file == files[view.handle]
             replaced == Replaced(view.handle)
             offset == IF replaced THEN 0 ELSE view.offset
             next == LastOf(offset, LineEnds(file.bytes, offset))
             read == Parsed(file.bytes, offset)
             broken == Broken(file.bytes, offset)
             hidden == Disguised(view.handle)
  <2>1. file \in File /\ file.bytes \in Seq(Half(Line)) /\ file.ino \in Inodes
    <3>1. file \in File /\ file.bytes \in Seq(Half(Line))
      BY <1>6, LinesType DEF Tail_, ViewHolds
    <3> HIDE DEF file
    <3> QED
      BY <3>1 DEF File
  <2>2. replaced \in BOOLEAN /\ hidden \in BOOLEAN /\ broken \in BOOLEAN
    BY DEF Replaced, Disguised, Broken
  <2>3. offset \in 0..Len(file.bytes) /\ Len(file.bytes) \in Nat
    <3> HIDE DEF file
    <3>1. Len(file.bytes) \in Nat
      BY <2>1
    <3>2. ~replaced => ~(Len(file.bytes) < view.offset)
      BY DEF Replaced, file
    <3> QED
      BY <1>1, <3>1, <3>2
  <2>4. next \in Nat
    <3> HIDE DEF file, offset
    <3>1. LineEnds(file.bytes, offset) \in SUBSET (1..Len(file.bytes))
      BY <2>3 DEF LineEnds
    <3> QED
      BY <2>3, <3>1, LastOfIs
  <2>5. read \in Seq(Line)
    <3> HIDE DEF file, offset
    <3> QED
      BY <2>1, <2>3, ParsedType
  <2>6. view' = [view EXCEPT !.pc = "acks", !.ino = file.ino, !.file = view.handle,
                             !.offset = next, !.lines = (IF replaced THEN <<>> ELSE @) \o read,
                             !.fault = broken \/ (~replaced /\ @),
                             !.fooled = ~replaced /\ (@ \/ hidden)]
    BY <1>6 DEF Tail_
  <2> DEFINE lines == (IF replaced THEN <<>> ELSE view.lines) \o read
             fault == broken \/ (~replaced /\ view.fault)
             fooled == ~replaced /\ (view.fooled \/ hidden)
  <2> HIDE DEF file, replaced, offset, next, read, broken, hidden
  <2>7. lines \in Seq(Line)
    BY <1>1, <2>5
  <2>8. fault \in BOOLEAN /\ fooled \in BOOLEAN
    OBVIOUS
  <2>9. view' = [view EXCEPT !.pc = "acks", !.ino = file.ino, !.file = view.handle,
                             !.offset = next, !.lines = lines,
                             !.fault = fault, !.fooled = fooled]
    BY <2>6
  <2> HIDE DEF lines, fault, fooled
  <2> QED
    BY <1>1, <2>1, <2>4, <2>7, <2>8, <2>9 DEF ViewType
<1> QED
  BY <1>2, <1>3, <1>4, <1>5, <1>6 DEF Viewer

(* Every step keeps the types. *)
LEMMA TypeStep ==
  ASSUME TypeOK, drv.seen <= Len(reqs), ViewHolds, [Next]_vars
  PROVE  TypeOK'
<1>1. Driver => (drv \in DriverType)'
  BY DriverTyped
<1>2. Viewer => (view \in ViewType)'
  BY ViewerTyped
<1>3. Driver \/ UNCHANGED drv
  BY DEF Next, Viewer, Open, Tail_, ReadAcks, ReadRequests, Refresh, Send, vars
<1>4. Viewer \/ UNCHANGED view
  BY DEF Next, Driver, OpenFresh, Resume, Opened, Refuse, PollControl, Apply, Proceed, EmitHead,
         EmitTail, WriteEnded, EmitFails, AckHead, AckTail, Kill, Send, vars
<1>5. UNCHANGED drv => (drv \in DriverType)'
  BY DEF TypeOK
<1>6. UNCHANGED view => (view \in ViewType)'
  BY DEF TypeOK
<1> QED
  BY FilesTyped, <1>1, <1>2, <1>3, <1>4, <1>5, <1>6 DEF TypeOK

-----------------------------------------------------------------------------
(* Files *)

(* The first file is where the second begins. *)
Grows(b, c) == Len(b) <= Len(c) /\ \A i \in 1..Len(b) : c[i] = b[i]

(* A file that is appended to has grown. *)
LEMMA AppendedGrows ==
  ASSUME NEW S, NEW b \in Seq(S), NEW c \in Seq(S)
  PROVE  Grows(b, b \o c)
BY DEF Grows

(* A file that stays has grown by nothing. *)
LEMMA StaysGrows ==
  ASSUME NEW S, NEW b \in Seq(S)
  PROVE  Grows(b, b)
BY DEF Grows

(* What was read up to a line end stays what was read. *)
LEMMA GrownRead ==
  ASSUME NEW S, NEW b \in Seq(Half(S)), NEW c \in Seq(Half(S)), Grows(b, c),
         NEW o, NEW lines, NEW fault, ReadUpTo(b, o, lines, fault)
  PROVE  ReadUpTo(c, o, lines, fault)
<1>1. /\ Len(b) \in Nat /\ Len(c) \in Nat /\ o \in 0..Len(b) /\ AtLineEnd(b, o)
      /\ Len(b) <= Len(c) /\ \A i \in 1..Len(b) : c[i] = b[i]
  BY DEF ReadUpTo, Grows
<1>2. o \in 0..Len(c) /\ \A i \in 1..o : i \in 1..Len(b) /\ i \in 1..Len(c)
  BY <1>1
<1>3. AtLineEnd(c, o)
  BY <1>1 DEF AtLineEnd
<1>4. SubSeq(c, 1, o) = SubSeq(b, 1, o)
  <2> DEFINE d == SubSeq(c, 1, o)
             e == SubSeq(b, 1, o)
  <2>1. /\ d \in Seq(Half(S)) /\ Len(d) = o /\ \A i \in 1..o : d[i] = c[i]
    BY <1>1, <1>2
  <2>2. /\ e \in Seq(Half(S)) /\ Len(e) = o /\ \A i \in 1..o : e[i] = b[i]
    BY <1>1, <1>2
  <2> HIDE DEF d, e
  <2>3. \A i \in 1..o : d[i] = e[i]
    BY <1>1, <1>2, <2>1, <2>2
  <2>4. d = e
    BY <2>1, <2>2, <2>3
  <2> QED
    BY <2>4 DEF d, e
<1> QED
  BY <1>2, <1>3, <1>4 DEF ReadUpTo

(* What a step may do to the files: nothing, a half line or a whole one at the
   end of the last, or one more file of whole lines. *)
FilesKept ==
  \/ UNCHANGED files
  \/ drv.pc = "emit" /\ drv'.pc = "emitting" /\ Write(<<Head1(drv.line)>>)
  \/ drv.pc = "emitting" /\ drv'.pc # "emitting" /\ Write(<<Tail1(drv.line)>>)
  \/ drv.pc = "emitting" /\ drv'.pc # "emitting"
     /\ \E line \in Line : Write(Whole(line))
  \/ drv'.pc # "emitting"
     /\ \E file \in File : Framed(file.bytes) /\ files' = Append(files, file)

(* Every step keeps what holds of the files. *)
LEMMA FilesStep ==
  ASSUME TypeOK, drv.seen <= Len(reqs), [Next]_vars
  PROVE  FilesKept /\ (drv'.pc = "emitting" => drv.pc = "emitting" \/ ~UNCHANGED files)
<1>1. drv \in DriverType /\ drv.line \in Line /\ drv.no \in Nat /\ drv.seq \in Nat
  BY DEF TypeOK, DriverType
<1>2. CASE OpenFresh
  BY <1>2 DEF OpenFresh, Off, FilesKept
<1>3. CASE Resume
  <2>1. PICK kept \in 1..Len(Lines), ino \in Inodes \ {Journal.ino} :
          /\ files' = Append(files, [ino |-> ino, bytes |-> Written(SubSeq(Lines, 1, kept))])
          /\ drv' = [Off(drv.no + 1) EXCEPT !.pc = "open", !.seq = kept]
    BY <1>3 DEF Resume
  <2> DEFINE bytes == Written(SubSeq(Lines, 1, kept))
             file == [ino |-> ino, bytes |-> bytes]
  <2>2. bytes \in Seq(Half(Line)) /\ Framed(bytes)
    <3>1. SubSeq(Lines, 1, kept) \in Seq(Line)
      BY LinesType
    <3> QED
      BY <3>1, WrittenIs
  <2>3. file \in File /\ file.bytes = bytes
    <3> HIDE DEF bytes
    <3> QED
      BY <2>2 DEF File
  <2>4. drv'.pc = "open"
    BY <2>1 DEF Off
  <2> HIDE DEF bytes
  <2>5. files' = Append(files, file)
    BY <2>1 DEF bytes
  <2> HIDE DEF file
  <2>6. Framed(file.bytes)
    BY <2>2, <2>3
  <2> QED
    BY <2>3, <2>4, <2>5, <2>6 DEF FilesKept
<1>4. CASE EmitHead
  <2>1. drv.pc = "emit" /\ drv'.pc = "emitting" /\ Write(<<Head1(drv.line)>>)
    BY <1>1, <1>4 DEF EmitHead, DriverType
  <2>2. ~UNCHANGED files
    <3>1. <<Head1(drv.line)>> \in Seq(Half(Line))
      BY <1>1, HalfIs
    <3>2. Journal'.bytes = Journal.bytes \o <<Head1(drv.line)>> /\ Journal.bytes \in Seq(Half(Line))
      BY <2>1, <3>1, WriteIs, LinesType
    <3>3. Len(Journal.bytes \o <<Head1(drv.line)>>) = Len(Journal.bytes) + 1
          /\ Len(Journal.bytes) \in Nat
      BY <3>1, <3>2
    <3>4. Journal'.bytes # Journal.bytes
      BY <3>2, <3>3
    <3> QED
      BY <3>4 DEF Journal
  <2> QED
    BY <2>1, <2>2 DEF FilesKept
<1>5. CASE EmitTail
  <2>1. drv.pc = "emitting" /\ drv'.pc # "emitting" /\ Write(<<Tail1(drv.line)>>)
    BY <1>1, <1>5 DEF EmitTail, DriverType
  <2> QED
    BY <2>1 DEF FilesKept
<1>6. CASE EmitFails
  <2> DEFINE last == [seq |-> drv.seq + 1, by |-> drv.no, end |-> TRUE]
  <2>1. last \in Line
    BY <1>1 DEF Line
  <2>2. drv.pc = "emitting" /\ drv'.pc # "emitting" /\ (UNCHANGED files \/ Write(Whole(last)))
    BY <1>6 DEF EmitFails, Off
  <2> HIDE DEF last
  <2> QED
    BY <2>1, <2>2 DEF FilesKept
<1>7. CASE Opened \/ PollControl \/ Apply \/ Proceed \/ WriteEnded \/ AckHead \/ AckTail
  <2>1. UNCHANGED files
    BY <1>7 DEF Opened, PollControl, Apply, Proceed, WriteEnded, AckHead, AckTail
  <2>2. CASE Apply
    <3>1. drv.pc = "control" /\ drv'.pc # "emitting"
      BY <2>2, ApplyIs, <1>1 DEF DriverType
    <3> QED
      BY <2>1, <3>1 DEF FilesKept
  <2>3. CASE Opened \/ PollControl \/ Proceed \/ WriteEnded \/ AckHead \/ AckTail
    <3>1. drv'.pc # "emitting"
      <4>1. CASE Opened
        BY <1>1, <4>1 DEF Opened, DriverType
      <4>2. CASE PollControl
        BY <1>1, <4>2 DEF PollControl, DriverType
      <4>3. CASE Proceed
        BY <1>1, <4>3 DEF Proceed, DriverType, Off
      <4>4. CASE WriteEnded
        BY <1>1, <4>4 DEF WriteEnded, DriverType
      <4>5. CASE AckHead
        BY <1>1, <4>5 DEF AckHead, DriverType
      <4>6. CASE AckTail
        BY <1>1, <4>6 DEF AckTail, DriverType
      <4> QED
        BY <2>3, <4>1, <4>2, <4>3, <4>4, <4>5, <4>6
    <3> QED
      BY <2>1, <3>1 DEF FilesKept
  <2> QED
    BY <1>7, <2>2, <2>3
<1>8. CASE Refuse \/ Kill
  BY <1>8 DEF Refuse, Kill, Off, FilesKept
<1>9. CASE Viewer \/ (\E action \in Actions : Send(action)) \/ UNCHANGED vars
  BY <1>9 DEF Viewer, Open, Tail_, ReadAcks, ReadRequests, Refresh, Send, vars, FilesKept
<1> QED
  BY <1>2, <1>3, <1>4, <1>5, <1>6, <1>7, <1>8, <1>9 DEF Next, Driver

(* The files a step leaves are those before it, grown, and perhaps one more. *)
LEMMA FilesGrow ==
  ASSUME TypeOK, FilesKept
  PROVE  /\ Len(files) <= Len(files')
         /\ \A f \in 1..Len(files) : f \in 1..Len(files') /\ Grows(files[f].bytes, files'[f].bytes)
<1>1. /\ Len(files) \in Nat \ {0} /\ files \in Seq(File)
      /\ \A f \in 1..Len(files) : files[f].bytes \in Seq(Half(Line))
                                   /\ Grows(files[f].bytes, files[f].bytes)
      /\ Journal.bytes \in Seq(Half(Line)) /\ Journal = files[Len(files)]
  BY LinesType, StaysGrows DEF TypeOK, Journal
<1>2. CASE UNCHANGED files
  BY <1>1, <1>2
<1>3. ASSUME NEW bytes \in Seq(Half(Line)), Write(bytes)
      PROVE  /\ Len(files) <= Len(files')
             /\ \A f \in 1..Len(files) : f \in 1..Len(files')
                                          /\ Grows(files[f].bytes, files'[f].bytes)
  <2>1. /\ Len(files') = Len(files)
        /\ \A f \in 1..Len(files) : f # Len(files) => files'[f] = files[f]
        /\ files'[Len(files)].bytes = Journal.bytes \o bytes
    BY <1>3, WriteIs
  <2>2. Grows(Journal.bytes, Journal.bytes \o bytes)
    BY <1>1, AppendedGrows
  <2>3. ASSUME NEW f \in 1..Len(files) PROVE Grows(files[f].bytes, files'[f].bytes)
    <3>1. CASE f = Len(files)
      BY <1>1, <2>1, <2>2, <3>1
    <3>2. CASE f # Len(files)
      BY <1>1, <2>1, <3>2
    <3> QED
      BY <3>1, <3>2
  <2> QED
    BY <1>1, <2>1, <2>3
<1>4. CASE \E line \in Line : Write(Whole(line))
  <2>1. \A line \in Line : Whole(line) \in Seq(Half(Line))
    BY HalfIs DEF Whole
  <2> QED
    BY <1>3, <1>4, <2>1
<1>5. CASE Write(<<Head1(drv.line)>>) \/ Write(<<Tail1(drv.line)>>)
  <2>1. drv.line \in Line
    BY DEF TypeOK, DriverType
  <2>2. <<Head1(drv.line)>> \in Seq(Half(Line)) /\ <<Tail1(drv.line)>> \in Seq(Half(Line))
    BY <2>1, HalfIs
  <2> QED
    BY <1>3, <1>5, <2>2
<1>6. CASE \E file \in File : files' = Append(files, file)
  <2>1. PICK file \in File : files' = Append(files, file)
    BY <1>6
  <2>2. Len(files') = Len(files) + 1 /\ \A f \in 1..Len(files) : files'[f] = files[f]
    BY <1>1, <2>1
  <2> QED
    BY <1>1, <2>2
<1> QED
  BY <1>2, <1>4, <1>5, <1>6 DEF FilesKept

(* Two halves of a line after a file: the second ends what the first began. *)
LEMMA FramedWhole ==
  ASSUME NEW b \in Seq(Half(Line)), NEW line \in Line, Framed(b)
  PROVE  Framed(b \o Whole(line))
<1>1. Head1(line) \in Half(Line) /\ Tail1(line) \in Half(Line) /\ ~Head1(line).end
  BY HalfIs
<1> DEFINE h == Head1(line)
           t == Tail1(line)
           c == Append(b, h)
<1> HIDE DEF h, t
<1>2. h \in Half(Line) /\ t \in Half(Line) /\ ~h.end
  BY <1>1 DEF h, t
<1>3. c \in Seq(Half(Line)) /\ Framed(c)
  BY <1>2, FramedAppend
<1>4. Torn(c)
  <2>1. Len(b) \in Nat /\ Len(c) = Len(b) + 1 /\ c[Len(b) + 1] = h /\ c # <<>>
    BY <1>2
  <2> QED
    BY <1>2, <2>1 DEF Torn
<1>5. Framed(Append(c, t))
  <2> HIDE DEF c
  <2> QED
    BY <1>2, <1>3, <1>4, FramedAppend
<1>6. b \o <<h, t>> = Append(c, t)
  BY <1>2
<1> QED
  BY <1>5, <1>6 DEF Whole, h, t

(* A first half alone at the end of a file is a torn line. *)
LEMMA TornHead ==
  ASSUME NEW S, NEW b \in Seq(Half(S)), NEW x \in S
  PROVE  Torn(Append(b, Head1(x)))
<1> DEFINE h == Head1(x)
           c == Append(b, h)
<1>1. h \in Half(S) /\ ~h.end
  BY HalfIs
<1> HIDE DEF h
<1>2. Len(b) \in Nat /\ Len(c) = Len(b) + 1 /\ c[Len(b) + 1] = h /\ c # <<>>
  BY <1>1
<1> QED
  BY <1>1, <1>2 DEF Torn, h

(* Every step keeps the journal framed. *)
LEMMA JournalFramed ==
  ASSUME TypeOK, FilesHold, drv.seen <= Len(reqs), [Next]_vars
  PROVE  /\ \A f \in 1..Len(files') : Framed(files'[f].bytes)
         /\ drv'.pc = "emitting" => Torn(Journal'.bytes)
<1>1. FilesKept /\ (drv'.pc = "emitting" => drv.pc = "emitting" \/ ~UNCHANGED files)
  BY FilesStep
<1>2. /\ Len(files) \in Nat \ {0} /\ Len(files) \in 1..Len(files) /\ files \in Seq(File)
      /\ Journal.bytes \in Seq(Half(Line)) /\ Journal = files[Len(files)]
      /\ drv.line \in Line
  BY LinesType DEF TypeOK, Journal, DriverType
<1>3. Framed(Journal.bytes) /\ \A f \in 1..Len(files) : Framed(files[f].bytes)
  BY <1>2 DEF FilesHold
<1>4. CASE UNCHANGED files
  <2>1. drv'.pc = "emitting" => drv.pc = "emitting"
    BY <1>1, <1>4
  <2>2. Journal' = Journal
    BY <1>4 DEF Journal
  <2> QED
    BY <1>3, <1>4, <2>1, <2>2 DEF FilesHold
<1>5. ASSUME NEW bytes \in Seq(Half(Line)), Write(bytes), Framed(Journal.bytes \o bytes)
      PROVE  /\ \A f \in 1..Len(files') : Framed(files'[f].bytes)
             /\ Journal'.bytes = Journal.bytes \o bytes
  <2>1. /\ Len(files') = Len(files)
        /\ \A f \in 1..Len(files) : f # Len(files) => files'[f] = files[f]
        /\ files'[Len(files)].bytes = Journal.bytes \o bytes
        /\ Journal'.bytes = Journal.bytes \o bytes
    BY <1>5, WriteIs
  <2>2. ASSUME NEW f \in 1..Len(files) PROVE Framed(files'[f].bytes)
    <3>1. CASE f = Len(files)
      BY <1>5, <2>1, <3>1
    <3>2. CASE f # Len(files)
      BY <1>3, <2>1, <3>2
    <3> QED
      BY <3>1, <3>2
  <2> QED
    BY <2>1, <2>2
<1>6. /\ <<Head1(drv.line)>> \in Seq(Half(Line)) /\ <<Tail1(drv.line)>> \in Seq(Half(Line))
      /\ Head1(drv.line) \in Half(Line) /\ Tail1(drv.line) \in Half(Line)
      /\ ~Head1(drv.line).end
  BY <1>2, HalfIs
<1>7. CASE drv.pc = "emit" /\ drv'.pc = "emitting" /\ Write(<<Head1(drv.line)>>)
  <2>1. Journal.bytes \o <<Head1(drv.line)>> = Append(Journal.bytes, Head1(drv.line))
    BY <1>2, <1>6, AppendingIs
  <2>2. Framed(Append(Journal.bytes, Head1(drv.line)))
    BY <1>2, <1>3, <1>6, FramedAppend
  <2>3. Torn(Append(Journal.bytes, Head1(drv.line)))
    BY <1>2, TornHead
  <2> QED
    BY <1>5, <1>6, <1>7, <2>1, <2>2, <2>3
<1>8. CASE drv.pc = "emitting" /\ drv'.pc # "emitting" /\ Write(<<Tail1(drv.line)>>)
  <2>1. Journal.bytes \o <<Tail1(drv.line)>> = Append(Journal.bytes, Tail1(drv.line))
    BY <1>2, <1>6, AppendingIs
  <2>2. Framed(Append(Journal.bytes, Tail1(drv.line)))
    BY <1>2, <1>3, <1>6, <1>8, FramedAppend DEF FilesHold
  <2> QED
    BY <1>5, <1>6, <1>8, <2>1, <2>2
<1>9. CASE drv'.pc # "emitting" /\ \E line \in Line : Write(Whole(line))
  <2>1. PICK line \in Line : Write(Whole(line))
    BY <1>9
  <2>2. Whole(line) \in Seq(Half(Line))
    BY HalfIs DEF Whole
  <2>3. Framed(Journal.bytes \o Whole(line))
    BY <1>2, <1>3, FramedWhole
  <2> QED
    BY <1>5, <1>9, <2>1, <2>2, <2>3
<1>10. CASE /\ drv'.pc # "emitting"
            /\ \E file \in File : Framed(file.bytes) /\ files' = Append(files, file)
  <2>1. PICK file \in File : Framed(file.bytes) /\ files' = Append(files, file)
    BY <1>10
  <2>2. /\ Len(files') = Len(files) + 1 /\ files'[Len(files) + 1] = file
        /\ \A f \in 1..Len(files) : files'[f] = files[f]
    BY <1>2, <2>1
  <2>3. \A f \in 1..Len(files') : f \in 1..Len(files) \/ f = Len(files) + 1
    BY <1>2, <2>2
  <2> QED
    BY <1>3, <1>10, <2>1, <2>2, <2>3
<1> QED
  BY <1>1, <1>4, <1>7, <1>8, <1>9, <1>10 DEF FilesKept

-----------------------------------------------------------------------------
(* The cursor *)

(* A cursor at the beginning has read nothing. *)
LEMMA NothingRead ==
  ASSUME NEW S, NEW b \in Seq(Half(S))
  PROVE  ReadUpTo(b, 0, <<>>, FALSE)
<1> DEFINE c == SubSeq(b, 1, 0)
<1>1. c = <<>> /\ 0 \in 0..Len(b)
  OBVIOUS
<1> HIDE DEF c
<1>2. Parsed(c, 0) = <<>> /\ Broken(c, 0) = FALSE
  BY <1>1, ParsedNothing
<1> QED
  BY <1>1, <1>2 DEF ReadUpTo, AtLineEnd, c

(* The viewer's own step: it goes on from its offset, or starts anew. *)
LEMMA TailReads ==
  ASSUME TypeOK, FilesHold, ViewHolds, Tail_
  PROVE  ViewHolds'
<1> DEFINE file == files[view.handle]
           bytes == file.bytes
           replaced == Replaced(view.handle)
           offset == IF replaced THEN 0 ELSE view.offset
           before == IF replaced THEN <<>> ELSE view.lines
           fault == ~replaced /\ view.fault
           next == LastOf(offset, LineEnds(bytes, offset))
           read == Parsed(bytes, offset)
           broken == Broken(bytes, offset)
           hidden == Disguised(view.handle)
           fooled == ~replaced /\ (view.fooled \/ hidden)
<1>1. /\ view.pc = "tail" /\ view.handle \in 1..Len(files) /\ Len(files) \in Nat
      /\ bytes \in Seq(Half(Line)) /\ Framed(bytes)
      /\ UNCHANGED files
  BY LinesType DEF Tail_, ViewHolds, FilesHold
<1>2. view' = [view EXCEPT !.pc = "acks", !.ino = file.ino, !.file = view.handle,
                           !.offset = next, !.lines = before \o read,
                           !.fault = broken \/ fault, !.fooled = fooled]
  BY DEF Tail_
<1>3. view \in ViewType /\ view.offset \in Nat
  BY DEF TypeOK, ViewType
<1>4. /\ view'.pc = "acks" /\ view'.file = view.handle /\ view'.offset = next
      /\ view'.lines = before \o read /\ view'.fault = (broken \/ fault)
      /\ view'.fooled = fooled
  <2> HIDE DEF file, replaced, offset, before, fault, next, read, broken, hidden, fooled
  <2> QED
    BY <1>2, <1>3 DEF ViewType
<1>5. ASSUME ~fooled PROVE ReadUpTo(bytes, offset, before, fault)
  <2>1. CASE replaced
    <3>1. offset = 0 /\ before = <<>> /\ fault = FALSE
      BY <2>1
    <3> HIDE DEF file, bytes, offset, before, fault, replaced
    <3> QED
      BY <1>1, <3>1, NothingRead
  <2>2. CASE ~replaced
    <3>1. offset = view.offset /\ before = view.lines /\ (fault <=> view.fault)
          /\ ~view.fooled /\ ~hidden
      BY <1>5, <2>2
    <3>2. view.fault \in BOOLEAN /\ fault = view.fault
      BY <2>2 DEF TypeOK, ViewType
    <3>3. CASE view.offset = 0
      <4>1. view.file = 0 => view.lines = <<>> /\ view.fault = FALSE
        BY <3>2 DEF ViewHolds
      <4>2. view.file # 0 => view.lines = <<>> /\ view.fault = FALSE
        <5>1. SUFFICES ASSUME view.file # 0 PROVE view.lines = <<>> /\ view.fault = FALSE
          OBVIOUS
        <5>2. view.file \in 1..Len(files)
          BY <1>1, <5>1 DEF ViewHolds
        <5>3. ReadUpTo(files[view.file].bytes, 0, view.lines, view.fault)
          BY <3>1, <3>3, <5>1 DEF ViewHolds
        <5>4. SubSeq(files[view.file].bytes, 1, 0) = <<>>
          BY <5>2, LinesType
        <5>5. Parsed(<<>>, 0) = <<>> /\ Broken(<<>>, 0) = FALSE
          BY ParsedNothing
        <5> QED
          BY <5>3, <5>4, <5>5 DEF ReadUpTo
      <4> HIDE DEF file, bytes, offset, before, fault, replaced
      <4> QED
        BY <1>1, <3>1, <3>2, <3>3, <4>1, <4>2, NothingRead
    <3>4. CASE view.offset # 0
      <4>1. view.offset > 0
        BY <1>3, <3>4
      <4>2. file.ino = view.ino
        BY <2>2, <4>1 DEF Replaced
      <4>3. view.handle = view.file
        BY <3>1, <4>1, <4>2 DEF Disguised
      <4>4. view.file # 0
        BY <1>1, <4>3
      <4>5. ReadUpTo(bytes, view.offset, view.lines, view.fault)
        BY <3>1, <4>3, <4>4 DEF ViewHolds
      <4> HIDE DEF file, bytes, offset, before, fault, replaced
      <4> QED
        BY <3>1, <3>2, <4>5
    <3> QED
      BY <3>3, <3>4
  <2> QED
    BY <2>1, <2>2
<1>6. ASSUME ~fooled PROVE ReadUpTo(bytes, next, before \o read, broken \/ fault)
  <2>1. ReadUpTo(bytes, offset, before, fault)
    BY <1>5, <1>6
  <2> HIDE DEF file, bytes, offset, before, fault, replaced
  <2>2. /\ offset \in 0..Len(bytes) /\ AtLineEnd(bytes, offset)
        /\ before = Parsed(SubSeq(bytes, 1, offset), 0)
        /\ fault = Broken(SubSeq(bytes, 1, offset), 0)
    BY <2>1 DEF ReadUpTo
  <2>3. /\ next \in 0..Len(bytes) /\ AtLineEnd(bytes, next)
        /\ Parsed(SubSeq(bytes, 1, next), 0) = Parsed(SubSeq(bytes, 1, offset), 0) \o read
        /\ Broken(SubSeq(bytes, 1, next), 0) <=> Broken(SubSeq(bytes, 1, offset), 0) \/ broken
    BY <1>1, <2>2, ReadOn
  <2>4. (broken \/ fault) = Broken(SubSeq(bytes, 1, next), 0)
    BY <2>2, <2>3 DEF Broken
  <2> HIDE DEF next, read, broken
  <2> QED
    BY <2>2, <2>3, <2>4 DEF ReadUpTo
<1>7. files'[view'.file].bytes = bytes
  BY <1>1, <1>4
<1> HIDE DEF file, bytes, replaced, offset, before, fault, next, read, broken, hidden, fooled
<1>8. view'.file # 0 /\ view'.file \in 0..Len(files')
  BY <1>1, <1>4
<1>9. view'.pc # "tail"
  BY <1>4
<1>10. ~view'.fooled => ReadUpTo(files'[view'.file].bytes, view'.offset, view'.lines, view'.fault)
  BY <1>4, <1>6, <1>7
<1> QED
  BY <1>8, <1>9, <1>10 DEF ViewHolds

(* Every step keeps the viewer to one file. *)
LEMMA ViewStep ==
  ASSUME TypeOK, FilesHold, ViewHolds, drv.seen <= Len(reqs), [Next]_vars, TypeOK'
  PROVE  ViewHolds'
<1>1. FilesKept
  BY FilesStep
<1>2. /\ Len(files) <= Len(files') /\ Len(files) \in Nat \ {0} /\ Len(files') \in Nat
      /\ \A f \in 1..Len(files) : f \in 1..Len(files') /\ Grows(files[f].bytes, files'[f].bytes)
  <2>1. Len(files') \in Nat
    BY DEF TypeOK
  <2> QED
    BY <1>1, <2>1, FilesGrow, LinesType
<1>3. \A f \in 1..Len(files) : files[f].bytes \in Seq(Half(Line)) /\ files'[f].bytes \in Seq(Half(Line))
  <2>1. \A f \in 1..Len(files') : files'[f] \in File
    BY DEF TypeOK
  <2>2. \A x \in File : x.bytes \in Seq(Half(Line))
    BY DEF File
  <2> QED
    BY <1>2, <2>1, <2>2, LinesType
<1>4. CASE Tail_
  BY <1>4, TailReads
<1>5. CASE ~Tail_
  <2>1. /\ view'.file = view.file /\ view'.offset = view.offset /\ view'.lines = view.lines
        /\ view'.fault = view.fault /\ view'.fooled = view.fooled
        /\ view'.pc = "tail" => \/ view.pc = "tail" /\ view'.handle = view.handle
                               \/ view'.handle = Len(files)
    <3>1. view \in ViewType
      BY DEF TypeOK
    <3>2. CASE Open
      BY <3>1, <3>2 DEF Open, ViewType
    <3>3. CASE ReadAcks
      BY <3>1, <3>3 DEF ReadAcks, ViewType
    <3>4. CASE ReadRequests
      BY <3>1, <3>4 DEF ReadRequests, ViewType
    <3>5. CASE Refresh
      BY <3>1, <3>5 DEF Refresh, ViewType
    <3>6. UNCHANGED view \/ Open \/ ReadAcks \/ ReadRequests \/ Refresh
      BY <1>5 DEF Next, Viewer, Driver, OpenFresh, Resume, Opened, Refuse, PollControl, Apply,
           Proceed, EmitHead, EmitTail, WriteEnded, EmitFails, AckHead, AckTail, Kill, Send, vars
    <3> QED
      BY <3>2, <3>3, <3>4, <3>5, <3>6
  <2>2. view'.pc = "tail" => view'.handle \in 1..Len(files')
    BY <1>2, <2>1 DEF ViewHolds
  <2>3. view'.file \in 0..Len(files')
    BY <1>2, <2>1 DEF ViewHolds
  <2>4. ASSUME view.file # 0, ~view.fooled
        PROVE  ReadUpTo(files'[view.file].bytes, view.offset, view.lines, view.fault)
    <3>1. view.file \in 1..Len(files)
      BY <1>2, <2>4 DEF ViewHolds
    <3>2. ReadUpTo(files[view.file].bytes, view.offset, view.lines, view.fault)
      BY <2>4 DEF ViewHolds
    <3> QED
      BY <1>2, <1>3, <3>1, <3>2, GrownRead
  <2> QED
    BY <2>1, <2>2, <2>3, <2>4 DEF ViewHolds
<1> QED
  BY <1>4, <1>5

-----------------------------------------------------------------------------
(* What the steps do to requests and acknowledgements *)

SameFiles == UNCHANGED <<acks, reqs>>
SameHand == drv'.no = drv.no /\ drv'.acked = drv.acked /\ drv'.seen = drv.seen

(* Nothing, or one more request *)
Rests ==
  /\ UNCHANGED <<drv, acks>>
  /\ UNCHANGED reqs \/ \E action \in Actions : reqs' = Append(reqs, action)

(* The driver is gone, or a next one has been refused. *)
Stops ==
  /\ SameFiles
  /\ drv'.pc = "off" /\ drv'.paused = FALSE /\ drv'.seen = 0
  /\ drv'.no = drv.no \/ drv'.no = drv.no + 1

(* The next driver *)
Starts ==
  /\ SameFiles
  /\ drv'.no = drv.no + 1 /\ drv'.paused = FALSE /\ drv'.seen = 0 /\ ~drv'.line.end
  /\ drv'.pc = "open" \/ (drv'.pc = "emit" /\ drv'.acked = AckedIn(acks))

(* It reads what was acknowledged before it. *)
Reads ==
  /\ SameFiles
  /\ drv.pc = "open" /\ drv'.pc = "poll"
  /\ drv'.no = drv.no /\ drv'.acked = AckedIn(acks) /\ drv'.seen = drv.seen
  /\ drv'.paused = drv.paused

(* It runs; what it has in hand it keeps. *)
Moves ==
  /\ SameFiles
  /\ drv.pc \in {"poll", "control", "emit", "emitting"}
  /\ drv'.pc \in {"open", "poll", "control", "emit", "emitting", "ending"}
  /\ drv'.no = drv.no /\ drv'.acked = drv.acked /\ drv'.paused = drv.paused
  /\ drv'.seen = drv.seen \/ drv'.seen = Len(reqs)
  /\ InHand' => InHand /\ drv'.answer = drv.answer

(* It takes a request in hand. *)
Takes ==
  LET id == drv'.answer IN
    /\ SameFiles /\ SameHand
    /\ drv.pc = "control" /\ id \in 1..Len(reqs) /\ id \notin drv.acked
    /\ \/ drv'.pc = "ack" /\ drv'.outcome = "refused" /\ drv'.paused = drv.paused
       \/ /\ drv'.pc = "ack" /\ drv'.outcome = "applied" /\ reqs[id] \in {"pause", "resume"}
          /\ drv'.paused = (reqs[id] = "pause")
       \/ drv'.pc = "emit" /\ reqs[id] = "stop" /\ drv'.paused = drv.paused

(* The end was written, and the stop is to be answered. *)
Hands ==
  /\ SameFiles /\ SameHand
  /\ drv.pc = "ending" /\ drv'.pc = "ack"
  /\ drv'.answer = drv.answer /\ drv'.paused = drv.paused

(* The acknowledgement is written. *)
WritesHead ==
  /\ UNCHANGED reqs /\ SameHand
  /\ drv.pc = "ack" /\ drv'.pc = "acking"
  /\ drv'.answer = drv.answer /\ drv'.outcome = drv.outcome /\ drv'.paused = drv.paused
  /\ acks' = Append(acks, Head1(Now))
WritesTail ==
  /\ UNCHANGED reqs
  /\ drv.pc = "acking" /\ drv'.pc = "control"
  /\ drv'.no = drv.no /\ drv'.acked = drv.acked \cup {drv.answer} /\ drv'.seen = drv.seen
  /\ drv'.paused = drv.paused
  /\ acks' = Append(acks, Tail1(Now))

(* What a step of the driver does to its answers, its requests and itself. *)
LEMMA DriverForms ==
  ASSUME TypeOK, drv.seen <= Len(reqs), [Next]_vars
  PROVE  \/ Rests \/ Stops \/ Starts \/ Reads \/ Moves \/ Takes \/ Hands \/ WritesHead \/ WritesTail
<1>1. /\ drv \in DriverType /\ drv.no \in Nat /\ drv.line \in Line /\ drv.line.end \in BOOLEAN
  BY DEF TypeOK, DriverType, Line
<1>2. CASE OpenFresh
  <2>1. drv' = [Off(drv.no + 1) EXCEPT !.pc = "emit", !.acked = AckedIn(acks),
                                       !.line = [seq |-> 1, by |-> drv.no + 1, end |-> FALSE]]
    BY <1>2 DEF OpenFresh
  <2>2. /\ drv'.no = drv.no + 1 /\ drv'.paused = FALSE /\ drv'.seen = 0 /\ drv'.line.end = FALSE
        /\ drv'.pc = "emit" /\ drv'.acked = AckedIn(acks)
    BY <2>1 DEF Off
  <2> QED
    BY <1>2, <2>2 DEF OpenFresh, Starts, SameFiles
<1>3. CASE Resume
  <2>1. \E kept \in 1..Len(Lines) : drv' = [Off(drv.no + 1) EXCEPT !.pc = "open", !.seq = kept]
    BY <1>3 DEF Resume
  <2>2. /\ drv'.no = drv.no + 1 /\ drv'.paused = FALSE /\ drv'.seen = 0 /\ drv'.line.end = FALSE
        /\ drv'.pc = "open"
    BY <2>1 DEF Off, NoLine
  <2> QED
    BY <1>3, <2>2 DEF Resume, Starts, SameFiles
<1>4. CASE Opened
  <2>1. /\ drv.pc = "open" /\ drv'.pc = "poll" /\ drv'.no = drv.no /\ drv'.acked = AckedIn(acks)
        /\ drv'.seen = drv.seen /\ drv'.paused = drv.paused
    BY <1>1, <1>4 DEF Opened, DriverType
  <2> QED
    BY <1>4, <2>1 DEF Opened, Reads, SameFiles
<1>5. CASE PollControl
  <2>1. /\ drv.pc = "poll" /\ drv'.pc = "control" /\ drv'.no = drv.no /\ drv'.acked = drv.acked
        /\ drv'.seen = Len(reqs) /\ drv'.paused = drv.paused
    BY <1>1, <1>5 DEF PollControl, DriverType
  <2> QED
    BY <1>5, <2>1 DEF PollControl, Moves, SameFiles, InHand
<1>6. CASE Apply
  <2> DEFINE id == NextRequest
  <2>1. /\ drv.pc = "control" /\ id \in 1..Len(reqs) /\ id \notin drv.acked
        /\ UNCHANGED <<files, reqs, acks, ended, view>>
        /\ \/ drv' = [drv EXCEPT !.pc = "ack", !.answer = id, !.outcome = "refused"]
           \/ /\ reqs[id] \in {"pause", "resume"}
              /\ drv' = [drv EXCEPT !.pc = "ack", !.answer = id, !.outcome = "applied",
                                    !.paused = (reqs[id] = "pause")]
           \/ /\ reqs[id] = "stop"
              /\ drv' = [drv EXCEPT !.pc = "emit", !.answer = id, !.outcome = "applied",
                           !.line = [seq |-> drv.seq + 1, by |-> drv.no, end |-> TRUE]]
    BY <1>6, ApplyIs
  <2> HIDE DEF id
  <2>2. CASE drv' = [drv EXCEPT !.pc = "ack", !.answer = id, !.outcome = "refused"]
    <3>1. /\ drv'.pc = "ack" /\ drv'.answer = id /\ drv'.outcome = "refused"
          /\ drv'.paused = drv.paused /\ SameHand
      BY <1>1, <2>2 DEF DriverType, SameHand
    <3> QED
      BY <2>1, <3>1 DEF Takes, SameFiles
  <2>3. CASE /\ reqs[id] \in {"pause", "resume"}
             /\ drv' = [drv EXCEPT !.pc = "ack", !.answer = id, !.outcome = "applied",
                                   !.paused = (reqs[id] = "pause")]
    <3> DEFINE paused == reqs[id] = "pause"
    <3>1. drv' = [drv EXCEPT !.pc = "ack", !.answer = id, !.outcome = "applied", !.paused = paused]
      BY <2>3
    <3> HIDE DEF paused
    <3>2. /\ drv'.pc = "ack" /\ drv'.answer = id /\ drv'.paused = paused /\ SameHand
          /\ drv'.outcome = "applied"
      BY <1>1, <3>1 DEF DriverType, SameHand
    <3> QED
      BY <2>1, <2>3, <3>2 DEF Takes, SameFiles, paused
  <2>4. CASE /\ reqs[id] = "stop"
             /\ drv' = [drv EXCEPT !.pc = "emit", !.answer = id, !.outcome = "applied",
                          !.line = [seq |-> drv.seq + 1, by |-> drv.no, end |-> TRUE]]
    <3>1. /\ drv'.pc = "emit" /\ drv'.answer = id /\ drv'.paused = drv.paused /\ SameHand
      BY <1>1, <2>4 DEF DriverType, SameHand
    <3> QED
      BY <2>1, <2>4, <3>1 DEF Takes, SameFiles
  <2> QED
    BY <2>1, <2>2, <2>3, <2>4
<1>7. CASE Proceed
  <2> DEFINE line == [seq |-> drv.seq + 1, by |-> drv.no, end |-> FALSE]
  <2>1. /\ drv.pc = "control"
        /\ \/ drv' = Off(drv.no) \/ drv' = [drv EXCEPT !.pc = "poll"]
           \/ drv' = [drv EXCEPT !.pc = "emit", !.line = line]
    BY <1>7 DEF Proceed
  <2>2. CASE drv' = Off(drv.no)
    <3>1. SameFiles
      BY <1>7 DEF Proceed, SameFiles
    <3>2. drv'.pc = "off" /\ drv'.paused = FALSE /\ drv'.seen = 0 /\ drv'.no = drv.no
      BY <2>2 DEF Off
    <3> QED
      BY <3>1, <3>2 DEF Stops
  <2>3. CASE drv' = [drv EXCEPT !.pc = "poll"]
    <3>1. /\ drv'.pc = "poll" /\ drv'.no = drv.no /\ drv'.acked = drv.acked
          /\ drv'.seen = drv.seen /\ drv'.paused = drv.paused
      BY <1>1, <2>3 DEF DriverType
    <3> QED
      BY <1>7, <2>1, <3>1 DEF Proceed, Moves, SameFiles, InHand
  <2>4. CASE drv' = [drv EXCEPT !.pc = "emit", !.line = line]
    <3>1. /\ drv'.pc = "emit" /\ drv'.no = drv.no /\ drv'.acked = drv.acked
          /\ drv'.seen = drv.seen /\ drv'.paused = drv.paused /\ drv'.line = line
      BY <1>1, <2>4 DEF DriverType
    <3>2. drv'.line.end = FALSE
      BY <3>1
    <3> QED
      BY <1>7, <2>1, <3>1, <3>2 DEF Proceed, Moves, SameFiles, InHand
  <2> QED
    BY <2>1, <2>2, <2>3, <2>4
<1>8. CASE EmitHead
  <2>1. /\ drv.pc = "emit" /\ drv'.pc = "emitting" /\ drv'.no = drv.no /\ drv'.acked = drv.acked
        /\ drv'.seen = drv.seen /\ drv'.paused = drv.paused /\ drv'.line = drv.line
        /\ drv'.answer = drv.answer
    BY <1>1, <1>8 DEF EmitHead, DriverType
  <2> QED
    BY <1>8, <2>1 DEF EmitHead, Moves, SameFiles, InHand
<1>9. CASE EmitTail
  <2>1. /\ drv.pc = "emitting" /\ drv'.pc \in {"open", "poll", "ending"}
        /\ drv'.pc = "ending" => drv.line.end
        /\ drv'.no = drv.no /\ drv'.acked = drv.acked
        /\ drv'.seen = drv.seen /\ drv'.paused = drv.paused /\ drv'.answer = drv.answer
    BY <1>1, <1>9 DEF EmitTail, DriverType
  <2> QED
    BY <1>9, <2>1 DEF EmitTail, Moves, SameFiles, InHand
<1>10. CASE WriteEnded
  <2>1. /\ drv.pc = "ending" /\ drv'.pc = "ack" /\ SameHand
        /\ drv'.paused = drv.paused /\ drv'.answer = drv.answer
    BY <1>1, <1>10 DEF WriteEnded, DriverType, SameHand
  <2> QED
    BY <1>10, <2>1 DEF WriteEnded, Hands, SameFiles
<1>11. CASE AckHead
  <2>1. /\ drv.pc = "ack" /\ drv'.pc = "acking" /\ SameHand /\ drv'.outcome = drv.outcome
        /\ drv'.paused = drv.paused /\ drv'.answer = drv.answer
    BY <1>1, <1>11 DEF AckHead, DriverType, SameHand
  <2> QED
    BY <1>11, <2>1 DEF AckHead, WritesHead, Now
<1>12. CASE AckTail
  <2>1. /\ drv.pc = "acking" /\ drv'.pc = "control" /\ drv'.no = drv.no
        /\ drv'.acked = drv.acked \cup {drv.answer} /\ drv'.seen = drv.seen
        /\ drv'.paused = drv.paused
    BY <1>1, <1>12 DEF AckTail, DriverType
  <2> QED
    BY <1>12, <2>1 DEF AckTail, WritesTail, Now
<1>13. CASE Refuse \/ EmitFails \/ Kill
  <2>1. /\ UNCHANGED <<acks, reqs>>
        /\ drv' = Off(drv.no) \/ drv' = Off(drv.no + 1)
    BY <1>13 DEF Refuse, EmitFails, Kill
  <2> QED
    BY <2>1 DEF Off, Stops, SameFiles
<1>14. CASE Viewer \/ (\E action \in Actions : Send(action)) \/ UNCHANGED vars
  BY <1>14 DEF Viewer, Open, Tail_, ReadAcks, ReadRequests, Refresh, Send, vars, Rests
<1> QED
  BY <1>2, <1>3, <1>4, <1>5, <1>6, <1>7, <1>8, <1>9, <1>10, <1>11, <1>12, <1>13, <1>14
  DEF Next, Driver

(* The first half of an ack adds nothing that can be read, the second adds
   the ack, or, after a torn one, nothing ever. *)
LEMMA AcksWritten ==
  ASSUME TypeOK
  PROVE  /\ Now \in AckLine
         /\ WritesHead => Answers' = Answers /\ Broken(acks, 0)' = Broken(acks, 0)
         /\ WritesTail => \/ Answers' = Append(Answers, Now)
                             /\ Broken(acks, 0)' = Broken(acks, 0)
                          \/ Answers' = Answers /\ Broken(acks, 0)' = TRUE
<1>1. Now \in AckLine
  BY DEF TypeOK, DriverType, Now, Ack, AckLine
<1>2. /\ Head1(Now) \in Half(AckLine) /\ ~Head1(Now).end
      /\ Tail1(Now) \in Half(AckLine) /\ Tail1(Now).end /\ Tail1(Now).of = Now
  BY <1>1, HalfIs
<1>3. acks \in Seq(Half(AckLine)) /\ Broken(acks, 0) \in BOOLEAN
  BY DEF TypeOK, Broken
<1>4. ASSUME WritesHead PROVE Answers' = Answers /\ Broken(acks, 0)' = Broken(acks, 0)
  <2> DEFINE h == Head1(Now)
             c == Append(acks, h)
  <2>1. acks' = c
    BY <1>4 DEF WritesHead
  <2>2. h \in Half(AckLine) /\ ~h.end
    BY <1>2
  <2> HIDE DEF h
  <2>3. /\ Parsed(c, 0) = IF h.end /\ Parses(c, 0, Len(c)) THEN Append(Parsed(acks, 0), h.of)
                                                        ELSE Parsed(acks, 0)
        /\ Broken(c, 0) <=> Broken(acks, 0) \/ (h.end /\ ~Parses(c, 0, Len(c)))
    BY <1>3, <2>2, ParsedAppend
  <2>4. Parsed(c, 0) = Parsed(acks, 0) /\ (Broken(c, 0) <=> Broken(acks, 0))
    BY <2>2, <2>3
  <2>5. Broken(c, 0) \in BOOLEAN
    BY DEF Broken
  <2> HIDE DEF c
  <2> QED
    BY <1>3, <2>1, <2>4, <2>5 DEF Answers
<1>5. ASSUME WritesTail
      PROVE  \/ Answers' = Append(Answers, Now) /\ Broken(acks, 0)' = Broken(acks, 0)
             \/ Answers' = Answers /\ Broken(acks, 0)' = TRUE
  <2> DEFINE t == Tail1(Now)
             c == Append(acks, t)
  <2>1. acks' = c
    BY <1>5 DEF WritesTail
  <2>2. t \in Half(AckLine) /\ t.end /\ t.of = Now
    BY <1>2
  <2> HIDE DEF t
  <2>3. /\ Parsed(c, 0) = IF t.end /\ Parses(c, 0, Len(c)) THEN Append(Parsed(acks, 0), t.of)
                                                        ELSE Parsed(acks, 0)
        /\ Broken(c, 0) <=> Broken(acks, 0) \/ (t.end /\ ~Parses(c, 0, Len(c)))
    BY <1>3, <2>2, ParsedAppend
  <2>4. Broken(c, 0) \in BOOLEAN
    BY DEF Broken
  <2>5. CASE Parses(c, 0, Len(c))
    <3>1. Parsed(c, 0) = Append(Parsed(acks, 0), Now) /\ (Broken(c, 0) <=> Broken(acks, 0))
      BY <2>2, <2>3, <2>5
    <3> HIDE DEF c
    <3> QED
      BY <1>3, <2>1, <2>4, <3>1 DEF Answers
  <2>6. CASE ~Parses(c, 0, Len(c))
    <3>1. Parsed(c, 0) = Parsed(acks, 0) /\ Broken(c, 0)
      BY <2>2, <2>3, <2>6
    <3> HIDE DEF c
    <3> QED
      BY <2>1, <2>4, <3>1 DEF Answers
  <2> QED
    BY <2>5, <2>6
<1> QED
  BY <1>1, <1>4, <1>5

(* What was answered is what a reader of acks.jsonl finds answered. *)
LEMMA AckedAre ==
  ASSUME TypeOK
  PROVE  \A i \in 1..Len(Answers) : Answers[i].id \in AckedIn(acks)
<1>1. Answers \in Seq(AckLine)
  BY LinesType
<1>2. \A i \in 1..Len(Answers) : Answers[i] \in ToSet(Answers)
  BY <1>1 DEF ToSet
<1> QED
  BY <1>2 DEF AckedIn, Answers

(* Steps that leave acks.jsonl alone *)
LEMMA AcksQuiet ==
  ASSUME TypeOK, AcksHold, UNCHANGED acks,
         Len(reqs) <= Len(reqs'), Len(reqs') \in Nat,
         drv.no <= drv'.no, drv'.no \in Nat,
         drv'.seen <= Len(reqs'),
         \/ drv'.pc \in {"off", "open"}
         \/ drv.pc \notin {"off", "open"} /\ drv'.acked = drv.acked
         \/ drv'.acked = AckedIn(acks),
         InHand' => drv'.answer \in 1..Len(reqs') /\ drv'.answer \notin drv'.acked
  PROVE  AcksHold'
<1>1. Answers' = Answers
  BY DEF Answers
<1>2. AnsweredOnce'
  BY <1>1 DEF AcksHold, AnsweredOnce, Answers
<1>3. ASSUME NEW i \in 1..Len(Answers)
      PROVE  Answers[i].id \in 1..Len(reqs') /\ Answers[i].by <= drv'.no
  <2>1. Answers[i] \in AckLine /\ drv.no \in Nat /\ Len(reqs) \in Nat
    BY LinesType DEF TypeOK, DriverType
  <2>2. Answers[i].id \in 1..Len(reqs) /\ Answers[i].by <= drv.no
    BY DEF AcksHold
  <2>3. Answers[i].by \in Nat
    BY <2>1 DEF AckLine
  <2> QED
    BY <2>1, <2>2, <2>3
<1>4. drv'.pc \notin {"off", "open"} => \A i \in 1..Len(Answers) : Answers[i].id \in drv'.acked
  BY AckedAre DEF AcksHold
<1> QED
  BY <1>1, <1>2, <1>3, <1>4 DEF AcksHold

(* Every step keeps what holds of the acknowledgements. *)
LEMMA AcksStep ==
  ASSUME TypeOK, TypeOK', AcksHold, [Next]_vars
  PROVE  AcksHold'
<1>1. /\ drv.no \in Nat /\ drv'.no \in Nat /\ Len(reqs) \in Nat /\ Len(reqs') \in Nat
      /\ drv.seen \in Nat /\ drv.seen <= Len(reqs)
      /\ InHand => drv.answer \in 1..Len(reqs) /\ drv.answer \notin drv.acked
  BY DEF TypeOK, DriverType, AcksHold
<1>2. \/ Rests \/ Stops \/ Starts \/ Reads \/ Moves \/ Takes \/ Hands \/ WritesHead \/ WritesTail
  BY <1>1, DriverForms
<1>3. CASE Rests
  <2>1. Len(reqs) <= Len(reqs') /\ \A id \in 1..Len(reqs) : id \in 1..Len(reqs')
    <3>1. reqs' = reqs \/ \E action \in Actions : reqs' = Append(reqs, action)
      BY <1>3 DEF Rests
    <3>2. Len(reqs') = Len(reqs) \/ Len(reqs') = Len(reqs) + 1
      BY <3>1 DEF TypeOK
    <3> QED
      BY <1>1, <3>2
  <2>2. drv' = drv /\ acks' = acks
    BY <1>3 DEF Rests
  <2>3. InHand' => InHand
    BY <2>2 DEF InHand
  <2>4. drv'.seen <= Len(reqs')
    BY <1>1, <2>1, <2>2
  <2> QED
    BY <1>1, <2>1, <2>2, <2>3, <2>4, AcksQuiet
<1>4. CASE Stops
  <2>1. ~InHand'
    BY <1>4 DEF Stops, InHand
  <2> QED
    BY <1>1, <1>4, <2>1, AcksQuiet DEF Stops, SameFiles
<1>5. CASE Starts
  <2>1. ~InHand'
    BY <1>5 DEF Starts, InHand
  <2> QED
    BY <1>1, <1>5, <2>1, AcksQuiet DEF Starts, SameFiles
<1>6. CASE Reads
  <2>1. ~InHand'
    BY <1>6 DEF Reads, InHand
  <2> QED
    BY <1>1, <1>6, <2>1, AcksQuiet DEF Reads, SameFiles
<1>7. CASE Moves
  <2>1. drv'.seen <= Len(reqs') /\ reqs' = reqs
    BY <1>1, <1>7 DEF Moves, SameFiles
  <2>2. InHand' => drv'.answer \in 1..Len(reqs') /\ drv'.answer \notin drv'.acked
    BY <1>1, <1>7, <2>1 DEF Moves
  <2>3. drv.pc \notin {"off", "open"} /\ drv'.acked = drv.acked
    BY <1>7 DEF Moves
  <2> QED
    BY <1>1, <1>7, <2>1, <2>2, <2>3, AcksQuiet DEF Moves, SameFiles
<1>8. CASE Takes
  BY <1>1, <1>8, AcksQuiet DEF Takes, SameFiles, SameHand
<1>9. CASE Hands
  <2>1. InHand /\ drv.pc \notin {"off", "open"}
    BY <1>9 DEF Hands, InHand
  <2> QED
    BY <1>1, <1>9, <2>1, AcksQuiet DEF Hands, SameFiles, SameHand
<1>10. CASE WritesHead
  <2>1. InHand /\ drv.pc \notin {"off", "open"} /\ drv'.pc \notin {"off", "open"}
    BY <1>10 DEF WritesHead, InHand
  <2>2. Answers' = Answers
    BY <1>10, AcksWritten
  <2>3. AnsweredOnce'
    BY <2>2 DEF AcksHold, AnsweredOnce, Answers
  <2> QED
    BY <1>1, <1>10, <2>1, <2>2, <2>3 DEF AcksHold, WritesHead, SameHand
<1>11. CASE WritesTail
  <2>1. InHand /\ drv.pc \notin {"off", "open"} /\ ~InHand'
    BY <1>11 DEF WritesTail, InHand
  <2>2. /\ reqs' = reqs /\ drv'.no = drv.no /\ drv'.acked = drv.acked \cup {drv.answer}
        /\ drv'.seen = drv.seen
    BY <1>11 DEF WritesTail
  <2>3. \A i \in 1..Len(Answers) : /\ Answers[i].id \in 1..Len(reqs) /\ Answers[i].by <= drv.no
                                   /\ Answers[i].id \in drv.acked
    BY <2>1 DEF AcksHold
  <2>4. Answers \in Seq(AckLine) /\ Now \in AckLine /\ Now.id = drv.answer /\ Now.by = drv.no
    BY AcksWritten, LinesType DEF Now, Ack
  <2>5. Answers' = Answers \/ Answers' = Append(Answers, Now)
    BY <1>11, AcksWritten
  <2>6. CASE Answers' = Answers
    <3>1. AnsweredOnce'
      BY <2>6 DEF AcksHold, AnsweredOnce, Answers
    <3> QED
      BY <1>1, <2>1, <2>2, <2>3, <2>6, <3>1 DEF AcksHold
  <2>7. CASE Answers' = Append(Answers, Now)
    <3> DEFINE n == Len(Answers)
               s == Append(Answers, Now)
    <3>1. n \in Nat /\ Len(s) = n + 1 /\ s[n + 1] = Now /\ \A i \in 1..n : s[i] = Answers[i]
      BY <2>4
    <3>2. 1..Len(s) = 1..n \cup {n + 1}
      <4> HIDE DEF s
      <4>1. n \in Nat /\ Len(s) = n + 1
        BY <3>1
      <4> HIDE DEF n
      <4> QED
        BY <4>1
    <3>3. \A i \in 1..n : /\ s[i].id \in drv.acked /\ s[i].id \in 1..Len(reqs) /\ s[i].by <= drv.no
      BY <2>3, <3>1
    <3>4. \A i, k \in 1..n : s[i].id = s[k].id => i = k
      BY <3>1 DEF AcksHold, AnsweredOnce, Answers
    <3>5. /\ s[n + 1].id = drv.answer /\ s[n + 1].by = drv.no
          /\ drv.answer \in 1..Len(reqs) /\ drv.answer \notin drv.acked
      BY <1>1, <2>1, <2>4, <3>1
    <3> HIDE DEF s, n
    <3>6. \A i, k \in 1..Len(s) : s[i].id = s[k].id => i = k
      BY <3>2, <3>3, <3>4, <3>5
    <3>7. \A i \in 1..Len(s) : /\ s[i].id \in 1..Len(reqs') /\ s[i].by <= drv'.no
                               /\ s[i].id \in drv'.acked
      BY <1>1, <2>2, <3>2, <3>3, <3>5
    <3>8. Answers' = s
      BY <2>7 DEF s
    <3>9. AnsweredOnce'
      BY <3>6, <3>8 DEF AnsweredOnce, Answers
    <3> QED
      BY <1>1, <2>1, <2>2, <3>7, <3>8, <3>9 DEF AcksHold
  <2> QED
    BY <2>5, <2>6, <2>7
<1> QED
  BY <1>2, <1>3, <1>4, <1>5, <1>6, <1>7, <1>8, <1>9, <1>10, <1>11

(* Every step keeps the acknowledgements framed. *)
LEMMA AcksFramed ==
  ASSUME TypeOK, FilesHold, AcksHold, [Next]_vars
  PROVE  Framed(acks') /\ (drv'.pc = "acking" => Torn(acks'))
<1>1. \/ Rests \/ Stops \/ Starts \/ Reads \/ Moves \/ Takes \/ Hands \/ WritesHead \/ WritesTail
  BY DriverForms DEF AcksHold
<1>2. /\ acks \in Seq(Half(AckLine)) /\ Now \in AckLine /\ Framed(acks)
      /\ drv.pc = "acking" => Torn(acks)
  BY AcksWritten DEF TypeOK, FilesHold
<1>3. /\ Head1(Now) \in Half(AckLine) /\ ~Head1(Now).end /\ Tail1(Now) \in Half(AckLine)
  BY <1>2, HalfIs
<1>4. CASE WritesHead
  <2>1. Framed(Append(acks, Head1(Now)))
    BY <1>2, <1>3, FramedAppend
  <2>2. Torn(Append(acks, Head1(Now)))
    BY <1>2, TornHead
  <2> QED
    BY <1>4, <2>1, <2>2 DEF WritesHead
<1>5. CASE WritesTail
  <2>1. Framed(Append(acks, Tail1(Now)))
    BY <1>2, <1>3, <1>5, FramedAppend DEF WritesTail
  <2> QED
    BY <1>5, <2>1 DEF WritesTail
<1>6. CASE Rests
  BY <1>2, <1>6 DEF Rests
<1>7. CASE Stops \/ Starts \/ Reads \/ Moves \/ Takes \/ Hands
  <2>1. acks' = acks /\ drv'.pc # "acking"
    BY <1>7 DEF Stops, Starts, Reads, Moves, Takes, Hands, SameFiles
  <2> QED
    BY <1>2, <2>1
<1> QED
  BY <1>1, <1>4, <1>5, <1>6, <1>7

-----------------------------------------------------------------------------
(* The pause *)

(* A step that neither answers nor changes what was answered *)
LEMMA PauseQuiet ==
  ASSUME TypeOK, AcksHold, PauseTold, Answers' = Answers,
         \A id \in 1..Len(reqs) : reqs'[id] = reqs[id],
         drv'.no = drv.no, drv'.paused = drv.paused
  PROVE  PauseTold'
<1>1. \A i \in 1..Len(Answers) : OfPause(Answers[i])' = OfPause(Answers[i])
  <2> TAKE i \in 1..Len(Answers)
  <2>1. reqs'[Answers[i].id] = reqs[Answers[i].id]
    BY DEF AcksHold
  <2> QED
    BY <2>1 DEF OfPause
<1>2. Mine' = Mine
  BY <1>1 DEF Mine
<1>3. \A i \in Mine : reqs'[Answers[i].id] = reqs[Answers[i].id]
  BY DEF Mine, AcksHold
<1> QED
  BY <1>2, <1>3 DEF PauseTold

(* Every step keeps the pause the one that was last acknowledged. *)
LEMMA PauseStep ==
  ASSUME TypeOK, TypeOK', AcksHold, PauseHolds, [Next]_vars
  PROVE  PauseHolds'
<1>1. \/ Rests \/ Stops \/ Starts \/ Reads \/ Moves \/ Takes \/ Hands \/ WritesHead \/ WritesTail
  BY DriverForms DEF AcksHold
<1>2. /\ InHand => drv.answer \in 1..Len(reqs)
      /\ drv.no \in Nat /\ drv.paused \in BOOLEAN /\ reqs \in Seq(Actions)
  BY DEF AcksHold, TypeOK, DriverType
<1>3. CASE Rests
  <2>1. drv' = drv /\ acks' = acks
    BY <1>3 DEF Rests
  <2>2. \A id \in 1..Len(reqs) : reqs'[id] = reqs[id]
    <3>1. reqs' = reqs \/ \E action \in Actions : reqs' = Append(reqs, action)
      BY <1>3 DEF Rests
    <3> QED
      BY <1>2, <3>1
  <2>3. Answers' = Answers /\ Broken(acks, 0)' = Broken(acks, 0) /\ InHand' = InHand /\ Now' = Now
    BY <2>1 DEF Answers, InHand, Now
  <2>4. ~Broken(acks, 0) /\ drv.pc \in {"ack", "acking"} => OfPause(Now)' = OfPause(Now)
    <3>1. drv.pc \in {"ack", "acking"} => reqs'[Now.id] = reqs[Now.id]
      BY <1>2, <2>2 DEF InHand, Now, Ack
    <3> QED
      BY <2>3, <3>1 DEF OfPause
  <2>5. PauseTold => PauseTold'
    BY <2>1, <2>2, <2>3, PauseQuiet
  <2>6. InHand => reqs'[drv.answer] = reqs[drv.answer]
    BY <1>2, <2>2
  <2>7. drv.pc \in {"ack", "acking"} => InHand
    BY DEF InHand
  <2> QED
    BY <2>1, <2>3, <2>4, <2>5, <2>6, <2>7 DEF PauseHolds
<1>4. CASE Stops
  BY <1>4 DEF Stops, PauseHolds, InHand
<1>5. CASE Starts
  <2>1. Mine' = {}
    <3>1. Answers' = Answers
      BY <1>5 DEF Starts, SameFiles, Answers
    <3>2. \A i \in 1..Len(Answers) : Answers[i].by # drv'.no
      <4> TAKE i \in 1..Len(Answers)
      <4>1. Answers[i] \in AckLine
        BY LinesType
      <4>2. Answers[i].by \in Nat /\ Answers[i].by <= drv.no
        BY <4>1 DEF AckLine, AcksHold
      <4> QED
        BY <1>2, <1>5, <4>2 DEF Starts
    <3> QED
      BY <3>1, <3>2 DEF Mine
  <2>2. PauseTold'
    BY <1>5, <2>1 DEF PauseTold, Starts
  <2> QED
    BY <1>5, <2>2 DEF Starts, PauseHolds, InHand
<1>6. CASE Reads \/ Moves
  <2>1. /\ acks' = acks /\ reqs' = reqs /\ drv'.no = drv.no /\ drv'.paused = drv.paused
        /\ drv.pc \notin {"off", "ack", "acking"} /\ drv'.pc \notin {"off", "ack", "acking"}
    BY <1>6 DEF Reads, Moves, SameFiles
  <2>2. InHand' => InHand /\ drv'.answer = drv.answer
    BY <1>6 DEF Reads, Moves, InHand
  <2>3. Answers' = Answers /\ Broken(acks, 0)' = Broken(acks, 0)
    BY <2>1 DEF Answers
  <2>4. PauseTold => PauseTold'
    BY <2>1, <2>3, PauseQuiet
  <2> QED
    BY <2>1, <2>2, <2>3, <2>4 DEF PauseHolds
<1>7. CASE Takes
  <2>1. /\ acks' = acks /\ reqs' = reqs /\ drv'.no = drv.no /\ drv.pc = "control"
    BY <1>7 DEF Takes, SameFiles, SameHand
  <2>2. Answers' = Answers /\ Broken(acks, 0)' = Broken(acks, 0)
    BY <2>1 DEF Answers
  <2>3. drv'.paused = drv.paused /\ PauseTold => PauseTold'
    BY <2>1, <2>2, PauseQuiet
  <2>4. ~Broken(acks, 0) => PauseTold
    BY <2>1 DEF PauseHolds
  <2>5. CASE drv'.pc = "ack" /\ drv'.outcome = "refused" /\ drv'.paused = drv.paused
    <3>1. ~OfPause(Now)'
      BY <2>5 DEF OfPause, Now, Ack
    <3> QED
      BY <2>2, <2>3, <2>4, <2>5, <3>1 DEF PauseHolds
  <2>6. CASE /\ drv'.pc = "ack" /\ drv'.outcome = "applied"
             /\ reqs[drv'.answer] \in {"pause", "resume"}
             /\ drv'.paused = (reqs[drv'.answer] = "pause")
    <3>1. OfPause(Now)'
      BY <2>1, <2>6 DEF OfPause, Now, Ack
    <3> QED
      BY <2>1, <2>6, <3>1 DEF PauseHolds
  <2>7. CASE drv'.pc = "emit" /\ reqs[drv'.answer] = "stop" /\ drv'.paused = drv.paused
    BY <2>1, <2>2, <2>3, <2>4, <2>7 DEF PauseHolds
  <2> QED
    BY <1>7, <2>5, <2>6, <2>7 DEF Takes
<1>8. CASE Hands
  <2>1. /\ acks' = acks /\ reqs' = reqs /\ drv'.no = drv.no /\ drv'.paused = drv.paused
        /\ drv.pc = "ending" /\ drv'.pc = "ack" /\ drv'.answer = drv.answer
    BY <1>8 DEF Hands, SameFiles, SameHand
  <2>2. Answers' = Answers /\ Broken(acks, 0)' = Broken(acks, 0)
    BY <2>1 DEF Answers
  <2>3. reqs[drv.answer] = "stop"
    BY <2>1 DEF PauseHolds, InHand
  <2>4. ~OfPause(Now)'
    BY <2>1, <2>3 DEF OfPause, Now, Ack
  <2>5. PauseTold => PauseTold'
    BY <2>1, <2>2, PauseQuiet
  <2> QED
    BY <2>1, <2>2, <2>4, <2>5 DEF PauseHolds
<1>9. CASE WritesHead
  <2>1. /\ reqs' = reqs /\ drv'.no = drv.no /\ drv'.paused = drv.paused
        /\ drv.pc = "ack" /\ drv'.pc = "acking" /\ drv'.answer = drv.answer
        /\ drv'.outcome = drv.outcome
    BY <1>9 DEF WritesHead, SameHand
  <2>2. Answers' = Answers /\ Broken(acks, 0)' = Broken(acks, 0)
    BY <1>9, AcksWritten
  <2>3. OfPause(Now)' = OfPause(Now)
    BY <2>1 DEF OfPause, Now, Ack
  <2>4. PauseTold => PauseTold'
    BY <2>1, <2>2, PauseQuiet
  <2> QED
    BY <2>1, <2>2, <2>3, <2>4 DEF PauseHolds
<1>10. CASE WritesTail
  <2>1. /\ reqs' = reqs /\ drv'.no = drv.no /\ drv'.paused = drv.paused
        /\ drv.pc = "acking" /\ drv'.pc = "control"
    BY <1>10 DEF WritesTail
  <2>2. ~Broken(acks, 0)' => PauseTold'
    <3>1. SUFFICES ASSUME ~Broken(acks, 0)' PROVE PauseTold'
      OBVIOUS
    <3>2. Answers' = Append(Answers, Now) /\ ~Broken(acks, 0)
      BY <1>10, <3>1, AcksWritten
    <3> DEFINE n == Len(Answers)
               s == Append(Answers, Now)
    <3>3. n \in Nat /\ Len(s) = n + 1 /\ s[n + 1] = Now /\ \A i \in 1..n : s[i] = Answers[i]
      BY AcksWritten, LinesType
    <3>4. 1..Len(s) = 1..n \cup {n + 1}
      <4> HIDE DEF s
      <4>1. n \in Nat /\ Len(s) = n + 1
        BY <3>3
      <4> HIDE DEF n
      <4> QED
        BY <4>1
    <3>5. Mine = {i \in 1..n : Answers[i].by = drv.no /\ OfPause(Answers[i])}
      BY DEF Mine
    <3>6. Answers' = s
      BY <3>2
    <3> HIDE DEF s, n
    <3>7. Mine' = {i \in 1..Len(s) : s[i].by = drv.no /\ s[i].outcome = "applied"
                                                    /\ reqs[s[i].id] \in {"pause", "resume"}}
      BY <2>1, <3>6 DEF Mine, OfPause
    <3>8. Mine' = IF OfPause(Now) THEN Mine \cup {n + 1} ELSE Mine
      <4>1. Now.by = drv.no
        BY DEF Now, Ack
      <4>2. ~(n + 1 \in 1..n)
        BY <3>3
      <4> QED
        BY <3>3, <3>4, <3>5, <3>7, <4>1, <4>2 DEF OfPause
    <3>9. CASE OfPause(Now)
      <4>1. drv.paused = (reqs[drv.answer] = "pause")
        BY <2>1, <3>2, <3>9 DEF PauseHolds
      <4>2. n + 1 \in Mine' /\ \A k \in Mine' : k <= n + 1
        BY <3>3, <3>5, <3>8, <3>9
      <4>3. s[n + 1].id = drv.answer
        BY <3>3 DEF Now, Ack
      <4> QED
        BY <2>1, <3>6, <4>1, <4>2, <4>3 DEF PauseTold
    <3>10. CASE ~OfPause(Now)
      <4>1. PauseTold
        BY <2>1, <3>2, <3>10 DEF PauseHolds
      <4>2. Mine' = Mine /\ \A i \in Mine : s[i] = Answers[i]
        BY <3>3, <3>5, <3>8, <3>10
      <4> QED
        BY <2>1, <3>6, <4>1, <4>2 DEF PauseTold
    <3> QED
      BY <3>9, <3>10
  <2>3. ~InHand'
    BY <2>1 DEF InHand
  <2> QED
    BY <2>1, <2>2, <2>3 DEF PauseHolds
<1> QED
  BY <1>1, <1>3, <1>4, <1>5, <1>6, <1>7, <1>8, <1>9, <1>10

-----------------------------------------------------------------------------
(* The theorems *)

(* The invariant holds at the start. *)
LEMMA InitHolds == Init => IInv
<1> SUFFICES ASSUME Init PROVE IInv
  OBVIOUS
<1>1. TypeOK
  BY InitType
<1>2. /\ Len(files) = 1 /\ files[1].bytes = <<>> /\ acks = <<>> /\ reqs = <<>>
      /\ Len(reqs) = 0 /\ Journal.bytes = <<>>
  BY DEF Init, Journal
<1>3. Framed(<<>>)
  BY DEF Framed
<1>4. drv = Off(0) /\ drv.pc = "off" /\ drv.paused = FALSE /\ drv.seen = 0 /\ drv.no = 0
  BY DEF Init, Off
<1>5. FilesHold
  <2>1. \A f \in 1..Len(files) : f = 1
    BY <1>2
  <2> QED
    BY <1>2, <1>3, <1>4, <2>1 DEF FilesHold
<1>6. ViewHolds
  BY DEF Init, ViewHolds
<1>7. Answers = <<>> /\ Len(Answers) = 0
  BY <1>2, ParsedNothing DEF Answers
<1>8. AcksHold
  <2>1. \A i \in 1..Len(Answers) : FALSE
    BY <1>7
  <2>2. AnsweredOnce
    BY <2>1 DEF AnsweredOnce, Answers
  <2> QED
    BY <1>2, <1>4, <2>1, <2>2 DEF AcksHold, InHand
<1>9. PauseHolds
  BY <1>4 DEF PauseHolds, InHand
<1> QED
  BY <1>1, <1>5, <1>6, <1>8, <1>9 DEF IInv

(* Every step keeps the invariant. *)
LEMMA NextHolds == IInv /\ [Next]_vars => IInv'
<1> SUFFICES ASSUME IInv, [Next]_vars PROVE IInv'
  OBVIOUS
<1>1. TypeOK /\ FilesHold /\ ViewHolds /\ AcksHold /\ PauseHolds /\ drv.seen <= Len(reqs)
  BY DEF IInv, AcksHold
<1>2. TypeOK'
  BY <1>1, TypeStep
<1>3. FilesHold'
  BY <1>1, JournalFramed, AcksFramed DEF FilesHold
<1>4. ViewHolds'
  BY <1>1, <1>2, ViewStep
<1>5. AcksHold'
  BY <1>1, <1>2, AcksStep
<1>6. PauseHolds'
  BY <1>1, <1>2, PauseStep
<1> QED
  BY <1>2, <1>3, <1>4, <1>5, <1>6 DEF IInv

(* The files, the cursor, the acknowledgements and the driver agree, whoever
   is killed, torn or replaced. *)
THEOREM Invariant == Spec => []IInv
BY InitHolds, NextHolds, PTL DEF Spec

(* The viewer shows the complete lines of one file up to its offset, and its
   fault is that of a line it has read (tail_lines, poll). *)
THEOREM ViewKeepsToOneFile == Spec => []ViewIsOneFile
<1>1. IInv => ViewIsOneFile
  BY DEF IInv, ViewHolds, ReadUpTo, ViewIsOneFile
<1> QED
  BY Invariant, <1>1, PTL

(* No request is answered twice, whatever was torn and whichever driver
   answered (poll_control, resume). *)
THEOREM RequestsAnsweredOnce == Spec => []AnsweredOnce
<1>1. IInv => AnsweredOnce
  BY DEF IInv, AcksHold
<1> QED
  BY Invariant, <1>1, PTL

(* What the last applied ack of an action is *)
LEMMA LastAppliedIs ==
  ASSUME IInv, NEW action
  PROVE  LET A == {i \in 1..Len(Answers) : /\ Answers[i].outcome = "applied"
                                           /\ reqs[Answers[i].id] = action}
             p == LastApplied(Answers, reqs, action) IN
           /\ IF A = {} THEN p = 0 ELSE p \in A /\ \A i \in A : i <= p
           /\ p \in 0..Len(Answers)
<1> DEFINE A == {i \in 1..Len(Answers) : /\ Answers[i].outcome = "applied"
                                         /\ reqs[Answers[i].id] = action}
           n == Len(Answers)
<1>1. n \in Nat
  BY LinesType DEF IInv
<1>2. \A i \in 1..n : Answers[i].id <= Len(reqs)
  <2> TAKE i \in 1..n
  <2>1. Answers[i].id \in 1..Len(reqs) /\ Len(reqs) \in Nat
    BY DEF IInv, AcksHold, TypeOK
  <2> QED
    BY <2>1
<1>3. LastApplied(Answers, reqs, action) = LastOf(0, A)
  <2>1. A = {i \in 1..n : /\ Answers[i].outcome = "applied"
                          /\ Answers[i].id <= Len(reqs) /\ reqs[Answers[i].id] = action}
    BY <1>2
  <2> QED
    BY <2>1 DEF LastApplied
<1>4. A \in SUBSET (1..n) /\ 0 \in 0..n
  BY <1>1
<1> HIDE DEF A, n
<1>5. IF A = {} THEN LastOf(0, A) = 0 ELSE LastOf(0, A) \in A /\ \A i \in A : i <= LastOf(0, A)
  BY <1>1, <1>4, LastOfIs
<1>6. LastOf(0, A) \in 0..n
  <2>1. CASE A = {}
    BY <1>4, <1>5, <2>1
  <2>2. CASE A # {}
    <3>1. LastOf(0, A) \in 1..n
      BY <1>4, <1>5, <2>2
    <3> QED
      BY <1>1, <3>1
  <2> QED
    BY <2>1, <2>2
<1> QED
  BY <1>3, <1>5, <1>6 DEF A, n

(* With the last pause or resume its own, the driver is paused iff the last
   applied pause comes after the last applied resume. *)
LEMMA PauseIsTold ==
  ASSUME IInv, PauseIsOfThisDriver, drv.pc \notin {"off", "ack", "acking"}
  PROVE  drv.paused <=> LastApplied(Answers, reqs, "pause") > LastApplied(Answers, reqs, "resume")
<1> DEFINE n == Len(Answers)
           p == LastApplied(Answers, reqs, "pause")
           q == LastApplied(Answers, reqs, "resume")
           P == {i \in 1..n : Answers[i].outcome = "applied" /\ reqs[Answers[i].id] = "pause"}
           Q == {i \in 1..n : Answers[i].outcome = "applied" /\ reqs[Answers[i].id] = "resume"}
           A == {i \in 1..n : OfPause(Answers[i])}
           last == LastOf(0, A)
<1>1. /\ IF P = {} THEN p = 0 ELSE p \in P /\ \A i \in P : i <= p
      /\ IF Q = {} THEN q = 0 ELSE q \in Q /\ \A i \in Q : i <= q
  BY LastAppliedIs
<1>2. n \in Nat
  BY LinesType DEF IInv
<1>3. A = P \cup Q /\ P \cap Q = {} /\ A \in SUBSET (1..n)
  <2>1. \A x : x \in {"pause", "resume"} <=> x = "pause" \/ x = "resume"
    OBVIOUS
  <2> QED
    BY <2>1 DEF OfPause
<1>4. ~Broken(acks, 0) /\ (last # 0 => Answers[last].by = drv.no)
  <2>1. A = {i \in 1..Len(Parsed(acks, 0)) :
               /\ Parsed(acks, 0)[i].outcome = "applied"
               /\ reqs[Parsed(acks, 0)[i].id] \in {"pause", "resume"}}
    BY DEF OfPause, Answers
  <2> QED
    BY <2>1 DEF PauseIsOfThisDriver, Answers
<1>5. PauseTold
  BY <1>4 DEF IInv, PauseHolds
<1>6. Mine \subseteq A
  BY DEF Mine
<1>7. \A i \in P : reqs[Answers[i].id] = "pause"
  OBVIOUS
<1>8. \A i \in Q : reqs[Answers[i].id] # "pause"
  OBVIOUS
<1>9. \A i \in A : Answers[i].by = drv.no => i \in Mine
  BY DEF Mine
<1> HIDE DEF P, Q, A, n
<1>10. IF A = {} THEN last = 0 ELSE last \in A /\ \A i \in A : i <= last
  <2>1. 0 \in 0..n
    BY <1>2
  <2> QED
    BY <1>2, <1>3, <2>1, LastOfIs
<1> HIDE DEF p, q, last
<1>11. CASE A = {}
  <2>1. P = {} /\ Q = {} /\ Mine = {}
    BY <1>3, <1>6, <1>11
  <2>2. drv.paused = FALSE /\ p = 0 /\ q = 0
    BY <1>1, <1>5, <2>1 DEF PauseTold
  <2> QED
    BY <2>2 DEF p, q
<1>12. CASE A # {}
  <2>1. last \in A /\ (\A i \in A : i <= last) /\ last \in 1..n /\ last # 0
    BY <1>2, <1>3, <1>10, <1>12
  <2>2. last \in Mine
    BY <1>4, <1>9, <2>1
  <2>3. PICK i \in Mine : /\ \A k \in Mine : k <= i
                          /\ drv.paused = (reqs[Answers[i].id] = "pause")
    BY <1>5, <2>2 DEF PauseTold
  <2>4. i = last
    <3>1. i \in A /\ i \in 1..n
      BY <1>3, <1>6
    <3>2. i <= last /\ last <= i
      BY <2>1, <2>2, <2>3, <3>1
    <3> QED
      BY <1>2, <2>1, <3>1, <3>2
  <2>5. drv.paused <=> last \in P
    BY <1>3, <1>7, <1>8, <2>1, <2>3, <2>4
  <2>6. \A k \in P \cup Q : k \in Nat /\ k > 0
    BY <1>2, <1>3
  <2>7. CASE last \in P
    <3>1. p = last
      <4>1. p \in P /\ last <= p
        BY <1>1, <2>7
      <4>2. p <= last
        BY <1>3, <2>1, <4>1
      <4> QED
        BY <2>6, <2>7, <4>1, <4>2
    <3>2. q < last
      <4>1. CASE Q = {}
        BY <1>1, <2>6, <2>7, <4>1
      <4>2. CASE Q # {}
        <5>1. q \in Q /\ q <= last
          BY <1>1, <1>3, <2>1, <4>2
        <5>2. q # last
          BY <1>3, <2>7, <5>1
        <5> QED
          BY <2>6, <2>7, <5>1, <5>2
      <4> QED
        BY <4>1, <4>2
    <3>3. p \in Nat /\ q \in Nat
      BY <1>1, <2>6
    <3>4. p > q
      BY <3>1, <3>2, <3>3
    <3> QED
      BY <2>5, <2>7, <3>4 DEF p, q
  <2>8. CASE last \in Q
    <3>1. q = last
      <4>1. q \in Q /\ last <= q
        BY <1>1, <2>8
      <4>2. q <= last
        BY <1>3, <2>1, <4>1
      <4> QED
        BY <2>6, <2>8, <4>1, <4>2
    <3>2. p <= last
      <4>1. CASE P = {}
        BY <1>1, <2>6, <2>8, <4>1
      <4>2. CASE P # {}
        BY <1>1, <1>3, <2>1, <4>2
      <4> QED
        BY <4>1, <4>2
    <3>3. p \in Nat /\ q \in Nat
      BY <1>1, <2>6
    <3>4. ~(p > q)
      BY <3>1, <3>2, <3>3
    <3>5. last \notin P
      BY <1>3, <2>8
    <3> QED
      BY <2>5, <3>4, <3>5 DEF p, q
  <2> QED
    BY <1>3, <2>1, <2>7, <2>8
<1> QED
  BY <1>11, <1>12

(* The badge of a viewer that has read all there is tells the driver's state,
   as long as the pause it knows of is this driver's (derive_badge). *)
THEOREM BadgeIsTrue == Spec => []BadgeTruth
<1>1. IInv => BadgeTruth
  <2> SUFFICES ASSUME IInv, Settled, drv.pc \in {"off", "poll"}, PauseIsOfThisDriver
               PROVE  LET over == ended \/ HasEnd(Lines) IN
                        /\ Badge(view) = "Ended" <=> over
                        /\ Badge(view) = "Stalled" <=> ~Up /\ ~over
                        /\ Badge(view) = "Paused" <=> drv.paused /\ ~over
                        /\ Badge(view) \in {"Running", "Starting"} =>
                             \A id \in 1..Len(reqs) : reqs[id] \in {"pause", "stop"} => id \in drv.acked
    BY DEF BadgeTruth
  <2> DEFINE over == ended \/ HasEnd(Lines)
             badge == Badge(view)
             pausing == LastApplied(Answers, reqs, "pause") > LastApplied(Answers, reqs, "resume")
             stop == Unacked(Answers, reqs, "stop")
             pause == Unacked(Answers, reqs, "pause")
  <2>1. /\ view.lines = Lines /\ view.acks = Answers /\ view.reqs = reqs /\ view.ended = ended
        /\ view.alive = (IF Up THEN "yes" ELSE "no")
    BY DEF Settled, Current, Answers
  <2>2. badge = IF over THEN "Ended"
                  ELSE IF view.alive = "unknown" THEN "Starting"
                  ELSE IF view.alive = "no" THEN "Stalled"
                  ELSE IF pausing THEN "Paused"
                  ELSE IF stop THEN "Stopping"
                  ELSE IF pause THEN "Pausing"
                  ELSE IF Lines = <<>> THEN "Starting" ELSE "Running"
    BY <2>1 DEF Badge
  <2>3. drv.paused \in BOOLEAN /\ (~Up => drv.paused = FALSE)
    BY DEF IInv, TypeOK, DriverType, PauseHolds, Up
  <2>4. Up => (drv.paused <=> pausing)
    BY PauseIsTold DEF Up
  <2>5. Up /\ ~stop /\ ~pause =>
          \A id \in 1..Len(reqs) : reqs[id] \in {"pause", "stop"} => id \in drv.acked
    <3>1. SUFFICES ASSUME Up, ~stop, ~pause, NEW id \in 1..Len(reqs), reqs[id] \in {"pause", "stop"}
                   PROVE  id \in drv.acked
      OBVIOUS
    <3>2. \E i \in 1..Len(Answers) : Answers[i].id = id
      BY <3>1 DEF Unacked
    <3> QED
      BY <3>1, <3>2 DEF IInv, AcksHold, Up
  <2> HIDE DEF over, badge, pausing, stop, pause
  <2>6. /\ over => badge = "Ended"
        /\ ~over /\ ~Up => badge = "Stalled"
        /\ ~over /\ Up /\ pausing => badge = "Paused"
        /\ ~over /\ Up /\ ~pausing /\ stop => badge = "Stopping"
        /\ ~over /\ Up /\ ~pausing /\ ~stop /\ pause => badge = "Pausing"
        /\ ~over /\ Up /\ ~pausing /\ ~stop /\ ~pause => badge = "Starting" \/ badge = "Running"
    <3> DEFINE empty == Lines = <<>>
    <3> HIDE DEF empty
    <3>1. badge = IF over THEN "Ended"
                    ELSE IF view.alive = "unknown" THEN "Starting"
                    ELSE IF view.alive = "no" THEN "Stalled"
                    ELSE IF pausing THEN "Paused"
                    ELSE IF stop THEN "Stopping"
                    ELSE IF pause THEN "Pausing"
                    ELSE IF empty THEN "Starting" ELSE "Running"
      BY <2>2 DEF empty
    <3>2. CASE over
      BY <3>1, <3>2
    <3>3. CASE ~over /\ ~Up
      <4>1. view.alive = "no"
        BY <2>1, <3>3
      <4> QED
        BY <3>1, <3>3, <4>1
    <3>4. CASE ~over /\ Up
      <4>1. view.alive # "unknown" /\ view.alive # "no"
        BY <2>1, <3>4
      <4>2. CASE pausing
        BY <3>1, <3>4, <4>1, <4>2
      <4>3. CASE ~pausing /\ stop
        BY <3>1, <3>4, <4>1, <4>3
      <4>4. CASE ~pausing /\ ~stop /\ pause
        BY <3>1, <3>4, <4>1, <4>4
      <4>5. CASE ~pausing /\ ~stop /\ ~pause
        BY <3>1, <3>4, <4>1, <4>5
      <4> QED
        BY <3>4, <4>2, <4>3, <4>4, <4>5
    <3> QED
      BY <3>2, <3>3, <3>4
  <2>7. badge = "Ended" <=> over
    BY <2>6
  <2>8. badge = "Stalled" <=> ~Up /\ ~over
    BY <2>6
  <2>9. badge = "Paused" <=> drv.paused /\ ~over
    BY <2>3, <2>4, <2>6
  <2>10. badge \in {"Running", "Starting"} =>
           \A id \in 1..Len(reqs) : reqs[id] \in {"pause", "stop"} => id \in drv.acked
    <3>1. badge \in {"Running", "Starting"} => Up /\ ~stop /\ ~pause
      BY <2>6
    <3> QED
      BY <2>5, <3>1
  <2> QED
    BY <2>7, <2>8, <2>9, <2>10 DEF over, badge
<1> QED
  BY Invariant, <1>1, PTL

=============================================================================
