-------------------------- MODULE FactLedgerProofs --------------------------
(***************************************************************************)
(* Theorems of FactLedger, for every set of drivers and facts and every    *)
(* bound on starts.  The inductive invariant Inv joins the properties of   *)
(* the specification with what the exclusive lock gives a writer: it has   *)
(* read the whole file, and the facts it is about to write are not in it.  *)
(***************************************************************************)
EXTENDS FactLedger, TLAPS

(* The lock, seen from memory: one writer, up to date, its draw taken; nobody
   else has an append in progress. *)
Writer ==
    /\ \A d, e \in Drivers : pc[d] = "write" /\ pc[e] = "write" => d = e
    /\ \A d \in Drivers : pc[d] = "write" => offset[d] = Len(lines) /\ fresh[d] = {}
    /\ \A d \in Drivers : pc[d] # "write" => out[d] = {}

Inv == TypeOK /\ Writer /\ NeverRefused /\ WrittenOnce /\ KeysMatchOffset /\ NothingForgotten

(* The facts on every line but the first. *)
AllFacts == {lines[i].fact : i \in 2..Len(lines)}

(* Every line after the header is a fact line. *)
LEMMA FactLines ==
    ASSUME TypeOK, NeverRefused, NEW i \in 2..Len(lines)
    PROVE  lines[i] \in FactLine /\ lines[i].fact \in Facts
<1>1. lines[i] \in FactLine \cup {Header}
  BY DEF TypeOK
<1>2. lines[i] # Header
  BY DEF NeverRefused, TypeOK
<1> QED
  BY <1>1, <1>2 DEF FactLine

(* Reading from an offset that matches the keys gives every fact. *)
LEMMA ReadGivesAll ==
    ASSUME TypeOK, NeverRefused, KeysMatchOffset, NEW d \in Drivers
    PROVE  /\ keys[d] \cup FactsPast(offset[d]) = AllFacts
           /\ FactsPast(0) = AllFacts
           /\ AllFacts \subseteq Facts
<1>1. Len(lines) \in Nat /\ offset[d] \in Nat
  BY DEF TypeOK
<1>2. keys[d] = {lines[i].fact : i \in {j \in 2..Len(lines) : j <= offset[d]}}
  BY DEF KeysMatchOffset
<1>3. FactsPast(offset[d]) = {lines[i].fact : i \in {j \in 1..Len(lines) : j > offset[d] /\ j > 1}}
  BY DEF FactsPast
<1>4. keys[d] \cup FactsPast(offset[d]) = AllFacts
  BY <1>1, <1>2, <1>3 DEF AllFacts
<1>5. FactsPast(0) = AllFacts
  BY <1>1 DEF FactsPast, AllFacts
<1>6. AllFacts \subseteq Facts
  BY FactLines DEF AllFacts
<1> QED
  BY <1>4, <1>5, <1>6

(* The empty file, and no driver running. *)
LEMMA InitInv == Init => Inv
<1> SUFFICES ASSUME Init PROVE Inv
  OBVIOUS
<1> USE DEF Init
<1>1. Len(lines) = 0 /\ lines \in Seq(FactLine \cup {Header})
  OBVIOUS
<1>2. TypeOK
  <2>1. 0 \in 0..MaxStarts /\ 0 \in Nat
    BY StartsAssumption
  <2>2. [d \in Drivers |-> {}] \in [Drivers -> SUBSET Facts]
    OBVIOUS
  <2>3. /\ [d \in Drivers |-> 0] \in [Drivers -> Nat]
        /\ [d \in Drivers |-> 0] \in [Drivers -> 0..MaxStarts]
        /\ [d \in Drivers |-> "off"] \in [Drivers -> {"off", "run", "write"}]
    BY <2>1
  <2> QED
    BY <1>1, <2>2, <2>3 DEF TypeOK
<1>3. Writer
  BY DEF Writer
<1>4. NeverRefused /\ WrittenOnce
  BY <1>1 DEF NeverRefused, WrittenOnce
<1>5. KeysMatchOffset
  <2>1. 2..Len(lines) = {}
    BY <1>1
  <2>2. \A d \in Drivers :
            {lines[i].fact : i \in {j \in 2..Len(lines) : j <= offset[d]}} = {}
    BY <2>1
  <2> QED
    BY <2>2 DEF KeysMatchOffset
<1>6. NothingForgotten
  BY DEF NothingForgotten
<1> QED
  BY <1>2, <1>3, <1>4, <1>5, <1>6 DEF Inv

(* A driver that opens a host over the ledger. *)
LEMMA CarryLedgerInv ==
    ASSUME Inv, NEW d \in Drivers, NEW seeded \in SUBSET Facts, CarryLedger(d, seeded),
           pc' = pc \/ pc' = [pc EXCEPT ![d] = "run"],
           starts' \in [Drivers -> 0..MaxStarts]
    PROVE  Inv'
<1>0. TypeOK /\ NeverRefused /\ KeysMatchOffset /\ Writer /\ WrittenOnce /\ NothingForgotten
  BY DEF Inv
<1>1. FactsPast(0) = AllFacts /\ AllFacts \subseteq Facts
  BY <1>0, ReadGivesAll
<1>2. lines' = lines /\ torn' = torn /\ out' = out
  BY DEF CarryLedger
<1>3. \A e \in Drivers : pc[e] # "write" /\ pc'[e] # "write" /\ out[e] = {}
  BY <1>0 DEF CarryLedger, Unlocked, TypeOK, Writer
<1>4. Len(lines) \in Nat
  BY <1>0 DEF TypeOK
<1>5. TypeOK'
  BY <1>0, <1>1, <1>2, <1>4 DEF TypeOK, CarryLedger
<1>6. Writer'
  BY <1>2, <1>3 DEF Writer
<1>7. NeverRefused'
  BY <1>0, <1>2, <1>4 DEF NeverRefused, CarryLedger, TypeOK
<1>8. WrittenOnce'
  BY <1>0, <1>2 DEF WrittenOnce
<1>9. KeysMatchOffset'
  <2>1. AllFacts = {lines[i].fact : i \in {j \in 2..Len(lines) : j <= Len(lines)}}
    BY <1>4 DEF AllFacts
  <2> QED
    BY <1>0, <1>1, <1>2, <2>1 DEF KeysMatchOffset, CarryLedger, TypeOK
<1>10. NothingForgotten'
  BY <1>0, <1>2, <1>3 DEF NothingForgotten, CarryLedger, TypeOK
<1> QED
  BY <1>5, <1>6, <1>7, <1>8, <1>9, <1>10 DEF Inv

(* Memory only: an evaluation adds to the carried set and to the draw. *)
LEMMA EvaluateInv ==
    ASSUME Inv, NEW d \in Drivers, NEW used \in SUBSET Facts, Evaluate(d, used)
    PROVE  Inv'
<1>0. TypeOK /\ NeverRefused /\ KeysMatchOffset /\ Writer /\ WrittenOnce /\ NothingForgotten
  BY DEF Inv
<1> USE DEF Evaluate
<1>1. TypeOK'
  BY <1>0 DEF TypeOK
<1>2. Writer' /\ NeverRefused' /\ WrittenOnce' /\ KeysMatchOffset'
  BY <1>0 DEF Writer, NeverRefused, WrittenOnce, KeysMatchOffset
<1>3. NothingForgotten'
  <2>1. out[d] = {} /\ carried[d] = keys[d] \cup out[d] \cup fresh[d]
    BY <1>0 DEF Writer, NothingForgotten
  <2> QED
    BY <1>0, <2>1 DEF NothingForgotten, TypeOK
<1> QED
  BY <1>1, <1>2, <1>3 DEF Inv

(* What a read leaves behind: an offset at the end of the file, and all of
   its facts as keys. *)
LEMMA ReadNewKeys ==
    ASSUME TypeOK, NeverRefused, KeysMatchOffset, NEW d \in Drivers,
           ReadNew(d), lines' = lines
    PROVE  /\ offset' = [offset EXCEPT ![d] = Len(lines)]
           /\ keys' = [keys EXCEPT ![d] = AllFacts]
           /\ Siblings(d) = AllFacts \ keys[d]
           /\ keys[d] \subseteq AllFacts
           /\ KeysMatchOffset'
           /\ \A e \in Drivers : offset'[e] <= Len(lines')
           /\ offset' \in [Drivers -> Nat]
           /\ keys' \in [Drivers -> SUBSET Facts]
<1>1. keys[d] \cup FactsPast(offset[d]) = AllFacts /\ AllFacts \subseteq Facts
  BY ReadGivesAll
<1>2. Len(lines) \in Nat
  BY DEF TypeOK
<1>3. keys' = [keys EXCEPT ![d] = AllFacts]
  BY <1>1 DEF ReadNew
<1>4. AllFacts = {lines[i].fact : i \in {j \in 2..Len(lines) : j <= Len(lines)}}
  BY <1>2 DEF AllFacts
<1>5. KeysMatchOffset'
  BY <1>2, <1>3, <1>4 DEF KeysMatchOffset, ReadNew, TypeOK
<1>6. \A e \in Drivers : offset'[e] <= Len(lines')
  BY <1>2 DEF NeverRefused, ReadNew, TypeOK
<1>7. Siblings(d) = AllFacts \ keys[d] /\ keys[d] \subseteq AllFacts
  BY <1>1 DEF Siblings
<1> QED
  BY <1>1, <1>2, <1>3, <1>5, <1>6, <1>7 DEF ReadNew, TypeOK

(* A read between batches. *)
LEMMA PullInv ==
    ASSUME Inv, NEW d \in Drivers, Pull(d)
    PROVE  Inv'
<1>0. TypeOK /\ NeverRefused /\ KeysMatchOffset /\ Writer /\ WrittenOnce /\ NothingForgotten
  BY DEF Inv
<1>1. lines' = lines /\ torn' = torn /\ pc' = pc /\ out' = out /\ starts' = starts
  BY DEF Pull
<1>2. /\ KeysMatchOffset'
      /\ \A e \in Drivers : offset'[e] <= Len(lines')
      /\ keys' = [keys EXCEPT ![d] = AllFacts]
      /\ Siblings(d) = AllFacts \ keys[d] /\ keys[d] \subseteq AllFacts
      /\ offset' \in [Drivers -> Nat] /\ keys' \in [Drivers -> SUBSET Facts]
  BY <1>0, <1>1, ReadNewKeys DEF Pull
<1>3. \A e \in Drivers : pc[e] # "write" /\ out[e] = {}
  BY <1>0 DEF Pull, Unlocked, Writer
<1>4. /\ carried' = [carried EXCEPT ![d] = @ \cup Siblings(d)]
      /\ fresh' = [fresh EXCEPT ![d] = @ \ Siblings(d)]
  BY DEF Pull, Carry
<1>5. Siblings(d) \subseteq Facts
  BY <1>0, ReadGivesAll, <1>2
<1>6. TypeOK'
  BY <1>0, <1>1, <1>2, <1>4, <1>5 DEF TypeOK
<1>7. Writer'
  BY <1>1, <1>3 DEF Writer
<1>8. NeverRefused' /\ WrittenOnce'
  BY <1>0, <1>1, <1>2 DEF NeverRefused, WrittenOnce
<1>9. NothingForgotten'
  <2>1. keys \in [Drivers -> SUBSET Facts] /\ carried \in [Drivers -> SUBSET Facts]
        /\ fresh \in [Drivers -> SUBSET Facts]
    BY <1>0 DEF TypeOK
  <2> QED
    BY <1>0, <1>1, <1>2, <1>3, <1>4, <2>1 DEF NothingForgotten
<1> QED
  BY <1>2, <1>6, <1>7, <1>8, <1>9 DEF Inv

(* The first half of an append: the writer has read everything, and keeps
   only what the file does not hold. *)
LEMMA AppendFactsInv ==
    ASSUME Inv, NEW d \in Drivers, AppendFacts(d)
    PROVE  Inv'
<1>0. TypeOK /\ NeverRefused /\ KeysMatchOffset /\ Writer /\ WrittenOnce /\ NothingForgotten
  BY DEF Inv
<1>1. lines' = lines /\ torn' = FALSE /\ starts' = starts
  BY DEF AppendFacts, Trim
<1>2. /\ KeysMatchOffset'
      /\ \A e \in Drivers : offset'[e] <= Len(lines')
      /\ offset' = [offset EXCEPT ![d] = Len(lines)]
      /\ keys' = [keys EXCEPT ![d] = AllFacts]
      /\ Siblings(d) = AllFacts \ keys[d] /\ keys[d] \subseteq AllFacts
      /\ offset' \in [Drivers -> Nat] /\ keys' \in [Drivers -> SUBSET Facts]
  BY <1>0, <1>1, ReadNewKeys DEF AppendFacts
<1>3. \A e \in Drivers : pc[e] # "write" /\ out[e] = {}
  BY <1>0 DEF AppendFacts, Unlocked, Writer
<1>4. keys'[d] = AllFacts
  BY <1>0, <1>2 DEF TypeOK
<1>5. /\ carried' = [carried EXCEPT ![d] = @ \cup Siblings(d)]
      /\ out' = [out EXCEPT ![d] = fresh[d] \ AllFacts]
      /\ pc' = [pc EXCEPT ![d] = IF fresh[d] \ AllFacts = {} THEN "run" ELSE "write"]
      /\ fresh' = [fresh EXCEPT ![d] = {}]
  BY <1>4 DEF AppendFacts, Missing
<1>6. Siblings(d) \subseteq Facts
  BY <1>0, ReadGivesAll, <1>2
<1>7. /\ keys \in [Drivers -> SUBSET Facts] /\ carried \in [Drivers -> SUBSET Facts]
      /\ fresh \in [Drivers -> SUBSET Facts] /\ out \in [Drivers -> SUBSET Facts]
      /\ pc \in [Drivers -> {"off", "run", "write"}]
      /\ offset \in [Drivers -> Nat]
  BY <1>0 DEF TypeOK
<1>8. TypeOK'
  BY <1>0, <1>1, <1>2, <1>5, <1>6, <1>7 DEF TypeOK
<1>9. Writer'
  BY <1>1, <1>2, <1>3, <1>5, <1>7 DEF Writer
<1>10. NeverRefused' /\ WrittenOnce'
  BY <1>0, <1>1, <1>2 DEF NeverRefused, WrittenOnce
<1>11. NothingForgotten'
  BY <1>0, <1>2, <1>3, <1>5, <1>7 DEF NothingForgotten
<1> QED
  BY <1>2, <1>8, <1>9, <1>10, <1>11 DEF Inv

(* The header: nothing was read, so the file is empty. *)
LEMMA WriteHeaderInv ==
    ASSUME Inv, NEW d \in Drivers, WriteHeader(d)
    PROVE  Inv'
<1>0. TypeOK /\ NeverRefused /\ KeysMatchOffset /\ Writer /\ WrittenOnce /\ NothingForgotten
  BY DEF Inv
<1> USE DEF WriteHeader
<1>1. lines \in Seq(FactLine \cup {Header}) /\ Len(lines) = 0
  BY <1>0 DEF TypeOK, Writer
<1>2. /\ lines' \in Seq(FactLine \cup {Header})
      /\ Len(lines') = 1 /\ lines'[1] = Header
  BY <1>1
<1>3. offset \in [Drivers -> Nat] /\ offset' = [offset EXCEPT ![d] = 1]
  BY <1>0 DEF TypeOK
<1>4. TypeOK'
  BY <1>0, <1>2, <1>3 DEF TypeOK
<1>5. Writer'
  BY <1>0, <1>2, <1>3 DEF Writer
<1>6. NeverRefused'
  BY <1>0, <1>1, <1>2, <1>3 DEF NeverRefused
<1>7. WrittenOnce'
  BY <1>2 DEF WrittenOnce
<1>8. KeysMatchOffset'
  <2>1. \A e \in Drivers : keys[e] = {}
    BY <1>0, <1>1 DEF KeysMatchOffset
  <2> QED
    BY <1>2, <2>1 DEF KeysMatchOffset
<1>9. NothingForgotten'
  BY <1>0 DEF NothingForgotten
<1> QED
  BY <1>4, <1>5, <1>6, <1>7, <1>8, <1>9 DEF Inv

(* One fact line: it was missing from the whole file, which the writer had
   read and which nobody else has touched since. *)
LEMMA WriteFactInv ==
    ASSUME Inv, NEW d \in Drivers, NEW f \in Facts, WriteFact(d, f)
    PROVE  Inv'
<1>0. TypeOK /\ NeverRefused /\ KeysMatchOffset /\ Writer /\ WrittenOnce /\ NothingForgotten
  BY DEF Inv
<1> DEFINE n == Len(lines)
           l == [fact |-> f, run |-> d]
<1>1. /\ lines \in Seq(FactLine \cup {Header}) /\ n \in Nat \ {0}
      /\ offset \in [Drivers -> Nat] /\ offset[d] = n
      /\ keys \in [Drivers -> SUBSET Facts]
      /\ out \in [Drivers -> SUBSET Facts]
      /\ pc \in [Drivers -> {"off", "run", "write"}]
  BY <1>0 DEF TypeOK, Writer, WriteFact
<1>2. l \in FactLine /\ l # Header /\ l.fact = f
  BY HeaderAssumption DEF FactLine
<1>3. /\ lines' = Append(lines, l) /\ lines' \in Seq(FactLine \cup {Header})
      /\ Len(lines') = n + 1 /\ lines'[n + 1] = l
      /\ \A i \in 1..n : lines'[i] = lines[i]
  BY <1>1, <1>2 DEF WriteFact
<1>4. /\ offset' = [offset EXCEPT ![d] = n + 1]
      /\ keys' = [keys EXCEPT ![d] = @ \cup {f}]
      /\ out' = [out EXCEPT ![d] = @ \ {f}]
      /\ pc' = [pc EXCEPT ![d] = IF out[d] = {f} THEN "run" ELSE "write"]
      /\ pc[d] = "write" /\ f \in out[d]
      /\ torn' = torn /\ carried' = carried /\ fresh' = fresh /\ starts' = starts
  BY <1>1 DEF WriteFact
<1>5. keys[d] = AllFacts
  <2>1. 2..n = {j \in 2..n : j <= offset[d]}
    BY <1>1
  <2> QED
    BY <1>0, <2>1 DEF KeysMatchOffset, AllFacts
<1>6. f \notin AllFacts
  BY <1>0, <1>4, <1>5 DEF NothingForgotten
<1>7. TypeOK'
  BY <1>0, <1>1, <1>3, <1>4 DEF TypeOK
<1>8. Writer'
  BY <1>0, <1>1, <1>3, <1>4 DEF Writer
<1>9. NeverRefused'
  <2>1. \A e \in Drivers : offset'[e] <= Len(lines')
    BY <1>0, <1>1, <1>3, <1>4 DEF NeverRefused
  <2>2. \A i \in 1..Len(lines') : (lines'[i] = Header) = (i = 1)
    <3> TAKE i \in 1..Len(lines')
    <3>1. CASE i \in 1..n
      BY <1>0, <1>3, <3>1 DEF NeverRefused
    <3>2. CASE i = n + 1
      BY <1>1, <1>2, <1>3, <3>2
    <3> QED
      BY <1>1, <1>3, <3>1, <3>2
  <2> QED
    BY <2>1, <2>2 DEF NeverRefused
<1>10. WrittenOnce'
  <2> SUFFICES ASSUME NEW i \in 2..Len(lines'), NEW k \in 2..Len(lines'),
                      lines'[i].fact = lines'[k].fact
               PROVE  i = k
    BY DEF WrittenOnce
  <2>1. \A m \in 2..n : lines'[m].fact \in AllFacts
    BY <1>1, <1>3 DEF AllFacts
  <2>2. CASE i \in 2..n /\ k \in 2..n
    BY <1>0, <1>1, <1>3, <2>2 DEF WrittenOnce
  <2>3. CASE i = n + 1 /\ k # n + 1
    BY <1>1, <1>2, <1>3, <1>6, <2>1, <2>3
  <2>4. CASE i # n + 1 /\ k = n + 1
    BY <1>1, <1>2, <1>3, <1>6, <2>1, <2>4
  <2>5. (i \in 2..n \/ i = n + 1) /\ (k \in 2..n \/ k = n + 1)
    <3>1. Len(lines') = n + 1
      BY <1>3
    <3>2. i \in 2..(n + 1) /\ k \in 2..(n + 1)
      BY <3>1
    <3> HIDE DEF n
    <3> QED
      BY <1>1, <3>2
  <2> QED
    BY <1>1, <2>2, <2>3, <2>4, <2>5
<1>11. KeysMatchOffset'
  <2> SUFFICES ASSUME NEW e \in Drivers
               PROVE  keys'[e] = {lines'[i].fact : i \in {j \in 2..Len(lines') : j <= offset'[e]}}
    BY DEF KeysMatchOffset
  <2>1. CASE e # d
    <3>1. offset'[e] = offset[e] /\ keys'[e] = keys[e] /\ offset[e] <= n /\ offset[e] \in Nat
      BY <1>0, <1>1, <1>4, <2>1 DEF NeverRefused
    <3>2. {j \in 2..Len(lines') : j <= offset'[e]} = {j \in 2..n : j <= offset[e]}
      BY <1>1, <1>3, <3>1
    <3>3. \A j \in 2..n : lines'[j] = lines[j]
      BY <1>1, <1>3
    <3> QED
      BY <1>0, <3>1, <3>2, <3>3 DEF KeysMatchOffset
  <2>2. CASE e = d
    <3>1. keys'[e] = AllFacts \cup {f}
      BY <1>1, <1>4, <1>5, <2>2
    <3>2. {j \in 2..Len(lines') : j <= offset'[e]} = 2..(n + 1)
      BY <1>1, <1>3, <1>4, <2>2
    <3>3. 2..(n + 1) = (2..n) \cup {n + 1}
      BY <1>1
    <3>4. \A j \in 2..n : lines'[j] = lines[j]
      BY <1>1, <1>3
    <3>5. lines'[n + 1].fact = f
      BY <1>2, <1>3
    <3>6. {lines'[i].fact : i \in (2..n) \cup {n + 1}} = AllFacts \cup {f}
      BY <3>4, <3>5 DEF AllFacts
    <3> QED
      BY <3>1, <3>2, <3>3, <3>6
  <2> QED
    BY <2>1, <2>2
<1>12. NothingForgotten'
  <2> SUFFICES ASSUME NEW e \in Drivers
               PROVE  /\ carried'[e] = keys'[e] \cup out'[e] \cup fresh'[e]
                      /\ keys'[e] \cap (out'[e] \cup fresh'[e]) = {}
    BY DEF NothingForgotten
  <2>1. CASE e # d
    BY <1>0, <1>1, <1>4, <2>1 DEF NothingForgotten
  <2>2. CASE e = d
    <3>1. keys'[d] = keys[d] \cup {f} /\ out'[d] = out[d] \ {f}
      BY <1>1, <1>4
    <3>2. f \notin fresh[d]
      BY <1>0, <1>4 DEF Writer
    <3> QED
      BY <1>0, <1>4, <2>2, <3>1, <3>2 DEF NothingForgotten
  <2> QED
    BY <2>1, <2>2
<1> QED
  BY <1>7, <1>8, <1>9, <1>10, <1>11, <1>12 DEF Inv

(* The process ends, by itself or killed: only its memory is lost. *)
LEMMA GoneInv ==
    ASSUME Inv, NEW d \in Drivers, Gone(d), torn' \in BOOLEAN
    PROVE  Inv'
<1>0. TypeOK /\ NeverRefused /\ KeysMatchOffset /\ Writer /\ WrittenOnce /\ NothingForgotten
  BY DEF Inv
<1> USE DEF Gone
<1>1. lines \in Seq(FactLine \cup {Header}) /\ Len(lines) \in Nat
  BY <1>0 DEF TypeOK
<1>2. TypeOK'
  BY <1>0 DEF TypeOK
<1>3. Writer'
  BY <1>0 DEF Writer, TypeOK
<1>4. NeverRefused' /\ WrittenOnce'
  BY <1>0, <1>1 DEF NeverRefused, WrittenOnce, TypeOK
<1>5. KeysMatchOffset'
  <2> SUFFICES ASSUME NEW e \in Drivers
               PROVE  keys'[e] = {lines'[i].fact : i \in {j \in 2..Len(lines') : j <= offset'[e]}}
    BY DEF KeysMatchOffset
  <2>1. CASE e # d
    BY <1>0, <2>1 DEF KeysMatchOffset, TypeOK
  <2>2. CASE e = d
    <3>1. offset'[e] = 0 /\ keys'[e] = {}
      BY <1>0, <2>2 DEF TypeOK
    <3>2. {j \in 2..Len(lines') : j <= offset'[e]} = {}
      BY <1>1, <3>1
    <3> QED
      BY <3>1, <3>2
  <2> QED
    BY <2>1, <2>2
<1>6. NothingForgotten'
  BY <1>0 DEF NothingForgotten, TypeOK
<1> QED
  BY <1>2, <1>3, <1>4, <1>5, <1>6 DEF Inv

(* Every step keeps the inductive invariant. *)
LEMMA NextInv == Inv /\ [Next]_vars => Inv'
<1> SUFFICES ASSUME Inv, [Next]_vars PROVE Inv'
  OBVIOUS
<1>0. TypeOK
  BY DEF Inv
<1>1. CASE UNCHANGED vars
  BY <1>1 DEF vars, Inv, TypeOK, Writer, NeverRefused, WrittenOnce, KeysMatchOffset,
              NothingForgotten
<1>2. CASE Next
  <2> PICK d \in Drivers :
         \/ Start(d)
         \/ NextLevel(d)
         \/ \E used \in SUBSET Facts : Evaluate(d, used)
         \/ Pull(d)
         \/ AppendFacts(d)
         \/ WriteHeader(d)
         \/ \E f \in Facts : WriteFact(d, f)
         \/ Exit(d)
         \/ Crash(d)
    BY <1>2 DEF Next
  <2>1. CASE Start(d)
    <3>1. PICK seeded \in SUBSET Facts : CarryLedger(d, seeded)
      BY <2>1 DEF Start
    <3>2. starts[d] \in 0..MaxStarts /\ starts[d] < MaxStarts
      BY <1>0, <2>1 DEF Start, TypeOK
    <3>3. starts' \in [Drivers -> 0..MaxStarts]
      BY <1>0, <2>1, <3>2, StartsAssumption DEF Start, TypeOK
    <3> QED
      BY <2>1, <3>1, <3>3, CarryLedgerInv DEF Start
  <2>2. CASE NextLevel(d)
    <3>1. PICK seeded \in SUBSET Facts : CarryLedger(d, seeded)
      BY <2>2 DEF NextLevel
    <3> QED
      BY <1>0, <2>2, <3>1, CarryLedgerInv DEF NextLevel, TypeOK
  <2>3. CASE \E used \in SUBSET Facts : Evaluate(d, used)
    BY <2>3, EvaluateInv
  <2>4. CASE Pull(d)
    BY <2>4, PullInv
  <2>5. CASE AppendFacts(d)
    BY <2>5, AppendFactsInv
  <2>6. CASE WriteHeader(d)
    BY <2>6, WriteHeaderInv
  <2>7. CASE \E f \in Facts : WriteFact(d, f)
    BY <2>7, WriteFactInv
  <2>8. CASE Exit(d)
    BY <1>0, <2>8, GoneInv DEF Exit, TypeOK
  <2>9. CASE Crash(d)
    BY <1>0, <2>9, GoneInv DEF Crash, TypeOK
  <2> QED
    BY <2>1, <2>2, <2>3, <2>4, <2>5, <2>6, <2>7, <2>8, <2>9
<1> QED
  BY <1>1, <1>2

(* The induction. *)
THEOREM Inductive == Spec => []Inv
BY InitInv, NextInv, PTL DEF Spec
-----------------------------------------------------------------------------
(* The variables of the ledger and of its drivers keep their types. *)
THEOREM TypeCorrect == Spec => []TypeOK
<1>1. Inv => TypeOK
  BY DEF Inv
<1> QED
  BY <1>1, Inductive, PTL

(* No two lines of the file carry the same fact, for any number of drivers
   and facts, any interleaving of their appends and any kills. *)
THEOREM LedgerWritesOnce == Spec => []WrittenOnce
<1>1. Inv => WrittenOnce
  BY DEF Inv
<1> QED
  BY <1>1, Inductive, PTL

(* No driver's read ever meets a file it must refuse: shorter than what it
   read, without its header, or with a header in the middle. *)
THEOREM LedgerNeverRefused == Spec => []NeverRefused
<1>1. Inv => NeverRefused
  BY DEF Inv
<1> QED
  BY <1>1, Inductive, PTL

(* The keys a driver will not write again are those before its offset. *)
THEOREM LedgerKeysMatch == Spec => []KeysMatchOffset
<1>1. Inv => KeysMatchOffset
  BY DEF Inv
<1> QED
  BY <1>1, Inductive, PTL

(* A fact a host answers from memory is in the file, in the append in
   progress or in the next draw. *)
THEOREM LedgerForgetsNothing == Spec => []NothingForgotten
<1>1. Inv => NothingForgotten
  BY DEF Inv
<1> QED
  BY <1>1, Inductive, PTL

(* A complete line is never changed and never removed: only AppendFacts
   trims, and it cuts no complete line. *)
THEOREM LedgerAppendOnly == Spec => AppendOnly
<1> DEFINE Kept == /\ Len(lines') >= Len(lines)
                   /\ \A i \in 1..Len(lines) : lines'[i] = lines[i]
<1>1. ASSUME Inv, [Next]_vars PROVE [Kept]_vars
  <2>1. lines \in Seq(FactLine \cup {Header}) /\ Len(lines) \in Nat
    BY <1>1 DEF Inv, TypeOK
  <2>2. CASE UNCHANGED vars
    BY <2>2
  <2>3. CASE lines' = lines
    BY <2>1, <2>3
  <2>4. ASSUME NEW l \in FactLine \cup {Header}, lines' = Append(lines, l) PROVE Kept
    BY <2>1, <2>4
  <2>5. CASE Next
    <3>1. \/ lines' = lines
          \/ lines' = Append(lines, Header)
          \/ \E d \in Drivers, f \in Facts : lines' = Append(lines, [fact |-> f, run |-> d])
      BY <2>5 DEF Next, Start, NextLevel, CarryLedger, Evaluate, Pull, AppendFacts, Trim,
                  WriteHeader, WriteFact, Exit, Crash, Gone
    <3> QED
      BY <2>3, <2>4, <3>1 DEF FactLine
  <2> QED
    BY <1>1, <2>2, <2>5
<1> QED
  BY <1>1, Inductive, PTL DEF AppendOnly, Spec
-----------------------------------------------------------------------------
(* The refinement. *)

(* The abstract state the file stands for. *)
StoreOf == [f \in FactsPast(0) |-> lines[FirstLine(f)].run]

(* A fact on a line is owned by that line's run: no other line has it. *)
LEMMA OwnerIsOnTheLine ==
    ASSUME Inv, NEW i \in 2..Len(lines)
    PROVE  FirstLine(lines[i].fact) = i
<1> DEFINE First(k) == /\ lines[k].fact = lines[i].fact
                       /\ \A j \in 2..Len(lines) : lines[j].fact = lines[i].fact => k <= j
<1>1. Len(lines) \in Nat
  BY DEF Inv, TypeOK
<1>2. \A j \in 2..Len(lines) : lines[j].fact = lines[i].fact => j = i
  BY DEF Inv, WrittenOnce
<1>3. First(i)
  BY <1>1, <1>2
<1>4. \A k \in 2..Len(lines) : First(k) => k = i
  BY <1>2
<1>5. FirstLine(lines[i].fact) = CHOOSE k \in 2..Len(lines) : First(k)
  BY DEF FirstLine
<1> HIDE DEF First
<1> QED
  BY <1>3, <1>4, <1>5

(* The store in terms of the lines: each line says who owns its fact. *)
LinesOwn ==
    /\ StoreOf = [f \in AllFacts |-> StoreOf[f]]
    /\ \A i \in 2..Len(lines) : StoreOf[lines[i].fact] = lines[i].run

(* That holds of every file the drivers write. *)
LEMMA StoreByLines == Inv => LinesOwn
<1> SUFFICES ASSUME Inv PROVE LinesOwn
  OBVIOUS
<1>1. FactsPast(0) = AllFacts
  <2>1. Len(lines) \in Nat
    BY DEF Inv, TypeOK
  <2> QED
    BY <2>1 DEF FactsPast, AllFacts
<1>2. StoreOf = [f \in AllFacts |-> lines[FirstLine(f)].run]
  BY <1>1 DEF StoreOf
<1>3. \A i \in 2..Len(lines) : lines[i].fact \in AllFacts
  BY DEF AllFacts
<1> QED
  BY <1>2, <1>3, OwnerIsOnTheLine DEF LinesOwn

(* An unchanged file is an unchanged store. *)
LEMMA SameFile == lines' = lines => StoreOf' = StoreOf
BY DEF StoreOf, FactsPast, FirstLine

(* The empty file is the empty store. *)
LEMMA InitStore == Init => Store!Init
<1> SUFFICES ASSUME Init PROVE Store!Init
  OBVIOUS
<1>1. FactsPast(0) = {}
  BY DEF Init, FactsPast
<1>2. keys = [d \in Drivers |-> {}]
  BY DEF Init
<1> QED
  BY <1>1, <1>2 DEF Store!Init

(* A driver that reads to the end of the file learns the store. *)
LEMMA ReadLearns ==
    ASSUME Inv, NEW d \in Drivers, lines' = lines, keys' = [keys EXCEPT ![d] = AllFacts]
    PROVE  Store!Learn(d)
<1>1. StoreOf' = StoreOf
  BY SameFile
<1>2. FactsPast(0) = AllFacts
  BY ReadGivesAll DEF Inv
<1>3. Store!Published = AllFacts
  BY <1>2 DEF Store!Published
<1> QED
  BY <1>1, <1>3 DEF Store!Learn, StoreOf

(* A process that ends forgets what it knew of the store. *)
LEMMA GoneForgets ==
    ASSUME NEW d \in Drivers, Gone(d)
    PROVE  Store!Forget(d)
<1>1. StoreOf' = StoreOf
  BY SameFile DEF Gone
<1> QED
  BY <1>1 DEF Store!Forget, Gone, StoreOf

(* A header line publishes nothing. *)
LEMMA HeaderStutters ==
    ASSUME Inv, NEW d \in Drivers, WriteHeader(d)
    PROVE  UNCHANGED <<StoreOf, keys>>
<1>1. lines \in Seq(FactLine \cup {Header}) /\ Len(lines) = 0
  BY DEF Inv, TypeOK, Writer, WriteHeader
<1>2. Len(lines') = 1
  BY <1>1 DEF WriteHeader
<1>3. FactsPast(0) = {} /\ FactsPast(0)' = {}
  BY <1>1, <1>2 DEF FactsPast
<1> QED
  BY <1>3 DEF StoreOf, WriteHeader

(* A fact line publishes its fact: its writer knows the whole store, the fact
   is not in it, and the owners of the others stay. *)
LEMMA WritePublishes ==
    ASSUME Inv, NEW d \in Drivers, NEW f \in Facts, WriteFact(d, f)
    PROVE  Store!Publish(d, f)
<1> DEFINE n == Len(lines)
           l == [fact |-> f, run |-> d]
<1>0. Inv'
  BY WriteFactInv
<1>1. /\ lines \in Seq(FactLine \cup {Header}) /\ n \in Nat \ {0}
      /\ offset[d] = n
      /\ keys \in [Drivers -> SUBSET Facts]
      /\ f \in out[d]
  BY DEF Inv, TypeOK, Writer, WriteFact
<1>2. /\ Len(lines') = n + 1 /\ lines'[n + 1] = l
      /\ \A i \in 1..n : lines'[i] = lines[i]
  BY <1>1 DEF WriteFact
<1>3. FactsPast(0) = AllFacts /\ keys[d] = AllFacts
  <2>1. 2..n = {j \in 2..n : j <= offset[d]}
    BY <1>1
  <2> QED
    BY <2>1, ReadGivesAll DEF Inv, KeysMatchOffset, AllFacts
<1>4. f \notin AllFacts
  BY <1>1, <1>3 DEF Inv, NothingForgotten
<1>5. AllFacts' = AllFacts \cup {f}
  <2>1. 2..(n + 1) = (2..n) \cup {n + 1}
    BY <1>1
  <2>2. AllFacts' = {lines'[i].fact : i \in (2..n) \cup {n + 1}}
    BY <1>2, <2>1 DEF AllFacts
  <2>3. \A i \in 2..n : lines'[i] = lines[i]
    BY <1>1, <1>2
  <2>4. lines'[n + 1].fact = f
    BY <1>2
  <2> QED
    BY <2>2, <2>3, <2>4 DEF AllFacts
<1>6. StoreOf' = [g \in AllFacts \cup {f} |-> IF g = f THEN d ELSE StoreOf[g]]
  <2>1. LinesOwn /\ LinesOwn'
    BY <1>0, StoreByLines, PTL
  <2>2. /\ StoreOf' = [g \in AllFacts \cup {f} |-> StoreOf'[g]]
        /\ \A i \in 2..(n + 1) : StoreOf'[lines'[i].fact] = lines'[i].run
    BY <1>2, <1>5, <2>1 DEF LinesOwn
  <2> SUFFICES ASSUME NEW g \in AllFacts \cup {f}
               PROVE  StoreOf'[g] = IF g = f THEN d ELSE StoreOf[g]
    BY <2>2
  <2>3. CASE g = f
    <3>1. n + 1 \in 2..(n + 1)
      BY <1>1
    <3> QED
      BY <1>2, <2>2, <2>3, <3>1
  <2>4. CASE g # f
    <3>1. PICK i \in 2..n : lines[i].fact = g
      BY <2>4 DEF AllFacts
    <3>2. lines'[i] = lines[i] /\ i \in 2..(n + 1)
      BY <1>1, <1>2
    <3>3. StoreOf[g] = lines[i].run
      BY <2>1, <3>1 DEF LinesOwn
    <3>4. StoreOf'[g] = lines[i].run
      BY <2>2, <3>1, <3>2
    <3> QED
      BY <2>4, <3>3, <3>4
  <2> QED
    BY <2>3, <2>4
<1>7. keys' = [keys EXCEPT ![d] = @ \cup {f}]
  BY DEF WriteFact
<1>8. Store!Published = AllFacts
  BY <1>3 DEF Store!Published
<1> QED
  BY <1>3, <1>4, <1>6, <1>7, <1>8 DEF Store!Publish, StoreOf

(* The ledger implements the write-once store: every read is a Learn, every
   fact line a Publish by a driver that had seen everything published, every
   end of a process a Forget, and every other step a stutter. *)
THEOREM LedgerImplementsStore == Spec => ImplementsStore
<1>1. ASSUME Inv, [Next]_vars PROVE [Store!Next]_(Store!vars)
  <2>0. ASSUME StoreOf' = StoreOf, keys' = keys PROVE UNCHANGED Store!vars
    BY <2>0 DEF Store!vars, StoreOf
  <2>1. CASE UNCHANGED vars
    BY <2>0, <2>1, SameFile DEF vars
  <2>2. CASE Next
    <3> PICK d \in Drivers :
           \/ Start(d)
           \/ NextLevel(d)
           \/ \E used \in SUBSET Facts : Evaluate(d, used)
           \/ Pull(d)
           \/ AppendFacts(d)
           \/ WriteHeader(d)
           \/ \E f \in Facts : WriteFact(d, f)
           \/ Exit(d)
           \/ Crash(d)
      BY <2>2 DEF Next
    <3>0. TypeOK /\ NeverRefused /\ KeysMatchOffset /\ FactsPast(0) = AllFacts
      BY <1>1, ReadGivesAll DEF Inv
    <3>1. CASE Start(d) \/ NextLevel(d)
      <4>1. PICK seeded \in SUBSET Facts : CarryLedger(d, seeded)
        BY <3>1 DEF Start, NextLevel
      <4>2. Store!Learn(d)
        BY <1>1, <3>0, <4>1, ReadLearns DEF CarryLedger
      <4> QED
        BY <4>2 DEF Store!Next
    <3>2. CASE \E used \in SUBSET Facts : Evaluate(d, used)
      <4>1. lines' = lines /\ keys' = keys
        BY <3>2 DEF Evaluate
      <4> QED
        BY <2>0, <4>1, SameFile
    <3>3. CASE Pull(d) \/ AppendFacts(d)
      <4>1. ReadNew(d) /\ lines' = lines
        BY <3>3 DEF Pull, AppendFacts, Trim
      <4>2. Store!Learn(d)
        BY <1>1, <3>0, <4>1, ReadNewKeys, ReadLearns
      <4> QED
        BY <4>2 DEF Store!Next
    <3>4. CASE WriteHeader(d)
      <4>1. StoreOf' = StoreOf /\ keys' = keys
        BY <1>1, <3>4, HeaderStutters
      <4> QED
        BY <2>0, <4>1
    <3>5. CASE \E f \in Facts : WriteFact(d, f)
      BY <1>1, <3>5, WritePublishes DEF Store!Next
    <3>6. CASE Exit(d) \/ Crash(d)
      <4>1. Store!Forget(d)
        BY <3>6, GoneForgets DEF Exit, Crash
      <4> QED
        BY <4>1 DEF Store!Next
    <3> QED
      BY <3>1, <3>2, <3>3, <3>4, <3>5, <3>6
  <2> QED
    BY <1>1, <2>1, <2>2
<1> QED
  BY <1>1, InitStore, Inductive, PTL DEF Spec, ImplementsStore, Store!Spec
=============================================================================
