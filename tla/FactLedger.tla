----------------------------- MODULE FactLedger -----------------------------
(***************************************************************************)
(* The evaluation ledger: one append-only file of completed fact calls,    *)
(* shared by every driver under one runs root (dream/ledger.rs), together  *)
(* with what each driver keeps of it in memory (host.rs FactCarry) and the *)
(* calls the driver loop makes on it (driver.rs flush_facts, pull_facts).  *)
(*                                                                         *)
(* The file is a sequence of complete lines plus a flag for the bytes of a *)
(* line that a killed writer left without a newline.  An offset counts the *)
(* lines a driver has read instead of their bytes.  A fact's value is left *)
(* out: it is a function of the key (fact calls are pure).  All drivers    *)
(* share one fact identity, hence one file.                                *)
(*                                                                         *)
(* Locks: a writer holds the exclusive OS lock from the trim to the last   *)
(* byte and a reader holds the shared one for its whole read, so a read is *)
(* one step that waits until nobody writes, and an append is a first step  *)
(* (lock, trim, read) followed by one step per line, during which the      *)
(* process may die.  A driver's own memory is invisible to the others, so  *)
(* it is updated in the step that reads or writes the line.  A write that  *)
(* fails with an I/O error ends the driver and leaves the file as a crash  *)
(* does, so Crash stands for it too.                                       *)
(***************************************************************************)
EXTENDS Naturals, Sequences

CONSTANTS Drivers,    \* the runs driven under one root
          Facts,      \* the memo keys of fact-function calls
          Header,     \* the ledger's first line
          MaxStarts   \* bound: how often one run's driver is started

ASSUME StartsAssumption == MaxStarts \in Nat \ {0}
ASSUME HeaderAssumption == Header \notin [fact : Facts, run : Drivers]

VARIABLES lines,    \* the file: complete lines, in order
          torn,     \* the file ends in bytes without a newline
          pc,       \* "off", "run" or "write" (inside append, lock held)
          offset,   \* complete lines this driver has read or written
          keys,     \* facts this driver knows to be in the file
          carried,  \* facts its host answers from memory
          fresh,    \* facts computed since the last draw
          out,      \* facts of the append in progress not yet written
          starts    \* driver starts so far

vars == <<lines, torn, pc, offset, keys, carried, fresh, out, starts>>
memory == <<offset, keys, carried, fresh, out>>

FactLine == [fact : Facts, run : Drivers]
Unlocked == \A d \in Drivers : pc[d] # "write"

(* The facts on the complete lines past the first n: the first line of the
   file is the header whenever the read starts at the beginning. *)
FactsPast(n) == {lines[i].fact : i \in {j \in 1..Len(lines) : j > n /\ j > 1}}

Init == /\ lines = <<>>
        /\ torn = FALSE
        /\ pc = [d \in Drivers |-> "off"]
        /\ offset = [d \in Drivers |-> 0]
        /\ keys = [d \in Drivers |-> {}]
        /\ carried = [d \in Drivers |-> {}]
        /\ fresh = [d \in Drivers |-> {}]
        /\ out = [d \in Drivers |-> {}]
        /\ starts = [d \in Drivers |-> 0]

(* Mutant: the keys of the lines just read replace those read before. *)
ReadNewForgetting(d) ==
    /\ offset' = [offset EXCEPT ![d] = Len(lines)]
    /\ keys' = [keys EXCEPT ![d] = FactsPast(offset[d])]

(* read_new: advance past the complete lines, return the facts that are new *)
ReadNew(d) ==
    /\ offset' = [offset EXCEPT ![d] = Len(lines)]
    /\ keys' = [keys EXCEPT ![d] = @ \cup FactsPast(offset[d])]
Siblings(d) == FactsPast(offset[d]) \ keys[d]

(* Mutants: the pending draw keeps what the loaded set holds; or loses all. *)
CarryKeepingDraw(d, loaded) ==
    /\ carried' = [carried EXCEPT ![d] = @ \cup loaded]
    /\ UNCHANGED fresh
CarryClearingDraw(d, loaded) ==
    /\ carried' = [carried EXCEPT ![d] = @ \cup loaded]
    /\ fresh' = [fresh EXCEPT ![d] = {}]

(* carry_facts: pending facts that the loaded set holds leave the draw *)
Carry(d, loaded) ==
    /\ carried' = [carried EXCEPT ![d] = @ \cup loaded]
    /\ fresh' = [fresh EXCEPT ![d] = @ \ loaded]

(* Mutant: the ledger is opened at its end. *)
CarryTail(d, seeded) ==
    /\ Unlocked
    /\ offset' = [offset EXCEPT ![d] = Len(lines)]
    /\ keys' = [keys EXCEPT ![d] = {}]
    /\ carried' = [carried EXCEPT ![d] = seeded]
    /\ fresh' = [fresh EXCEPT ![d] = seeded]
    /\ UNCHANGED <<lines, torn, out>>

(* A host is opened over the ledger: the Seed evaluation may already have
   computed facts when carry_ledger reads the whole file. *)
CarryLedger(d, seeded) ==
    /\ Unlocked
    /\ offset' = [offset EXCEPT ![d] = Len(lines)]
    /\ keys' = [keys EXCEPT ![d] = FactsPast(0)]
    /\ carried' = [carried EXCEPT ![d] = seeded \cup FactsPast(0)]
    /\ fresh' = [fresh EXCEPT ![d] = seeded \ FactsPast(0)]
    /\ UNCHANGED <<lines, torn, out>>

Start(d) ==
    /\ pc[d] = "off"
    /\ starts[d] < MaxStarts
    /\ starts' = [starts EXCEPT ![d] = @ + 1]
    /\ pc' = [pc EXCEPT ![d] = "run"]
    /\ \E seeded \in SUBSET Facts : CarryLedger(d, seeded)

(* next_level opens a new host over the same ledger, right after a flush *)
NextLevel(d) ==
    /\ pc[d] = "run"
    /\ fresh[d] = {}
    /\ \E seeded \in SUBSET Facts : CarryLedger(d, seeded)
    /\ UNCHANGED <<pc, starts>>

(* An evaluation completes the fact calls in used: those not carried are
   computed, join the carried set and wait for the next draw. *)
Evaluate(d, used) ==
    /\ pc[d] = "run"
    /\ used # {}
    /\ carried' = [carried EXCEPT ![d] = @ \cup used]
    /\ fresh' = [fresh EXCEPT ![d] = @ \cup (used \ carried[d])]
    /\ UNCHANGED <<lines, torn, pc, offset, keys, out, starts>>

(* pull_facts before a batch; also flush_facts when the draw is empty *)
Pull(d) ==
    /\ pc[d] = "run"
    /\ Unlocked
    /\ ReadNew(d)
    /\ Carry(d, Siblings(d))
    /\ UNCHANGED <<lines, torn, pc, out, starts>>

(* A torn tail is cut off, back to the last complete line.  Mutant: back to
   the driver's own offset. *)
TrimToOffset(d) == /\ torn' = FALSE
                   /\ lines' = IF torn THEN SubSeq(lines, 1, offset[d]) ELSE lines
Trim(d) == torn' = FALSE /\ UNCHANGED lines

(* The facts of the draw the file does not hold.  Mutant: by what was known
   before the siblings' lines were read. *)
MissingStale(d) == fresh[d] \ keys[d]
Missing(d) == fresh[d] \ keys'[d]

(* flush_facts, up to the write: take the draw, lock, trim a torn tail, read
   what siblings appended, keep only what the file does not hold. *)
AppendFacts(d) ==
    /\ pc[d] = "run"
    /\ fresh[d] # {}
    /\ Unlocked
    /\ Trim(d)
    /\ ReadNew(d)
    /\ carried' = [carried EXCEPT ![d] = @ \cup Siblings(d)]
    /\ out' = [out EXCEPT ![d] = Missing(d)]
    /\ pc' = [pc EXCEPT ![d] = IF Missing(d) = {} THEN "run" ELSE "write"]
    /\ fresh' = [fresh EXCEPT ![d] = {}]
    /\ UNCHANGED starts

(* The header goes out first when nothing has been read from the file. *)
WriteHeader(d) ==
    /\ pc[d] = "write"
    /\ offset[d] = 0
    /\ lines' = Append(lines, Header)
    /\ offset' = [offset EXCEPT ![d] = 1]
    /\ UNCHANGED <<torn, pc, keys, carried, fresh, out, starts>>

(* One fact line; the last one ends the append and releases the lock. *)
WriteFact(d, f) ==
    /\ pc[d] = "write"
    /\ offset[d] # 0
    /\ f \in out[d]
    /\ lines' = Append(lines, [fact |-> f, run |-> d])
    /\ offset' = [offset EXCEPT ![d] = @ + 1]
    /\ keys' = [keys EXCEPT ![d] = @ \cup {f}]
    /\ out' = [out EXCEPT ![d] = @ \ {f}]
    /\ pc' = [pc EXCEPT ![d] = IF out[d] = {f} THEN "run" ELSE "write"]
    /\ UNCHANGED <<torn, carried, fresh, starts>>

Gone(d) ==
    /\ pc' = [pc EXCEPT ![d] = "off"]
    /\ offset' = [offset EXCEPT ![d] = 0]
    /\ keys' = [keys EXCEPT ![d] = {}]
    /\ carried' = [carried EXCEPT ![d] = {}]
    /\ fresh' = [fresh EXCEPT ![d] = {}]
    /\ out' = [out EXCEPT ![d] = {}]
    /\ UNCHANGED <<lines, starts>>

(* The driver leaves after flush_on_exit drew the last facts. *)
Exit(d) == /\ pc[d] = "run"
           /\ fresh[d] = {}
           /\ Gone(d)
           /\ UNCHANGED torn

(* The process is killed; its lock dies with it.  Killed inside an append,
   it may leave the start of the next line behind. *)
Crash(d) == /\ pc[d] # "off"
            /\ Gone(d)
            /\ torn' \in IF pc[d] = "write" THEN BOOLEAN ELSE {torn}

Next == \E d \in Drivers :
            \/ Start(d)
            \/ NextLevel(d)
            \/ \E used \in SUBSET Facts : Evaluate(d, used)
            \/ Pull(d)
            \/ AppendFacts(d)
            \/ WriteHeader(d)
            \/ \E f \in Facts : WriteFact(d, f)
            \/ Exit(d)
            \/ Crash(d)

Spec == Init /\ [][Next]_vars

(* The driver loop draws its facts at the end of every batch and on every
   way out, and a process inside write_all keeps writing.  (A run that a
   viewer leaves paused keeps what its Seed computed until it goes on.) *)
Fairness == \A d \in Drivers :
                /\ WF_vars(AppendFacts(d))
                /\ WF_vars(WriteHeader(d))
                /\ WF_vars(\E f \in Facts : WriteFact(d, f))

FairSpec == Spec /\ Fairness
-----------------------------------------------------------------------------
(* The type invariant. *)
TypeOK ==
    /\ lines \in Seq(FactLine \cup {Header})
    /\ torn \in BOOLEAN
    /\ pc \in [Drivers -> {"off", "run", "write"}]
    /\ offset \in [Drivers -> Nat]
    /\ keys \in [Drivers -> SUBSET Facts]
    /\ carried \in [Drivers -> SUBSET Facts]
    /\ fresh \in [Drivers -> SUBSET Facts]
    /\ out \in [Drivers -> SUBSET Facts]
    /\ starts \in [Drivers -> 0..MaxStarts]

(* A fact is written once: no two lines of the file carry the same key,
   whatever the drivers computed in parallel, wherever one was killed and
   whatever torn tail the next writer found (ledger.rs append reads the
   siblings' lines under the lock before it chooses what to write). *)
WrittenOnce ==
    \A i, j \in 2..Len(lines) : lines[i].fact = lines[j].fact => i = j

(* read_new never refuses a file the drivers themselves wrote: the file is
   never shorter than what a driver read ("shrank below what this driver
   read"), its first line is the header, and every later line is a fact. *)
NeverRefused ==
    /\ \A d \in Drivers : offset[d] <= Len(lines)
    /\ \A i \in 1..Len(lines) : (lines[i] = Header) = (i = 1)

(* What a driver believes about the file is true: the keys it will not write
   again are exactly those on the lines before its offset. *)
KeysMatchOffset ==
    \A d \in Drivers :
        keys[d] = {lines[i].fact : i \in {j \in 2..Len(lines) : j <= offset[d]}}

(* No fact is forgotten between the evaluation that computed it and the
   file: everything a host answers from memory is on disk, in the append in
   progress, or waiting for the next draw, and in just one of these places
   (host.rs carry_facts and take_facts against ledger.rs append). *)
NothingForgotten ==
    \A d \in Drivers :
        /\ carried[d] = keys[d] \cup out[d] \cup fresh[d]
        /\ keys[d] \cap (out[d] \cup fresh[d]) = {}

(* The file is append-only: no step, and in particular no trim of a torn
   tail, removes or changes a complete line. *)
AppendOnly ==
    [][/\ Len(lines') >= Len(lines)
       /\ \A i \in 1..Len(lines) : lines'[i] = lines[i]]_vars

(* A computed fact reaches the file unless its driver dies first, or a
   sibling's copy of it is there already. *)
FactsReachTheLedger ==
    \A d \in Drivers, f \in Facts :
        f \in fresh[d] ~> (f \in FactsPast(0) \/ pc[d] = "off")

(* The ledger implements the write-once store: the published facts are those
   on the file's lines, each owned by the run its first line names. *)
FirstLine(f) == CHOOSE i \in 2..Len(lines) :
                    /\ lines[i].fact = f
                    /\ \A j \in 2..Len(lines) : lines[j].fact = f => i <= j
Store == INSTANCE FactStore
            WITH store <- [f \in FactsPast(0) |-> lines[FirstLine(f)].run],
                 seen  <- keys
ImplementsStore == Store!Spec
=============================================================================
