# emath: a TLA+ model of its long-running parts

Most of emath is a pure function of its input: it parses, admits, evaluates and
generates code. Three parts are not, and these specifications are about them.

* `emath dream` drives a user's search module for hours or days: it evaluates
  batches, journals them, checkpoints, takes control requests and evidence files
  between batches, climbs a chain of levels, and promises that a stopped or
  killed run resumes as if nothing had happened. A dashboard follows it.
* The experiment host builds two programs, runs them in pairs under limits, and
  spends a held-out workload once, over sessions that may be killed.
* The evaluator stops when its work limit is hit, is saved in the middle of an
  expression, and is resumed later, possibly many times.

File names below are relative to `src/crates/emath-tui/src/`, or, where they
start with `engine_step/`, to
`src/crates/emath-exec-ir/src/constructor_layer/`.

## 1. The system

### Components

| Component | State it keeps | Operations | Interacts with |
| --- | --- | --- | --- |
| Dream driver, `dream/driver.rs` | one process per run: session, ladder, evidence, sets of acknowledged requests, taken files and kept items, last checkpoint | open (fresh, resume), run_batch, next_level, checkpoint, apply and poll_control, end, run, drive, record_fault | all of the dream components |
| Journal, `dream/journal.rs` | `journal.jsonl`, one event per line with a contiguous `seq` | append, emit, read_events | written by the driver; read by resume, fork, the viewer |
| Resume law, `dream/resume.rs` | none (pure functions), fork's new directory | kept_at, ladder_of, resumable, fork_run | journal, checkpoints |
| Inbox, `dream/inbox.rs` | `inbox/*.json`, dropped by anybody | pending, parse_file, replay | take_inbox before each batch |
| Run laws, `dream.rs` DreamRun | watermark, plateau streak, close reason | open, restore, advance, finish | the driver, the session |
| Session, `host.rs` LoopSession | the module's state and its ledger of batches | begin, step, grow_case, save, load | checkpoints |
| Evaluation ledger, `dream/ledger.rs` with `host.rs` FactCarry | `facts.<id>.jsonl`, shared by every run under one root; offset and key set per driver; carried and fresh facts per host | sync, read_new, append; carry_facts, take_facts, evaluate | all drivers at once |
| Run lock, `drive()` | `driver.lock`: a name, a file, an OS lock | open, try_lock, remove, drop | competing launches |
| Run directory, `dream/rundir.rs` | run.json, checkpoints/, control/requests.jsonl, control/acks.jsonl | create_run, list_checkpoints, send_request, read_requests, read_acks, fork helpers | driver, viewer, CLI |
| Level chain and kept library, `dream/chain.rs` | `world/level_NNN.emath`, `world/kept.emath` | values, rewrite, keep | driver at a close and after a batch |
| Dashboard viewer, `dashboard/watch.rs` | the fold of the journal, a byte offset and the file it is in, the last acks, requests and probes | tail_lines, poll, refresh, derive_badge, send_request | journal, acks, requests, run.json, the driver's pid |
| Experiment host, `experiment/` | a checkpoint per state directory, an audit ledger shared by all, worker processes | admit, build, observe, run_arm, drive, commit, fail, evaluate, finish_ledger; run_bounded | worker processes, cargo, the evaluator |
| Execution engine, `emath-exec-ir` | an engine: frames with their waiting operations (konts), bindings, heap, memo of calls, work counter | evaluate, apply, resume, save, load | called by every host; the checkpoint of a faulted evaluation |
| Other crates | none between calls | parse, admit, compute, generate, print | called by the host and the command line |

### How a batch goes

`run()` polls control (each request is applied and then acknowledged), leaves if
the run has ended, waits if it is paused, else runs a batch: stop at the batch
cap; take the inbox files that are ready, one journal line each; pull facts from
the ledger; `DreamRun::advance` (the Step, in memory); flush facts; the records
line; the batch line; keep new items; the budget line, if the verdict raised the
watermark; the periodic checkpoint; and, at a close, either the next level or
the level event and the end. A `step` request runs a whole batch inside its own
handling. `end` writes a checkpoint and the end event.

A resume picks the newest checkpoint at or before the last journaled batch,
cuts the journal to that batch (`kept_at`), folds level, ladder, evidence,
taken files and kept items out of what is left, loads the checkpoint (or starts
at the Seed where a level began at that very batch) and applies again the
steering journaled after the checkpoint was written.

The viewer polls every 100 ms: it opens the journal, takes the complete lines
past its offset (or starts over when the file is another, or shorter), then reads
acks and requests whole. Once a second it reads run.json and asks whether
the driver's process lives. The badge is a function of all these facts.

### How an experiment goes

A session reads its checkpoint, retires a pair found pending as `uncertain`,
builds both arms (a rebuild must give the same digest), runs the warmups, then
the missing pairs. A pair is journaled as pending before either arm runs, and
counted in one commit after both have. A failure is journaled and final; a
cancelled pair is retained as an attempt. With all pairs measured, the workload's
audit id is reserved in the ledger, the evaluator is told which audits are
consumed, its decision is committed, and the reservation becomes consumed.
Each trial is a child process in a poll loop: `try_wait`, the pipes, then
cancellation, output limit, completion and timeout in that order.

### How a resumable evaluation goes

Every expression costs a unit of work. When the limit is passed the fault
unwinds through the evaluator, and each operation that was waiting for an operand
puts itself into its frame, below what the operand left there. A resume
starts at the top of the innermost frame, hands each value to the operation below
it, and, when a frame has nothing left, goes on with the definitions of its
function. Calls are remembered under their arguments; closure calls under their
bindings as well.

### What is hard

* Every journal line, checkpoint and acknowledgement is durable on its own; a
  kill falls between any two, and the memory of the process is a step ahead of
  its files most of the time.
* What a restart restores comes from four places (journal, newest checkpoint,
  acknowledgements, directory listing) that were written at different moments.
* The journal is cut on restart while the other files are not.
* Levels restart the session, the ladder and the case set, but not the journal.
* The ledger is shared by processes that are killed inside a write.
* The lock file is opened by name, locked by file and removed by name.
* The viewer reads files that are torn, replaced and appended to as it reads.
* A child's exit, its output, its descendants, a timeout and a cancellation come
  in any order; the host may be killed around any of them.
* What an evaluation was in the middle of must be rebuilt from frames alone.

`PROJECT.json` lists each hazard at its line with the properties about it.

### What correctness means

| Component | It is correct if |
| --- | --- |
| Ledger | the file is an append-only, write-once store; no driver meets a file it must refuse; no computed fact is forgotten |
| Lock | one driver per run; no lock file outlives the launches but one that a killed process had open |
| Driver, resume law, journal | seq is contiguous; batches are in order, once each; the session, level, ladder and evidence in memory are those the journal describes, after any kills and restarts; a kill loses at most `checkpoint_every` batches; committed events are never rewritten; a closed run stays closed; `end` is last |
| Control | every request is answered, once, in order; a paused run moves only under `step`; a repeated grow_case is not applied twice |
| Inbox | no file enters the evidence twice |
| Viewer | what it shows is the complete lines of one file; the badge tells the driver's state; it catches up |
| Experiment | every launched pair is counted or accounted for; pairs come from one binary per arm; a workload looks fresh once; the budget is kept over sessions; a run ends with its child reaped; sessions return |
| Evaluator | however it is cut, the value is that of an uncut run; a resume repeats little; a remembered value is the true one |

## 2. The modules

| Module | Models | Correspondence |
| --- | --- | --- |
| `FactStore` | what the ledger promises | abstract: a write-once map from facts to the run that published them |
| `FactLedger` | `ledger.rs`, FactCarry, the driver's calls | `lines` and `torn` are the file; `offset`, `keys` are struct Ledger; `carried`, `fresh` are FactCarry; `out` is the append in progress. A read is one step under the shared lock; an append is lock+trim+read, then one step per line |
| `RunStore` | what a run directory promises to who drives it | abstract: the states of one run, of which a driver holds the last one, or that and one batch more |
| `RunLock` | `drive()`'s lock | `path` is what the name leads to, `fd` what a process opened; one action per system call |
| `DreamJournal` | the laws that read a journal | kept_at, ladder_of, replay, resumable as operators; `History` is the session a journal describes |
| `DreamDriver` | one run directory and its driver | `journal`, `ckpts`, `requests`, `acks`, `inbox` are the files; `drv` is the process, `drv.pc` where in the loop it is; one action per durable write or per decision between two |
| `DreamClaims` | a documented promise the driver breaks | section 4 |
| `RunWatch` | the viewer, beside a driver that writes what it reads | `files` are the files `journal.jsonl` has named; `reqs`, `acks`, `ended` the control files and run.json; `drv` the driver as its files show it; `view` the viewer's cursor and what it has read. One action per read of the viewer, two per line written |
| `BoundedRun` | `run_bounded` and `run_cargo_timed` | `child` is the process, its streams and the loop's locals; an iteration is `TryWait` then `PipesAndDecide`; beside them the child writes and exits, descendants let go of the streams, time passes |
| `Experiment` | the experiment host over `BoundedRun` | `disk[d]` is a checkpoint file, `ledger` the audit ledger, `host` the session in progress; one action per commit, launch, outcome or decision |
| `Evaluator` | the resumable evaluator | `engine` has the frames, konts, bindings, heap, memo, carried facts, released bindings, depth and counter of the Rust engine; evaluation is a set of recursive operators that take an engine and return one, a host's calls (`Run`, `Carried`, `Resume`) are the steps |
| `Positions` | filters over a file | what a filter keeps, by the positions it keeps: `DreamJournal` and `RunWatch` read files with it |
| `FactLedgerProofs`, `RunLockProofs`, `PositionProofs`, `DreamJournalProofs`, `DreamRunProofs`, `DreamRestartProofs`, `RunWatchProofs`, `ExperimentProofs` | theorems | section 5 |
| `MCExperiment`, `MCEvaluator` | instances | two experiments on one workload; a program for each operation that can wait |

`DreamDriver` extends `DreamJournal`, which extends `Positions`, as `RunWatch` does; `Experiment` extends `BoundedRun`;
`FactLedger` instantiates `FactStore` and `DreamDriver` instantiates `RunStore`, each through a
refinement mapping. The driver's: `now` is the state its journal describes (`StateOf`: last
batch, level and session), `past` the states its prefixes describe (`PastOf`), `held` what `drv` has
in memory (`Held`), `closed` that there is a level event, `Loss` is `checkpoint_every`. Where the constants
are small numbers and sets a `.cfg` gives them directly. Operators named *Mutant*
in a comment stand beside the definition they break; nothing uses them.

Abstractions, and why they lose nothing the properties speak of:

* A session is its history: the batches (watermark, evidence and verdict) and
  case growths applied to it. States are pure functions of these, so two
  sessions with equal histories are equal.
* A watermark is the number of raises that led to it. `2 * used + step` is
  strictly determined by the history.
* Verdict 1 stands for goal and exhausted (both close), 5 for any value outside
  the vocabulary. What a Step returns is not constrained by the code: any verdict
  may come at any time.
* A ledger offset counts lines, not bytes; a fact's value is left out because it
  is determined by its key.
* An end's outcome keeps what `resumable` reads: stopped, batch_cap, closed,
  budget_exhausted, a fault of the work limit (`work`), any other (`fault`).
* An I/O error of a driver leaves the disk as a kill at that point does. A fault
  while a driver opens, before it has a host to draw facts from, does too.
* `RunWatch` counts files in half lines: a torn line is a first half, a merged
  line a second half that follows one. Of requests it has pause, resume and stop.
  An inode number may be given again to a later file, as file systems do.
* `Experiment` names outputs and digests per arm: 1 is the first, 2 any other.
  The host compares them for equality only. A success takes one unit of time, a
  timeout all it was allowed. Wall times and warmup rows are recorded and never read.
* `Evaluator` has the expressions an operation can wait in; integers are
  unbounded. The names a function value captures, those a quotation leaves free, and those a
  tail move may release, are analyses of the expression alone and are given with it; environments are
  compared by value. No program changes a function's definition, so quoted code never meets
  a stale dependency. A checkpoint's text is taken to read back as it was written.

## 3. The runs

Passing runs:

| Run | Instance | Shows |
| --- | --- | --- |
| `fact_ledger` | 3 drivers, 2 facts, 2 starts each | WrittenOnce, NeverRefused, KeysMatchOffset, NothingForgotten, AppendOnly, ImplementsStore, FactsReachTheLedger |
| `run_lock` | 4 launches | OneDriverUntilRemoval, LeftByKilled |
| `dream_ladder` | 3 batches, checkpoints every 2 and one retained, all regular verdicts, ceiling of one raise, 2 levels, 2 kept items, faults of both kinds, 2 kills | JournalInOrder, SessionMatchesJournal, LadderMatchesJournal, CheckpointsMatchJournal, BoundedLoss, CommittedSurvives, ClosedIsFinal |
| `dream_control` | 2 requests of six kinds, 1 case, 2 batches, 2 levels, unknown verdicts, 1 kill, fair driver | SessionMatchesJournal, AnsweredInOrder, PausedOnlySteps, GrownOnce, RequestsAnswered, RunEnds |
| `dream_inbox` | 2 files, one malformed, quiet and closing batches, checkpoints every 2, 2 levels, 2 kills, 1 fork, of a run at rest or beside its driver | ImplementsStore, TakenOnce |
| `experiment` | 2 state directories of two experiments on one workload, 2 pairs, one warmup, 3 sessions of which the first is followed poll by poll, 1 kill, budget 9 | LaunchesAccounted, OneBinaryPerArm, OutputsOfCountedPairs, AuditFreshOnce, BudgetKept, RunsEndClean, SessionsReturn, VerdictIsFinal, DecidedIsConsumed |
| `run_watch` | 2 drivers, 2 lines each, 2 requests, 2 inode numbers, failing writes | ViewIsOneFile, AnsweredOnce, BadgeTruth, ViewCatchesUp |
| `evaluator` | 27 programs, a depth cap of 9, hosts with and without carried facts, slices of 3, 5 and 11 units in any order, 10 resumes | ResumedAsStraight, ReworkBounded, MemoIsTruth |

Deadlock is not checked: a run that ended, launches that are all over, drivers
or sessions that used up their starts and an evaluation with a value have nothing left
to do.

Why the bounds are enough:

* Two kills are needed for a restart of a restarted run, where memory that was
  not made durable (the deferred files) shows. Three batches with a period of
  two put a batch on either side of a checkpoint and, with retention one, make
  eviction happen. `PlateauClose = 2` makes a streak cross a restart and a
  level. Two levels are enough for a level that is neither first nor fresh.
* Two requests hold a pause and a `step` behind it, a steering request and its
  duplicate, or a request that waits behind one that ends the run.
* Three drivers let one write while another holds pending facts and a third is
  being restarted; two facts make an append of more than one line, so a kill
  leaves complete lines and a torn one. Two starts let a killed driver come
  back to its own half-written append.
* Four launches contain the race in the lock with one launch to spare.
* Two drivers let a journal be replaced under a viewer, and torn and merged lines
  come after a refused or a failed driver. That a new file has the old one's
  inode number *and* is no shorter takes a third driver: with three drivers and one
  request the run passes too, and the properties exclude exactly that case.
* Two experiments meet in the ledger in every order; a third session finds what the
  first two left. Two pairs give each arm a second output to compare and each
  order once; a budget of 9 runs out in a warmup, in a pair or in a build.
* The programs of `evaluator` take 26 to 60 units; a slice of 3 cuts at every
  second or third operation, and 10 resumes in longer slices reach the end of each. The cap of 9
  is met only by `deep`, which calls itself without end, however it is cut.
  The programs are those of the repository's own resume tests
  (`src/tests/emath-exec-ir/tests/constructor_cutover.rs`) with one for each kont.
  `Rework`, the bound of `ReworkBounded`, is fitted to these programs.

What two of the runs do not reach:

* `dream_inbox` has no requests: that a store's states survive steering is shown by
  `dream_control` (`SessionMatchesJournal`, `GrownOnce`) and by the theorem `DriverImplementsStore`.
  Its fork is one step, so it never falls between two reads of the journal and the checkpoints
  (section 4 tells what happens there). `TakenOnce` says that a file is taken once, not when.
* `run_watch` counts a merged acknowledgement as none, as `parse_objects` does, so a request applied
  again after one is not a violation of `AnsweredOnce`.

The history variables (`removed`, `killed` (the lock files killed processes had open), `launched`, `spent`, `lost`, `fooled`)
and the counters (`crashes`, `forks`, `starts`, `kills`, `made`) are the only state
the programs do not have.

Fairness.

* `dream_control` assumes weak fairness of the driver's own steps
  taken together: `run()` is a loop without blocking calls, which sleeps at most 100 ms when
  paused, and `drive` calls `open` at once. Nothing is assumed of the viewer,
  of who drops files, or of who starts a driver, so both properties let the driver
  be gone, and `RunEnds` lets it stay paused. Batches are bounded by `max_batches`,
  as in the code; levels by `MaxLevel`, which only shortens the chain.
* `fact_ledger` assumes weak fairness of each driver's flush and of the lines
  it writes under the lock: `run_batch` flushes after every Step, faulted or not,
  and `end`, `next_level` and `flush_on_exit` flush too. A run that is left paused
  right after it was opened keeps the facts of its Seed until it goes on; the
  fairness assumption excludes that. Evaluations, starts, exits and
  kills are not assumed fair.
* `experiment` assumes weak fairness of the host's steps, of the poll loop and of the
  clock. Nothing is assumed of a child or its descendants: it is the timeout that ends the loop.
* `run_watch` assumes weak fairness of the viewer's reads and strong fairness of its
  probe: both are on one thread, the reads at every tick and the probe at the
  first tick after a second, so the probe is enabled between reads again and again.
  Nothing is assumed of the driver.

## 4. Where the code and its documents disagree

Four runs check one documented sentence each, and TLC refutes it.

* `claim_close`, **a closed level can be driven on.** Batch 1 closes; its
  periodic checkpoint is written (`driver.rs:612`); the process is killed before
  the level event. The restart loads that checkpoint with `close: None`
  (`dream.rs:759`), and runs batch 2 of a level that had closed. `driver.rs:11` says a
  crash and resume reproduce the uninterrupted journal. The level event or the
  close has to be durable with, or before, that checkpoint.
* `claim_lock`, **two drivers.** A launch opens the old `driver.lock`; the
  leaving driver removes the name, then drops the lock; the launch locks the
  nameless file while a third creates and locks a new one (`driver.rs:780`).
  `CONTRACT.md:331` says that lock refuses a second driver. Removing the name
  last would not help; checking after `try_lock` that the name still leads to
  the locked file would.
* `claim_audit`, **a workload looks fresh twice.** The consumed audits leave out
  every pending row of the same experiment (`experiment/mod.rs:1432`), and an
  experiment's identity does not depend on the state directory. A session killed
  after its decision and before `finish_ledger` leaves its row pending; the same
  experiment in a new directory takes that row for its own. `experiment/mod.rs:26`
  says a workload consumed once can never look fresh again.
* `claim_resume`, **a resumed value differs.** A call whose argument was being
  evaluated when the work ran out has a frame with no definition started. If the
  memo has its answer by the time it is resumed, `engine_step/kont.rs:538` takes that
  answer for a definition's value and runs the function's definitions in the bindings
  of the caller: the naive `fib(4)` becomes 4.
  `emath-exec-ir/CONTRACT.md:133` says values are identical.

More disagreements, met with the model and told here without a run:

* *Acknowledged steering is lost.* grow_case is applied and acknowledged at
  batch 1, the newest checkpoint is of an earlier batch, the process is killed.
  `kept_at` drops the steer event with its batch, the acknowledgement stays, so
  the request is not applied again (`resume.rs:20`, `driver.rs:703`).
* *A dropped file is retaken early after a second kill.* The boundaries files wait
  for are computed from the journal about to be cut and kept in memory
  (`driver.rs:260`); after the second restart that journal no longer has the events.
  `CONTRACT.md:320` says the file is taken at the boundary that first took it.
* *The default fork of a closed run cannot be driven.* The latest checkpoint is of
  the closing batch, so `kept_at` keeps the level event, and the fork is refused as
  closed (`resume.rs:139`); `resume.rs:89` advises to fork a closed run.
* *A fork beside a live driver.* `fork_run` reads the journal (`resume.rs:122`) before it
  lists the checkpoints (`:123`). A checkpoint the driver writes in between is
  copied beside a journal that does not reach it: the fork starts over from the Seed, and
  once it has driven as many batches, a restart loads the source's session for them. A read
  without the budget or steer line of the checkpoint's batch loses that line. Seen with
  the two reads as steps of their own; `CONTRACT.md:229` says a fork starts from the journal
  truncated at the latest checkpoint plus that checkpoint.
* *Stale checkpoint.* An unknown verdict is refused after the session has stepped
  (`dream.rs:863`), and `end` then writes a checkpoint of a batch the journal does not have
  (`driver.rs:456`). Killed before the end event and started again, the run drives another
  batch of that number; killed again before the next periodic checkpoint, it loads the stale
  one for it (`driver.rs:11`, `CONTRACT.md:514`). It takes two kills with verdicts
  `{0, 5}` and a checkpoint every 2 batches; `dream_control` has one kill and
  `dream_ladder` no unknown verdict, and the theorems on batches, checkpoints and sessions
  leave that verdict out. Files, closed runs, the ladder and control do not depend on it.
* *A kill between the start line and the seed line* leaves a journal that is not
  empty, so every later open is a resume, and the run never gets a seed event.
* *A stale pause.* Acknowledgements survive a restart and `paused` does not
  (`driver.rs:285`): the badge of a resumed run says Paused while it runs
  (`dashboard/watch.rs:202`, `CONTRACT.md:370`). `BadgeTruth` is stated for an
  acknowledgement of the running driver.
* *Evaluator, record invariants.* An invariant that runs out of work restores the
  caller's bindings before the frame is pinned, so that it is resumed without the
  record's fields (`engine_step/tail.rs:525`; program `inv`).
* *Evaluator, ranges and quoted operands* are evaluated with no kont: a cut in
  the second bound loses the expression (`engine_step/core.rs:570`; program `range`).
* *Evaluator, nested binders.* A child that swapped bindings back keeps its caller
  from pinning its own (program `scoped`, with slices 3, 7, 11 and 50).
* *Evaluator, replayed effects.* The charge on entry to a closure may fail when the
  arguments are done and no kont holds them: they are evaluated again, with their
  effects (`engine_step/apply.rs:32`; program `replay`). `emath-exec-ir/CONTRACT.md:36`
  says a finished operand is not evaluated again.
* *Evaluator, a closure of several arguments.* `apply_value` keeps no kont for the
  arguments after the first (`engine_step/apply.rs:55`): cut inside the first application,
  the resumed run returns the partial application (program `curried`).
* *Evaluator, depth.* A resume takes the number of frames for the depth
  (`engine_step/kont.rs:130`), and a quotation's frame was pushed without a level of its own
  (`engine_step/apply.rs:230`). Near the cap the resume faults where the straight run does not
  (program `quoted`). A resume inside a tail loop leaves one more frame, so that a long
  loop resumed often enough reaches the cap too (program `grown`, with `MaxDepth = 6`).
* *Evaluator, a measured candidate that fails*, or is cut, inside a binder leaves
  `swapped_unwind` set: `quote.cost` restores all else (`memo.rs:217`). The next suspension of
  that resume is not pinned, and the next resume reads the binder's bindings (program `failing`).
  The entries `Einv`, `Erange`, `Escoped`, `Ereplay`, `Ecurried`, `Equoted`, `Egrown` and
  `Efailing` of `MCEvaluator` show these when put in place of `Efib` in `Evaluator_claim.cfg`.
* *Evaluator, tail moves.* `engine_step/mod.rs:870` says they run under the facts-only memo;
  `eval_tail` starts them without asking (`engine_step/tail.rs:84`). The model does what
  the code does, and the values agree.
* *Experiment.* The fact `outputs_stable` is declared as "every run of each arm"
  (`experiment/mod.rs:62`); outputs of warmups are not observed. Time since the last
  commit is not charged to an experiment whose session is killed or whose rebuild is
  refused, while `CONTRACT.md` has the budget span all sessions (`BudgetKept` states
  by how much). The child of a killed host runs on, as nothing binds it to its parent.

## 5. What is proved

TLAPS checks every obligation; no axiom is added. Assumptions are those
on the constants, which TLC evaluates on the runs' values: `StartsAssumption` (a
driver can be started), `HeaderAssumption` (the header is not a fact line),
`InodesAssumption` and `OutputAssumption` (bounds are numbers), `ManifestAssumption`
(an experiment's limits are numbers) and `ConfigAssumption` (a driver's are, and
both checkpoint settings and `plateau_close` are positive) and `BoundsAssumption`
(a file has an inode; a viewer's bounds are numbers).

`FactLedgerProofs`, for every set of drivers and facts and every bound on starts:
`TypeCorrect`, `LedgerWritesOnce`, `LedgerNeverRefused`, `LedgerKeysMatch`,
`LedgerForgetsNothing`, `LedgerAppendOnly`, `LedgerImplementsStore`. None of the properties is inductive
by itself. The invariant joins them with `Writer`, which says what the exclusive
lock buys: at most one driver is inside an append; it has read the whole file
(`offset = Len(lines)`), and its draw is empty; nobody else has unwritten lines.
`ReadGivesAll` is the key lemma: from a matching offset, the old keys and the
lines past it are all facts of the file. So `Missing` is what the file lacks,
and, the lock being held, still lacks when each line goes out (`WriteFactInv`).
The refinement of `FactStore` rests on the same invariant, step by step: a read is a
`Learn`, a fact line a `Publish`, an end a `Forget`, and the lock, the header and
everything a draw does in memory stutter.

`RunLockProofs`, for every set of launches: `TypeCorrect`,
`LockKeepsSecondDriverOff`, `LockIsRemoved`. The invariant has four parts:
`OneHolder` (one holder per file), `OneFile` (one file before the first removal,
and it has the name), `LeavingUnnamed` (who removed the name holds a file
without one), `NamedIsOpen` (a named file that no killed process had open is open in a launch
that will remove it or be refused by one that will).

The driver, for every configuration, any number of requests, files, kills,
restarts and forks, in modules of which each extends the one before:

* `PositionProofs` is about filters. The nth smallest of a set of positions exists and
  is the only one (`NthIs`); positions that all come later add their elements at
  the end (`AtUnion`); a sequence that agrees with another on the positions
  kept is filtered to the same (`AtSame`).
* `DreamJournalProofs` is about the laws alone. An appended event keeps a journal
  in order if it fits; `kept_at` of a journal in order is a prefix of it, up to
  the batch asked for (`KeptIsCut`), and the folds for level, base, taken files and
  last batch are those of the journal up to there (`CutInOrder`). The session a journal
  describes is a filter too: an append adds to its end or nothing (`HistoryAppended`), a cut
  leaves that of the prefix (`CutAlike`).
* `DreamRunProofs`, control: `ControlInvariant`, `RequestsInOrder`,
  `PausedMovesByStep`. One count is kept in four places (`ControlInv`): acks.jsonl
  answers the first n requests, the driver's set of answered requests is 1..n,
  the request it serves is n + 1, and a batch run for a `step` keeps that number
  until it is acknowledged. Without the last part a batch could return to the wrong
  request.
* `DreamRunProofs`, the journal: `RunInvariant`, `ReadsAsOneRun`, `CommittedStays`. The invariant (`RunInv`) ties three files
  to the process: the journal is in order; the driver is at the batch its journal
  ends in (one further from `advance` to the batch line), at its level, its base and its
  taken files; every checkpoint is of a batch the journal has, and its history counts
  that batch from where the checkpoint's own level began. The last part is what
  makes a restart land where its checkpoint says, and is lost without the
  other two when a journal is cut.
* `DreamRunProofs`, whatever the Step reports: `KeepsInvariant`, `FilesTakenOnce`,
  `ClosedStaysClosed`. `RunInv` needs batches in order, and a stale checkpoint (section 4) breaks that
  order. `KeepsInv` is the part of it that survives: no file is twice in the journal, the
  driver's taken files are the journal's, the files it is about to take are not among them,
  and past the level event it is on its way out. It holds because what a restart keeps is
  a part of the journal it reads, whichever batch it cuts at (`LinesKeep`).
* `DreamRestartProofs`: `LadderFoldsBack`, `LossIsBounded`. `LadderInv` says by how
  much the ladder in memory is ahead of the journal, at each point of a batch.
  `LossInv` says that no batch between the newest checkpoint and the last batch was due
  for one, and neither was the last once its period has been looked at;
  retention keeps the newest, and of `checkpoint_every` batches in a row one is due.
  The ladder needs no more than `KeepsInv` beside it, so it too folds back whatever the Step reports.
* `DreamRestartProofs`, the session: `SessionFoldsBack`, `CheckpointsFoldBack`,
  `CasesGrownOnce`. `SessionInv` says that the session in memory is the one its journal
  describes (ahead of it by the batch that ran, until that batch's line is written), and
  that every checkpoint is the session of some prefix of the journal, with no later batch
  line of its own batch or an earlier one. So what a restart has to add to the
  checkpoint it loads is steering alone, and `RegrownAtCheckpoint` and `RegrownAtSeed` show
  that it adds the right cases in the right order. Both need `Shape`, what no law
  checks and the driver keeps to: a case is steered once in a level; a batch or a level
  follows only steering of an earlier batch; levels count. Without the second, steering
  a restart applies after its checkpoint could belong before it.

* `DreamRestartProofs`, the store of states: `DriverImplementsStore`. Every step of the
  driver is a step of `RunStore` or a stutter. A line appended adds at most one state to those of the
  journal (`UpTo` of its length); the lines that are neither a batch, a steer nor a level leave the
  state as it is. A restart and a fork go back to a state the journal's prefixes have: the one at the
  end of its batch, so that of the states of that batch the abstract step keeps, it is the last
  (`Before`). `HeldHolds` (from `RunInv` and `SessionInv`) says what the driver has in memory,
  `LossIsBounded` how far back it starts, and `Anchored`, the one new part of the invariant, that
  steering and a new level come after the line of their batch: a cut that keeps them keeps that
  batch too, and so leaves the journal in a state it was in.

Nine of these theorems assume `5 \notin Verdicts`, that the module keeps to the verdict
vocabulary: `RunInvariant`, `ReadsAsOneRun`, `CommittedStays`, `LossIsBounded`,
`SessionInvariant`, `SessionFoldsBack`, `CheckpointsFoldBack`, `CasesGrownOnce` and `DriverImplementsStore`. The
assumption cannot go: with unknown verdicts and two kills TLC breaks `JournalInOrder`,
`SessionMatchesJournal` and `CheckpointsMatchJournal`, and with a checkpoint every batch and one
retained it breaks `BoundedLoss` without a kill, because the stale checkpoint evicts the only one a
restart could use; see *Stale checkpoint* in section 4. `CommittedSurvives` and
`GrownOnce` rest on the same invariants; TLC found no violation of these two within
two kills, so for unknown verdicts they are open. `dream_control` checks
`SessionMatchesJournal` and `GrownOnce` with unknown verdicts, up to one kill.

`RunWatchProofs`, for any number of drivers, requests, lines and inodes, with and without
failing writes: `Invariant`, `ViewKeepsToOneFile`, `RequestsAnsweredOnce`,
`BadgeIsTrue`. The invariant `IInv` has one part for each reader:

* `FilesHold`: in every file a second half follows a first half (`Framed`), and while the
  driver is between two halves the first is the last thing in its file. So a line that is
  read has its own two halves, or is one a reader cannot parse.
* `ViewHolds`: the viewer's offset is a line end, and its lines are what one reading of
  the file up to there gives. Reading on from a line end adds what reading it all at once
  would have (`ReadOn`, over `AtUnion`), and what was read of a file that only grows stays
  what was read (`GrownRead`). A file under an inode given again is left out by `fooled`,
  as in the property.
* `AcksHold`: the request a driver has in hand is not among those it knows answered, and
  it knows every answer there is to read: those of the file it opened, and its own. A torn
  answer is never completed by a later driver, so it cannot come to be read as a second one.
* `PauseHolds`: with no answer torn, the driver's pause is that of the last pause or resume it
  answered itself, or none. `BadgeIsTrue` needs the last applied one to be its own:
  `PauseIsOfThisDriver`, see *A stale pause* in section 4.

`ExperimentProofs`, for every set of state directories, experiments, audits and
budgets and any number of sessions and kills, in five parts:

* One run under limits (`ChildInv`, `RunsClean`): a status is that of a process that is
  gone and was waited for, an end of stream was read where nobody holds the stream, a
  trial has no more output than its limit.
* Checkpoints and audit ledger: `Invariant`, `LaunchesKept`, `FreshOnce`,
  `VerdictsFinal`, `DecisionsConsumed`. The invariant is `TypeOK`; `SamplesHold`: a
  checkpoint's pairs, attempts and pending pair are as many as were launched;
  `SessionHolds`: the session's copy is the checkpoint on disk, without a verdict, until
  only its ledger row is left to finish; `LedgerHolds`: whoever decided, or is about to,
  has a row, and whoever looks fresh has one before which no other experiment has a row of
  that workload. A commit writes the session's copy back whole, so each property needs
  that copy tied to the file.
* Outputs (`OutputsInv`, `OutputsKept`): the outputs recorded for an arm are those of the
  first counted pair, and of the pair in hand each arm either has run or is still to run.
  Without the second half a pair could be counted with one arm's output missing.
* Builds (`BuildsInv`, `BinariesKept`): an arm is built once a session, always with
  the first build's digest, and what a session has still to build it has not built.
* Time (`BudgetInv`, `BudgetIsKept`): the time the host knows of is journaled or on its
  clock, ahead of the checkpoint by at most the runs of one commit; and a session that is lost
  takes no more than that with it.

The last three go through `StepForms`: every step of the host is one of ten forms
(it idles, proceeds, leaves, fails, begins, builds one, begins a pair, runs one, runs the
last, or decides), each saying what it does to the measurements and the clock, so
that each invariant is proved over the forms and not over every action again.

Model-checked only: the properties of `Evaluator` (`ResumedAsStraight`,
`ReworkBounded`, `MemoIsTruth`), whose operators are recursive, which the prover does not
take; and liveness under fairness and ENABLED, which are out of its reach:
`FactsReachTheLedger`, `RequestsAnswered`, `RunEnds`, `SessionsReturn`, `ViewCatchesUp`.

## 6. Not modelled

* Run directories: `--overwrite`, name claims, request ids, `run.json` and
  `metrics.jsonl`. Torn and merged lines are those of `RunWatch` and the ledger;
  `DreamDriver` takes a line as written or not.
* `fork_run`'s two reads are one step (section 4 tells what falls between them). A resume
  with other ceilings.
* Inbox: exact-decimal parsing, whose 128-bit products are beyond TLC's integers.
* Chain: the rewriting of a level's source text and the kept library's text; pure
  functions of their input.
* Experiment: admission of a manifest, the workers' isolation profile and environment.
* Evaluator: the operations on quotations other than `evaluate` and `cost`, `quote.world`,
  carrier worlds, queries, the text of a checkpoint; the second evaluator (`constructor_emir.rs`), which has no
  resume and promises what the first computes.
* Syntax, admission, kernels, code generation, CLI commands, web demo: most of the
  repository's lines. They keep no state between calls and run nothing concurrently;
  what could be said of them is what a function returns for an input (a tree, a text, an
  array of floats), and an operator that says so would be the function over
  again, with strings and floats, which TLC has no bounded instance for.

## 7. Plan

Done, in this order: the ledger and its abstract store, the lock, the journal's
laws, the driver over them, the proofs of the first two; the viewer, the bounded run, the
experiment host over it, the evaluator; forks beside a driver; the proofs of
the experiment host and of the driver; the driver as a store of states (`RunStore`),
and what holds of it whatever the Step reports.

Next, the most important first:

1. `RunDirectory`: request ids; name claims and `--overwrite` beside a live driver.
   Invariants: a directory is claimed once; a request answered is not applied again.
2. `fork_run`'s journal read and checkpoint listing as two steps, and what a
   lineage that is read again after the listing would repair.
3. A raised ceiling on resume, as a configuration of `DreamDriver`.
4. `InboxDecimal`: gcd, reduce and parse_decimal as functions with bounded width
   against a reference over small integers.
5. `Evaluator`: the other operations on quotations, and carrier worlds.

Proofs: the parts of `RunDirectory` and of the split `fork_run` as they are modelled. An
engine written with recursive functions in place of recursive operators would bring
`Evaluator` within the prover's reach, but what it computes for every expression
would still be an induction over data.
