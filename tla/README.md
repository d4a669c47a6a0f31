# Verification of ramus

ramus simulates branch predictors: it drives a predictor over a trace of branch
records, scores its predictions and meters the hardware operations it executes.
This directory specifies the simulator and its metering in TLA+, checks the
specifications with TLC on small instances, and proves their main properties
with TLAPS for every instance. `PROJECT.json` lists the runs, the properties
each checks, the source lines each definition stands for, and the hazards the
properties are aimed at.

- [The system](#the-system)
- [Modules](#modules)
- [Runs](#runs)
- [Proofs](#proofs)
- [Where code and documentation part](#where-code-and-documentation-part)
- [What is left out](#what-is-left-out)
- [Plan](#plan)

## The system

Two crates: `ramus` (the library) and `arbiter` (a command line program with
predictors, a trace reader and reports).

| Component | State | Operations | What makes it correct |
|---|---|---|---|
| Ledger (`observability.rs`) | per thread: totals, hardware charged so far, its leakage, a stack of open overlap groups, the metering switch | `charge`, `select`, `push`, `overlap` and its guard, `turn`, `tick`, `storage`, `prediction`, `reset` | the stack follows the guards through every way of leaving a block; time is what `overlap!` promises; hardware is paid once until the ledger is replaced |
| Cost table (`observability.rs`, `costs.rs`) | per thread: a price for each operation, parts of which may be unset | `set`, lookup at a charge | an unset price panics before anything is counted |
| Run (`simulator.rs`) | source, predictor, queue of unresolved records, position in `run_one` | `run_one`, `Queue::{feed, push, drain}` | each record predicted and trained once, in order, with bounded lag; exactly the records after warmup are scored and metered |
| Sweep (`simulator.rs`) | jobs, the pool's threads with their ledgers and tables, results | `run_many` | each result is its job's own, at its job's place; a panic ends the sweep and not only the job |
| Outcome (`common.rs`) | stages of one prediction | `collate` | the stage that counts is the one of greatest delay |
| Value, Array, Register (`primitives/`) | fixed-width integers, cells | arithmetic, reads, writes, each charged | results fit the width and agree with the integers |
| LSC, BTB, RAS, `lsc_btb_ras` (`arbiter/src/predictors`) | counters, targets, a stack of calls, stored kinds | `predict`, `update` | what is predicted follows from what was trained |
| PPM (`ppm.rs`) | a base table and four tagged tables, a history, lookups awaiting their update | `predict`, `update` | lookups and updates stay paired; allocation gives up as little as possible |
| Trace reader (`trace.rs`) | position in a stream; a cursor | `open`, `fetch` | it keeps its place; the records of a cut stream are the whole ones of its prefix |
| Report (`report.rs`) | none | `Report::new` | no difference wraps, no ratio is undefined, the rates fit each other |
| Program (`main.rs`, `cli.rs`, `costs.rs`, `predictors/mod.rs`) | arguments, predictors, traces, results, reports | `main` | all or nothing; each report names the run it is of |

The predictor and the source are callbacks of the run (`Predictor::predict`,
`Predictor::update`, `Source::fetch`). Predictors compute with `Value`s and
tables, and each such operation charges the ledger of the thread, which the run
switches on and off, ticks, and takes at its end. So the ledger is shared state
between the run and the callbacks, and it outlives both a run and a panic.

What is hard here, and hard to test:

- **Unwinding.** A price that is not set, an outcome without stages, or the
  predictor itself can panic inside any nest of groups, in warmup or after it,
  with predictions queued. A caller may catch the panic and run again on the
  same thread, with the same ledger.
- **Lag.** `update` comes up to `speculations` predictions late, and two drains
  interleave with the overflow of the queue: order, completeness and the line
  between warmup and metered work all depend on it.
- **State older than its use.** Hardware is charged on first use, per run; a
  PPM update works with what a lookup found some updates ago; tables without
  tags share entries between branches.
- **Limits.** A full call stack drops calls, counters saturate, every entry may
  be useful when one is needed, results overflow a width, a word, or both.

- **Threads.** The jobs of a sweep (`run_many`) run on pool threads in any
  order. Each thread has its own ledger and cost table, which outlive the job
  and the sweep: whatever a job leaves behind, the next one on the thread finds.
- **Positions that nothing checks.** The trace reader finds its way by sizes it
  has just read, `main` names results by counting along with `run_many`, and
  folded histories reach a table by shifts that nothing else confirms.

## Modules

| Module | Models | State | Actions or operators |
|---|---|---|---|
| `Ledger` | every `Metrics` operation | none: operators on a ledger record | `Charge`, `Push`, `OpenOverlap`, `CloseOverlap`, `Turn`, `Tick`, `Storage`, `Prediction`, `PriceOf` |
| `Meter` | a thread that meters: the ledger with the guards alive on its stack, in runs and between them | `ledger`, `costs`, `live`, `mode`, `simulating`, `size`; histories: `bought`, `stored`, `leftover`, `widest` | one per operation; `OperateUnpriced` panics, `DropGuard` serves blocks and unwinding alike, `Catch` ends unwinding at any depth; `StartRun` begins on the ledger it finds, `EndRun` resets it, `AbandonRun` is a panic that leaves `run_one` |
| `WorkTime` | abstract: the time `overlap!` promises | `time`, `depth`, `widest` | no stack at all |
| `Simulator` | `run_one`, `Queue`, consecutive runs of one thread | `phase` is the place in `run_one`, `call` the callback in progress | a step per statement group of `run_one`, a step per callback return, the callback's own metered work, panic and unwinding |
| `Pipeline` | abstract: a run as three counters | `predicted`, `trained`, `scored` | no queue, no drains, no phases |
| `Lsc`, `Btb`, `Ras` | the three components of the composed predictor | none: operators on their tables | `predict`, `update`, `push`, `pop` of each |
| `LscBtbRas` | the composed predictor | the three components and the table of kinds; histories: open calls, streaks | `Update`; `predict` writes nothing and is the operators `Direction` and `Target` |
| `Ppm` | the tagged-table predictor and the queue that calls it late | `base`, `tables`, `history`, `pending`, `unresolved` | `Predict`, `Update`, `Drain` |
| `PpmLearning` | `Ppm` with a history variable for a branch that keeps its direction | `steady` | |
| `PpmHash` | the hash functions of `ppm.rs` at their real widths: `fold`, `index`, `tag`, the allocation's salt | the history, as the set of its bits that are one | `Update` of the history; everything else is operators |
| `FoldedHistory` | abstract: a history folded into circular shift registers | three registers for each table | one direction at a time |
| `Pricing` | what the composed predictor executes in each state, and whether it has a price | none: operators on the state of `LscBtbRas` | `PredictWork`, `UpdateWork` and their parts |
| `Value` | fixed-width arithmetic and the operators that stand for it; the machine's `&`, `\|` and `^` are a parameter | one variable of a computation and the last call | one call per operation and variant |
| `Powers` | powers as recursive functions, for `Value` and `PpmLearning` | none | |
| `Sweep` | `run_many` on a pool: jobs, threads, what `thread_local!` keeps | `todo`, `pc`, `doing`, `ledgers`, `tables`, `slots`, `answer` | `Launch` by the caller; `Take`, `Build`, `StartRun`, `Feed`, `TurnOn`, `Fail`, `Return`, `Unwind` by a thread; `Collect`, `Rethrow` |
| `RunMany` | abstract: what a caller of `run_many` is promised | `grid`, `calls`, `answer`, `spoilt` | `Call`, `Answer`, `Panic`: no jobs, threads or ledgers |
| `Arbiter` | `main`, from arguments to reports, over `Sweep` | `stage` is the place in `main` | a step per stage, the steps of the sweep in between, a step per report |
| `Reader` | `Trace::open` and its `Reader` over a file cut anywhere | `stage` is the field read next | one action per read, `Yield`, `End` |
| `Rates` | `Report::new` | none: operators on the metrics | `ReportOf` |
| `Reports` | the reports made of what runs of `Simulator` return | none | |
| `Lemmas`, `MeterProofs`, `SimulatorProofs`, `LscBtbRasProofs`, `PpmProofs`, `WidthProofs`, `SweepProofs`, `ReaderProofs` | proofs | | |
| `MCMeter`, `MCSimulator`, `MCRates`, `MCPricing`, `MCPpm`, `MCPpmLearning`, `MCPpmHash`, `MCValue`, `MCSweep`, `MCArbiter`, `MCReader` | instances for TLC | | |

`Meter` and `Simulator` both extend `Ledger`: `Meter` lets the thread do
anything in any order, `Simulator` only what `run_one` and its callbacks do.
`Meter` implements `WorkTime`, `Simulator` implements `Pipeline`, `PpmHash`
implements `FoldedHistory`, and `Sweep` implements `RunMany`, each by a
refinement mapping at the end of its module. The last one maps each variable of
`RunMany` to that of the same name.

The compositions: `LscBtbRas` of its three components; `Pricing` of the
composed predictor and the ledger's prices; `Reports` of the simulator and the
reports made of what it returns; `Arbiter` of the program and the sweep. A run
is one action per record in `Sweep`, where what matters is which thread it is
on: what `Pipeline` promises of a run, which `Simulator` implements, is all
that `Sweep` assumes of it. A ledger is there the set of jobs whose work it
counts, each with the sweep whose cost table priced it, the number of
predictions, and the metering switch.

What a callback computes is abstracted in `Simulator` to its charges and its
outcome, and in the predictor modules to the tables it writes: costs do not
influence tables and tables influence costs only through which operations run,
which `Simulator` leaves to choice. Records are positions of the trace there,
since nothing may depend on what an address is. Prices are natural numbers in
place of `f64`; everything stated about them holds for sums of any
non-negative numbers that do not round. In the predictors addresses are
small numbers with the index arithmetic of the code, except in `Ppm`, whose
hash functions are parameters with no assumption but their range: `PpmHash`
has the functions themselves, whose operators are combinations of bits. There
a history of eighty directions is a set of positions, a shift moves the
positions, and exclusive or is the symmetric difference. A trace file is a
sequence of fields in `Reader`, since a read that comes up short yields nothing
wherever in the field the bytes end.

## Runs

| Run | Instance | Question |
|---|---|---|
| `meter` | two operations, five pieces of hardware, two cost tables (one with an unset price), two sizes of storage, groups two deep | does the ledger stay consistent, is hardware paid once, is time as promised, through panics, runs that end, runs that are abandoned, and work between runs? |
| `timing` | traces of 0 to 4 records, warmup and speculations of 0 to 5, a panic possible at every callback | order, lag, completeness, the promise of `Pipeline`, termination |
| `runs` | two runs on one thread with up to two records, two operations in each callback, priced and unpriced, work between the runs, outcomes with ties, out of order, and none | what is metered, what is scored, what does a panic leave behind, and do the reports add up? |
| `leakage_per_record` | one smaller run | see below |
| `predictor` | seven records over six instructions, two counters, four buffer entries, a stack of two frames, calls three deep, the built-in cost table | do predictions follow from training despite aliases and overflow, and does every path have a price? |
| `tagged_tables` | three tagged tables, two branches that share every entry, one prediction of lag | pairing of lookups, and what a misprediction may and must take |
| `steady_branch` | two tagged tables, two-bit counters, no lag | is a steady branch learnt from any state? |
| `history_hash` | the code's own lengths and widths, every history with up to two taken directions, one address | does each table see its length of history, and all of it? |
| `fixed_width` | every width up to a word of four bits, counts of three bits | do variants and operators agree with the integers? |
| `sweep` | three sweeps in a row on two threads; predictors that panic in a callback, in warmup or after it, or compute in their constructor; a sweep without sources | whose result stands where, what does a panic leave on a thread, does every call end with what `RunMany` promises? |
| `program` | twenty-six command lines: wrong names, tables and traces, repetitions, directories (empty, with files that do not open, with entries that are no files or cannot be read, with a name that is not UTF-8, that cannot be listed), a pipe, a predictor that may panic; two threads | is it all or nothing, and does each report name its run? |
| `reading` | every file of up to two instructions out of nine, cut after every field, debug and release | does the reader keep its place, and are the records whole? |

The bounds are small where nothing else can happen beyond them. In `timing`
the trace is longer than the first record over capacity needs, and warmup and
depth pass its end, so every order of overflow, drain and end occurs. Two runs
suffice in `runs` because a run sees its predecessors only through the
ledger. Groups nest two deep in `meter` because closing a group touches only
the one around it; there are sibling groups on both levels. The stack of
two frames with a third call open overflows, and returns from it. Three tagged
tables have a provider with candidates on both sides and a victim among one,
two and three. They have one entry each in `tagged_tables`, so that an update
never misses the entry it looked up for another; that it writes no other entry
is left to the theorems, which hold for tables of any size. The longer table of
`steady_branch` has two entries. A word of four bits has widths that are powers of two, that are
not, and that equal the word; a count of three bits is shorter than some
operands, as the 32 bits of a count are shorter than a word of 128. In
`history_hash` any two directions occur together, which is what two of them
need to cancel; for all others there is the proof. Three sweeps of `sweep` let a thread
carry something from an abandoned job past a sweep in which it takes no job, also
a metering switch that warmup left off, which the next constructor finds.
`MaxStored` lets a run start on the storage of an abandoned one. The
names 31, 32, 63 and 64 in `reading` are those around the vector registers,
and an address within three of the top of its word has no fall-through address.

`MaxRuns`, `MaxWork` and `MaxOutside` (Simulator), `MaxDepth`,
`MaxOperations`, `MaxTime`, `MaxLeakage` and `MaxStored` (Meter), `MaxCalls` (LscBtbRas),
`MaxSteady` (PpmLearning), `MaxTaken` (PpmHash), `MaxSweeps` (Sweep),
`MaxLength` (Reader) and `Exponents` (Value) bound what the code does not. `Word`,
`CountWord`, `WordRange` and `CountRange` are the code's word sizes, made small.

The configurations of `Simulator`, `Sweep`, `Arbiter` and `Reader` switch off
the deadlock check, because these end: a thread that has performed `MaxRuns`
runs, a caller that has made `MaxSweeps` sweeps, a program that has exited, a
file that is read. That a run or a sweep in progress is never stuck is what
`RunEnds` and `PromisedSweeps` check; a program that is stuck before its end has no
report and no error, and one that has reported too little is refuted by
`AllOrNothing`.

**Fairness.** `Simulator` assumes weak fairness of `RunStep`, the steps of a
run in progress. One thread executes the run with no lock or channel to wait
for, so some step is always taken; callbacks are assumed to return, which
`MaxWork` expresses. Nothing is assumed of `Start` and of work between runs.
`Sweep` assumes weak fairness of each thread's steps on the job it has, of
some idle thread taking a job while there is one (rayon's idle threads look for
work), and of `run_many` going on once all threads are done. No thread waits for
another, and nothing is assumed of the caller. Which thread takes which job,
and whether a callback panics, is free.

Each property of a passing run has a mutant: an operator beside a modelled
definition, marked `Mutant`, that changes it as a plausible slip in the code
would. Put in the definition's place, it makes TLC refute the property.

## Proofs

Every safety property of a passing run is also a theorem, for all values of the
constants under the assumptions stated in the modules: prices are natural
numbers or unset, traces, files and configurations are well typed, capacities
and numbers of tables are positive, the count of the call stack is wide enough
for its capacity, hash functions map into their tables, the cost table of
`Pricing` prices at least what the built-in one does, and the machine combines
words bit by bit. Bounds of the instances (`MaxRuns`, `MaxTaken`, ...) are any
numbers.

**`Lemmas`** holds what several proofs need. The library's induction theorems
take an operator, which the installed provers cannot instantiate, but a set will
do: `NatSetInduction` (a set of naturals that has 0, and n + 1 with each n, has
all) follows from the well-foundedness of the naturals. From it come the facts
about sums, products, powers, quotients, flattened sequences and tables laid out
row by row. The last part is what each ledger operation preserves.

**`MeterProofs`.** The invariant is the type, `GuardsMatchGroups`, and
`WidestIsRetained`: the greatest entry of the ledger's stack is the widest
delay since the outermost group opened. The last is what makes the refinement
step of `DropGuard` go through, where an inner maximum moves outwards. From it
follow `TypeCorrect`, `GuardsAlwaysMatch` and `TimeIsPromised`
(`Spec => PromisedTime`, the whole refinement of `WorkTime`). `PaidOnce` says
that area and leakage are the sums over the set of hardware metered since the
last reset, each piece priced by the table of its first use; its induction
is over finite sets, one element more at each charge. A run that found a clean
ledger has then paid by its own table, for itself alone; `CleanBetweenRuns` is
what it relies on: unless a run was abandoned or an operation executed between
runs, there is nothing in the ledger when a run starts.

**`SimulatorProofs`.** Order, lag and completeness are not inductive. Three
strengthenings carry them: `Positions` (where each fetched record is: trained,
in `update`, queued, in `predict`, each at the place its number gives it),
`PhaseKnows` (what each phase of `run_one` relies on, above all that the drain
at the boundary has left no warmup record for the metered loop to train), and
`Counting` (what was scored so far). The theorems are `TypeCorrect`,
`TrainedInOrder`, `LagIsBounded`, `MeteredExactly`, `WarmupIsFree`,
`GroupsEndWithCallbacks`, `CountsAreCoherent`, `FinishedIsComplete`, and
`StepsArePromised`, the safety part of the refinement of `Pipeline`.
`ScoresAreOfOutcomes` counts hits: each of a run's three counts is the number of
its scored records with such a hit, whose set grows with each prediction.
`EveryReportAddsUp` carries that to the products and differences of a report.
`EveryRunRunsOut` is what can be proved of termination: `StepsLeft` counts what
a run can still do in its callback, for its queue, for the rest of its trace and
until its last phase, and every step of the run lowers it.

**`LscBtbRasProofs`.** `CountersFollowStreaks` relates a counter to its run of
equal directions (as far from one end as the run is long, or at the other end)
and gives `StreaksDecide`. `ExactBeforeOverflow` says that the stack is the
list of open calls until one was dropped, and gives `ReturnsFollowCalls`.
`FramesAreOpenCalls` is proved with an explicit embedding of the frames in
the open calls, which a push extends and a pop shortens, also after an
overflow. With the type and `TargetsHaveKinds` they are inductive.
`BranchesAreIsolated` is the action property `Isolation`. `EveryPathIsPriced`
goes through what `predict` and `update` execute in any such state.

**`PpmProofs`.** The invariant is the type and `LookupsMatchQueue`: waiting
lookups are those of the queue's records, in order. On it rest
`TypeCorrect`, `UpdatesFindTheirLookups` and three action properties,
`UsefulEntriesAreKept`, `MispredictionsMoveUp` and `ShorterTablesAreLeft`, by the
effect of an update on one table (`TableEffect`). That the code's chain of
comparisons finds a longest match is `LongestExists`, from the well-foundedness
of the naturals. Nothing is assumed of the hash functions but their ranges.
`SteadyBranchesAreLearnt` is about `PpmLearning`. Its invariant `LearningInv`
ties the length of the streak to progress: once the history is the branch's own,
each update in vain has moved it to a longer table or the counter of its
provider one step, so that after as many as there are tables, and as a counter
has steps, it is predicted right. The theorem has the hypothesis `MaxLag = 0`,
as the run has: with more lag, updates work with lookups made before the
branch moved up.

**`WidthProofs`.** *Values.* The invariant `Answers` says that the value is one
of its width and that the last call answered what its operation says. The rest
is arithmetic without states: the width's power of two divides the word's, so
that what is cut to the word first is still right modulo the width
(`MaskedWord`), and a result fits exactly if neither the word nor the mask loses
anything (`FitsIsDefined`). `VariantsHold` is about every width up to any word,
`OperatorsHold` about the shift operators at widths that are powers of two and
about the bits of `&`, `|` and `^`. *Hashes.* `FoldsImplementRegisters` is the
whole refinement of `FoldedHistory`: one direction more turns each fold like a
register (`FoldAges`, group by group). `DirectionsCount` follows from what one
direction toggles in a fold (`FoldToggle`), for every history and address.

**`SweepProofs`.** `SweepInv` follows a job from `todo` to a thread to its
place in the results (`NoJobIsLost`), and says what a thread's ledger may hold
on the way: work of this sweep and of spoilt ones only (`OnlyRecentWork`), of
one job while it has one (`OwnWork`), nothing of this sweep afterwards unless
something panicked (`Clean`). `ResultsAreTheirJobs` is not inductive without
these, since a result is whatever the ledger held when the run returned. It
gives `ResultsBelong` and `IdleIsClean`, for all pools, grids and orders. With
what is known of the cursor of a job's source in warmup and after it, it also
gives `ResultsHaveAllPredictions`. On top, `ArbiterInv` is the invariant of the
program: `main`'s three loops stand where the results are laid out, source by
source and configuration by configuration (`FlattenRows`), which gives
`ReportsAreOfTheirRuns`; and `AllCombinationsOrNone` counts the reports, also
for repeated arguments. What was asked for is a set of pairs, an argument and a
file it stands for; `Expanded` says that these and the opened paths match one to
one, whatever the order of a listing, and follows from where the elements of
flattened sequences come from (`FlattenIndices`).

`SweepsArePromised` is the safety part of the refinement of `RunMany`: every
step of a sweep is a call, an answer or a panic of the promise, or changes
nothing that the caller sees. `SweepInv` is about what a result may contain;
the promise also needs what it must contain, and that panics have causes. These
are `PromiseInv`: what a thread has counted at each stage of its job, as long as
nothing panicked (`Counting`), the metric of each job that is neither waiting
nor on a thread (`NoMetricIsLost`), and predictors that can panic wherever one
has (`Causes`). When all threads are done the jobs' places are those of the
combinations (`PlaceOfJob`), and the list is the promised answer. `RunMany`
leaves open which cost table priced a constructor that computes, and, when a
sweep that panicked left something on the thread, how many predictions more the
result has and whether a constructor was counted, since the code does (see
below). `ThreadsAreNotSeen` says what is
promised when neither is the case: one answer, that of one thread, whatever
the pool. The comment at simulator.rs:232 calls it isolation.

`EverySweepRunsOut` is what can be proved of termination. The work still to do
is a finite set (`Outstanding`: chores of waiting jobs, chores left on threads,
and the return), and each step of the pool leaves a smaller one. It rests on
`OneThreadEach`: no job is in two hands.

**`ReaderProofs`.** `ReaderInv` says that a reader stands within one
instruction of the file, at the field its stage names, with the fields before it
in its variables and the branches before the instruction yielded. It follows
from the layout of an instruction, field by field, whatever its class. It gives
`ReaderKeepsItsPlace` and `RecordsAreOfWholeInstructions`, for files of any
length cut anywhere.

Only model-checked: `RunEnds`, the fairness of `PromisedPipeline` and the last
conjunct of `PromisedSweeps` (a call that waits comes to its end), which are
liveness under fairness and need `ENABLED` (that the steps of a run and of a
sweep run out is proved, that one is always possible is not); and
`SteadyBranchIsLearnt` is proved and checked for `MaxLag = 0` only.

## Where code and documentation part

- **Leakage.** README.md:222 of the repository says that leakage is ticked
  once per cycle, "once per fetched record". `Queue::feed` ticks after the
  prediction and after the update it triggers, `Queue::drain` after each of its
  updates: a scored record is ticked twice. Run `leakage_per_record`. (The
  comment above `feed` describes what the code does.)

Seen while modelling, and contradicting nothing that is written:

- A call pushes the address it jumps to (lsc_btb_ras.rs:90 passes `next`), so
  a return is predicted to go to the entry of the function it returns from.
  `ReturnsFollowCalls` states it as the code does it.
- `run_one` replaces the ledger only at its end (simulator.rs:289). Work on the
  thread between two runs (as in the test at btb.rs:197) and the counts of a run
  that panicked are part of the next run's totals. In a sweep after a panic that
  the caller caught, they are in the result of whichever job the thread takes
  first: `ResultsAreTheirJobs` says what then can be in a result.
- `run_many` builds a job's predictor (simulator.rs:319) before `run_one`
  installs the sweep's cost table (simulator.rs:253). A constructor that
  computes is priced by the table of the thread's last sweep, and panics on a
  thread that has run nothing. After a job that was abandoned in its warmup it
  finds metering switched off (simulator.rs:262) and is not counted. No
  constructor in the repository computes.
- A directory among the traces stands for the regular files in it
  (main.rs:58-63). An entry that fails to be read, a directory, a pipe and a
  link to nothing are passed over without a word, so that a directory of these
  alone ends in a success without reports. What a path argument itself is, if no
  directory, is not asked; it must open. `AllOrNothing` says that nothing else
  goes missing.
- A file whose name is not UTF-8 is opened under its lossy text (main.rs:62),
  which is another path: the program ends before the sweep, unless a file has
  that very name.
- One overlap group holds four whole lookups (lsc_btb_ras.rs:59-64), and
  another four whole trainings. The operations of a lookup depend on each
  other, but a group charges its greatest single delay, less than the chain
  takes. observability.rs:302 leaves it to the caller to assert independence.
- The count of the call stack is a `Value` and no `Array` cell: reading and
  writing it is free, where the frames are charged.
- The last directions of the longest history meet in the fourth table's tag:
  positions 49 to 55 are folded to the same bit by both registers, the second
  after its shift, and cancel. They still reach the table's index.
- `PPM::allocate` computes a remainder, which the built-in cost table leaves
  unset. The predictor is not registered (predictors/mod.rs), so no sweep
  of the program executes it.
- A comment of `Kind` (common.rs:187) counts its discriminants from zero; they
  count from one, and zero is what `Kind::from` rejects.
- `Trace::open` reserves room for as many records as the file's trailer counts
  bytes.
- A PPM update can train and mark useful an entry that another branch took
  over since the prediction; an entry never allocated matches tag zero.
- Shift operators cut their count to 32 bits before they reduce it, so that
  `a >> b` is not `a.wrapping_shr(b)` for widths that are no power of two and
  counts beyond 32 bits.

## What is left out

- Changes of the file system while the program runs: what is at a path, and
  which entries of a directory cannot be read, stays as it is. Only the order of
  a listing differs each time.
- Text: the syntax of the cost table, options and their parsing (clap), the
  layout of reports. What depends on it, that an unreadable table or a wrong
  argument ends the program before anything is simulated, is in `Arbiter`.
- Decompression and rayon are external, modelled by what the code relies on:
  bytes that end somewhere; jobs that each go to one thread, results in the
  order of the jobs, a panic passed on once no thread works.
- Memory: what `Trace::open` reserves, and that traces are shared.
- `Outcome`'s builders: an outcome is made within one callback, and nothing
  else sees it unfinished. What becomes of it is `Final` and `Score`.
- `Value::new` trusts its argument in release builds; its callers pass
  constants, bits and checked values. Comparisons are those of the word; what
  they charge is in `Pricing`.
- `Register` has one use, the history of PPM, and no registered predictor
  charges for it. PPM's charges are left out with it.
- A group opened around a whole run: the documentation forbids runs within
  runs only, but no caller opens a group there.
- Crate roots re-export, and check widths at compile time.

## Plan

Modelled: all that has behaviour. Proved: every safety property the runs check,
the safety part of all four refinements, and for runs and sweeps that their
steps run out. What remains:

1. `SteadyBranchIsLearnt` with lag. An update then works with what a lookup
   found before the branch moved to a longer table, and the streak that is
   needed depends on the lag.
2. Liveness, from the two measures, once a prover handles `ENABLED`.
