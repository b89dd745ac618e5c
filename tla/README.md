# A TLA+ verification of ProofFrame

ProofFrame validates Arrow data against contracts: a Rust engine under `src/src`, a Python surface
under `src/python/proofframe`, and integrations. This directory holds TLA+ models of the engine's
core, TLC configurations that check them on small instances, and TLAPS proofs.

## 1. Inventory

### Components, their state and operations

| Component | State | Operations | Module |
|---|---|---|---|
| Resource accounts (`execution/resource.rs`) | per node: memory and temp counters, their peaks, limits; one lock per root | `try_reserve_memory`, `try_reserve_temp`, dropping a reservation, `child` | `ResourceAccount`, `ResourceBudget` |
| Exact state (`distinct/mod.rs`, `distinct/run.rs`) | the buffered segment, the run files, the charges for both; the cursors of a merge | `insert`, `finish`, `seal`; growth, spill, compaction; `intersect`, `anti_join` | `ExactState`, `KeyMerge` |
| Partitioned execution (`execution/partition.rs`) | the queue of readers, one result slot per partition, a worker each; the fingerprints of a sequence | taking, scanning, publishing, collecting, `merge_reports`; the fingerprinted sequence | `Partitions`; the sequence in `Evidence` |
| Single-pass execution (`execution/mod.rs`, kernels) | `ValidationState`: findings, violation count, evaluated counts, deferred resource error | one step per batch, column and row plan; `build_report` | `Execution`, `RowRules`, against `RuleMeaning` |
| Dataset rules (`execution/dataset_state.rs`, `total.rs`, `ordering.rs`, `exclusive.rs`) | streaming aggregates, last values, exact states of column sets | `update`, `finish` | `DatasetRules`, `Execution` |
| Reference rules (`execution/references.rs`) | bound readers, cached key sets, local keys, outcomes | `prepare`, `update`, `finish` (anti-join), row-count rules | `References`, `KeyMerge` |
| Diff (`diff/`) | in-memory rows or partition files of two datasets, two ledgers, the accumulator, the output sink | partitioning, comparing, publishing | `Diff` |
| Evidence and receipts (`evidence/`, `receipt.rs`) | none; digests and signatures over reports and manifests | building, signing, verifying | `Evidence`, `Receipts` |
| Acceptance and review (`acceptance.py`, `review.py`, `review.rs`) | the output path, a lock file beside it, a temporary | `accept_file`, `verify_acceptance`, `review` | `Acceptance`, `Receipts`, `Publication`; the rendering of a review is not modelled |
| Profiles and fingerprints (`lib.rs`, `encoding/`) | per-column statistics with an exact state, hash states | `update`, `finish` | not modelled |
| Leakage, PII (`leakage.rs`, `pii.rs`) | two exact states; none | intersect; pattern matching | the intersection in `KeyMerge` |
| Contract compiler (`contract/`) | none | parsing, `validate_semantics`, `compile` | which rules and types are accepted in `RowRules`, `DatasetRules`, `Execution` |
| Bindings (`python.rs`) | none | `check_with_evidence`, `assemble_evidence_unchecked`, partitions | the three in `Receipts` |
| Suggestions, command line, integrations | none | pure translation and input/output | not modelled |

### How they interact

An operation owns one root account. Partition workers and exact states get child accounts, and a
reservation charges every counter from the root down, so that memory one column or partition holds
is missing to the others. Exact states carry uniqueness, composite keys, distinct counts,
references and leakage; they spill to a temporary directory through the temp counters of the same
accounts. The validation state reserves memory for each finding it keeps. Partition workers share
the queue, the slots, the root account and the cancellation token; plans with global rules do not
use workers but one traversal of all partitions in order.

A contract is compiled against the schema before a row is read, so that kernels and dataset rules
meet only types they are made for. The report and the fingerprint of one scan become evidence, a
key signs it, and `accept_file` adds the policy and the decision. Its bundle and the directory of a
review are published beside other processes that may want the same path; only the file system
connects them.

### What is hard here

- *Concurrency*: reservations are dropped without the lock that charging takes; workers finish in
  any order; cancellation arrives at any time.
- *Failure in the middle*: a deep counter refuses after its ancestors were charged; a spill or a
  compaction fails after it has taken its input; a reader fails in the third partition while the
  first is still running.
- *Limits*: counters near the top of a word, growth by doubling at the edge of the budget, the
  fan-in of a merge, the finding limit.
- *Persisted state*: run files may be cut or altered between their write and their merge; a
  publisher may be killed with its lock and its temporary in place.
- *Streams*: a rule sees its column in batches, and its verdict must not depend on where they are
  cut, on nulls in between, or on findings that are no longer kept.
- *Claims*: what is signed must be about one scan, and what verifies must be what was signed.

`PROJECT.json` lists the main hazards at their lines with the properties that would catch it.

## 2. Modules

### ResourceAccount, ResourceBudget

`ResourceAccount` follows `Reservation::try_new`, `try_charge` and `drop` at the granularity of one
atomic operation per step. A *holder* is one place that reserves, keeps and drops; `pc` is its
position. `Begin` is the call, `Lock` enters the root's mutex, `Load` and `CasFailed` are the
top of the charge loop (with `Fits` as the checked addition and the comparison), `Charge` the
successful compare-and-exchange, `RollBack` one subtraction of the rollback loop, `Refused` the
early return, `RaisePeak` one `fetch_max`, `Reserved` the normal return and `Drop` one subtraction
of `drop`, which takes no lock. Subtraction wraps around at `MaxWord` as the atomics do. The
hierarchy (`Path`), the limits and the requests are constants; a holder asks for the same
reservation each time, because all requests are explored from the initial states.

`ResourceBudget` is the promise: a reservation is granted on all counters of its path at once or
not at all. `ImplementsBudget` maps the first to the second: a reservation is granted from its last
charge to the first counter given back.

### ExactState

The state of one `ExactState`: `segment` (records, charged capacity, charged arena), `runs` (each
with what was written, kept as its checksum, and what the file holds now), the counters of
compactions, and the environment: memory `pressure` of the other states, the `disk`, damage to
run files, cancellation. `Insert` and `Finish` are the two operations; each is the composition of
the code's steps (`MakeRoom`, `Spill`, `Compact`, `Grow`, `Push`, `Seal`, `Result`) on a local copy
of the state that carries the error which `?` returns, in the order of the code. An error ends the
state: all callers drop it. One unit stands for a record; the byte store adds the length of a
value. Both stores and both spill policies are initial states (`Modes`). A cancellation during an
operation returns the same error as one just before it, so cancellation happens between operations.
Sums, the merge and the count are folds: of `AddUnits` over the runs, of `Pop` (one pop of the heap)
over the records to merge, of `CountRecord` over the merged ones, and a desired size is halved by a
fold of `Halve`. A sort is what it yields, the records `InOrder`: rows are different, so there is one
such sequence.

### Partitions

Workers take partitions from `queue`, scan batch by batch (`ReadBatch`, `RecordFinding`,
`RefuseFinding`, `EndBatch`), publish into `slots` (`FinishPartition`, `FailPartition`) and end;
`Collect` is the code after the thread scope. A batch is abstracted to its number of rows, the
values it offers and the rows the kernels report, in kernel order. Reservations are atomic here,
which `ResourceAccount` justifies. `Traversal(Sequence)` is the reference: what the same scan makes
of all batches in order, the path the code takes for plans with global rules.

### KeyMerge

The walks that compare two sealed exact states, `intersect` (leakage) and `anti_join` (references).
Each side has sorted runs and one cursor per run (`at`); the heap of `UniqueMerge` is the set of
records under the live cursors, so it is no state of its own, and a run that a side lacks is an
empty one. `next_unique_with_row` is `Pop` (the smallest record), `Drain` (each further copy of its
value) and `Yield`, or `PopNone` on an empty heap. `Less`, `Greater` and `Equal` are the arms of the
two loops, `CountRest` the reading of what is left of a side, `Finish` the normal return and `Stop`
the cancellation, at the places where the code looks at the token. `Fails` stands for what may go
wrong when runs are opened and read and memory is reserved, which `ExactState` and
`ResourceAccount` have in detail.

### References

One execution with rules about other datasets. `pc` is the phase: the bindings are put into a map
(`bind`), row-count rules take and count theirs (`count`, `drain`), each reference rule takes its
dataset and scans it or finds the scan in the cache (`prepare`, `scan`), the subject is read
(`subject`), local keys are anti-joined with the reference keys (`finish`) and row counts are
compared (`compare`). A reader can be taken once; a batch may fail to be read or come with another
schema; any use of an exact state may fail. A key is its positions, tags and values. Columns have
types and several types may share the tag that is written with a value, as in `append_scalar`. A
fingerprint stands for what was read; ratios are in per cent. What the execution should count is
defined without its phases: `Rejections` (rows with a null in a key that rejects them), `Absences`
(local keys that are not among the reference's) and `BrokenDeltas`. The order of encoded keys is left
open, so which absent keys are sampled is nondeterministic. Findings of other rules are left out:
they only take from the same limits, which `Partitions` covers.

### Diff

One keyed diff. `InMemory` is the choice between the two ways. Both read a side batch by batch
(`StartSide`, `ReadBatch`, `EndSide`); `HoldRow` collects a row in memory, `WriteRow` puts it into
the partition file of its key, with the scratch buffer of the writer (`Grown`). `Match` compares the
signatures and opens the output. `OpenBefore`, `HoldRow`, `OpenAfter`, `Walk`, `WalkEnd`, `Rest` and
`RestEnd` are `process_partition`; the last four also stand for the two loops of the in-memory way.
A step works on a copy of the ledgers and the accumulator that carries the error, as in
`ExactState`; `Note` counts, emits and samples a change in the order of the code. A file keeps its
header fields apart from the payload, so that each can be damaged between writing and opening
(`Damage`; `validate_file` is `Intact`, the record count is checked by `Complete`). `Flush`,
`Persist` and `Return` end the diff; `Crash` kills the process at any point. Keys have display
strings that are neither unique nor in the order of the keys, and where `binary_search` puts a
sample among equal strings is left open (`Place`). Sizes are in small units. `Changes` says what
changed between the two datasets as sets of rows, without partitions, order or steps; the
properties compare counts, samples and the published file with it.

### RowRules, DatasetRules, RuleMeaning, Execution

`Execution` is one execution of a contract over a stream of batches. Its phases are those of the
code: `Parse` (`from_json` with its semantics), `Compile`, `Open` (the check of the reader's schema
and the first states), per batch `ReadBatch`, `ScanColumns`, `ScanRows` and one `UpdateFamily` for
each kind of dataset rule, and at the end `FinishUnique` and one `CloseFamily` per kind, in the
orders of `DatasetState::update` and `finish`. `Cancel` is the owner of the token. `Record` is
`ValidationState::record` with its limit, its reservation and the deferred refusal.

`RowRules` has the column kernels and the row kernels, each with what the compiler accepts for a
type (`CompileColumns`, `CompileRow`). `DatasetRules` has a first state, a `Take` per row and a
`Close` for each kind of rule, with Neumaier and Welford accumulators, the budgeted map of
frequencies, the last value of an order and the streak of gaps. `RuleMeaning` says what the same
rules mean for a whole table, without batches and states, as `docs/contracts.md`, the change log and
the comments of `contract/v2.rs` describe them; `ReportIsExact` and `FindingsAreReal` compare the
two. Where the code is known to depart from the documents, the meaning stays that of the documents:
`Disputed` are the verdicts of a table on which the two readings differ (a null that decides about
a distinct count, a step down, a total that is not a number, integers that are no floats). A report
with a disputed verdict is not held to the exact number of violations, and a finding of such a rule
is not judged; all else of the report is. `ValidMeansHeld` states what the documents say of these
rules, and the code violates it.

A type stands for all its widths and units, and a value is an integer in units of its column, with
three values outside that range (`Null`, `Infinity`, `NaN`). The sign of zero and payloads of NaN
are left out. Arithmetic is exact up to the bounds of a type, where integers fail and floats become
infinite. An integer that becomes a float is rounded (`AsFloat`, with `FloatExact` for 2^53); the
rounding of additions and divisions of floats is abstracted. Ratios are whole per cents. Exact states have room, which they may
lack in `ExactState`; reference rules run beside these in `References`.

### Publication

Processes that call `accept_file` or `review` with one output. A process takes the steps of
`_write_new` or `review`: `Look`, the scan (`AcceptScan` before the lock, `ReviewScan` under it),
`Lock`, `LookAgain`, `Stage`, one `Write` per part, `LastLook`, `Rename`, and the `finally` block
(`Discard`, `Unlock`), which can fail itself (`CleanupFails`). An exception before the lock is
`Raise`, one under it `Unwind`. `Crash` kills a process between any two steps. `RemoveLock` is the
operator, who removes an abandoned lock when no publisher is running, as `docs/review.md` demands.
`rename` is that of POSIX: a file silently replaces a file, a directory that is not empty is not
replaced, and neither kind replaces the other. The two functions use locks of different names,
so they exclude only their own kind. A part has a size but no bytes.

### Evidence, Acceptance, Receipts

`Evidence` has the report of a check as far as claims depend on it, the digests, `evidence_for_check`
with `EvidenceV2::validate`, and the partition manifest with its validation. `Acceptance` has the
decision, the bundle and `verify_acceptance`. `Receipts` is the life of a claim: `Rewrite` changes
the files, `Check`, `CheckPartitions` and `Assemble` are the three ways of the Python binding to a
report with evidence or a manifest, `Sign` makes a receipt of either version or of a manifest,
`Accept` a bundle, `Fetch` hands one artefact to a reader, `Alter` changes a field of it or takes it
from another artefact, and `Reseal` computes its digests again or signs it with another key.
`Verdict` is what the reader is told under each trust policy. `Null`, `Absent` and `Odd` stand for
no value that a producer writes; `MarkersAssumption` says so, and TLC evaluates it.

A digest is its tag and the value it was taken of, a signature the key and the message: none is
forged or met by accident. Canonical JSON, base64 and key encodings are left out, and numbers are
within the range that JSON keeps. Top-level fields beyond those of a receipt of version 1 are not
among the alterations. `WellFormed`, the look at the form of a bundle before its digests are compared,
is modelled but carries no property's weight: it refuses bundles that lost a part and had their hash
computed again without a signature, and the properties are about those that verify under a key.
The artefacts of one behaviour are of one kind, because only
those share fields. The report here is the one of a single `not_null`-like rule per column;
`Execution` has the others.

## 3. Runs

| Run | Configuration | What it shows |
|---|---|---|
| `account` | 3 holders, 2 attempts each, paths of 1, 2 and 3 counters, limits 3/2/1, word 0..3 | counters are exact sums (`Conservation`); peaks cover usage; refusals are honest; the abstract budget is implemented; every attempt ends |
| `exact_state` | 3 values, 5 rows, fan-in 2, both stores, both policies | summaries are exact or absent; budgets and fan-in hold; a state without a directory can always finish; "corrupt" is only said of damaged runs and of columns with a value no cursor accepts |
| `partitions` | 5 datasets of 2 or 3 partitions, 1 to 3 workers, finding limit 2, memory for 3 findings | the parallel report is the sequential one; errors are those of the first failing partition; every partition is scanned once; the merged peak was reached by a partition; the caller is answered |
| `key_merge` | 3 values, 2 runs a side, up to 3 left and 2 right rows, 1 sample | counts are those of the two key sets, samples are the smallest keys with their first rows, the walk ends |
| `references` | up to 2 of six reference rules, row-count rules, finding limit 2 | outcomes, violation counts and findings are exact; bindings are exactly what the rules name |
| `references_unbound` | two rules with different key columns of one dataset | expected violation, see below |
| `references_types` | two rules that share one scan, decimals of two scales | expected violation, see below |
| `diff` | 4 keys in 2 partitions, 26 pairs of datasets, both ways, five kinds of output and sampling, five budgets, one damaged file | reports are exact, the output is whole or untouched, errors are those of their cause, storage and memory are reserved before they are used |
| `rules` | contracts with every kind of column, row and dataset rule, tables of up to 5 rows of all types, each cut into batches in up to three ways, finding limits 2 and 5, memory for 2 findings | the report counts exactly the violations of the whole table, as the documents define them, and lists real ones, but for disputed verdicts; evaluated counts are exact; errors are those of their cause; a compiled plan never reaches a kernel it is not typed for |
| `rules_documents` | one table: an infinite value, integers 65 and 64 with `FloatExact` = 64, a column 65, 0 with a step of 1, a column of nulls | expected violation, see below |
| `publication` | 2 acceptances and 1 review, parts of 1 or 6 units, limit 4 | what is published is whole and never replaced; results are true; nothing is left by a call that ends by itself; locks are given back |
| `receipts` | 3 datasets, 3 contracts, 3 policies, no sample or one, 2 artefacts, 1 alteration | every report passes the validation of its evidence; untouched artefacts verify for exactly those who trust the key; valid means issued, about one scan, with all partitions in order, and accepted means that the policy was met |

The type invariant of `ExactState`, `Partitions`, `References`, `Diff`, `Execution` and `Receipts` is
the first conjunct of the invariant about limits or structure that the run checks (`WithinBudgets`,
`OneScanEach`, `BindingsMatch`, `UseIsReserved`, `PlanIsTyped`, `EvidenceIsAccepted`); those of
`ResourceAccount`, `KeyMerge` and `Publication` are proved (section 4), as are `WithinLimit` and
`RefusalLeavesPeaks`, which no run repeats.

*Bounds.* Three holders are enough for one to charge, one to drop and one to wait for the lock; the
root's limit is the largest word, so that a sum can overflow, and a request of two bytes is refused
by the third counter after two were charged. Five rows with fan-in 2 give segments of one record,
three runs, a compaction and a further spill, and duplicates across runs and within one; memory
and temp limits are chosen so that allocation falls back to smaller segments, growth is refused,
and compaction fits sometimes. Three units of memory let one partition keep all its findings and
make two compete; three findings in one partition exceed the limit inside it, one and two in
different partitions exceed it in the merge. Three left and two right rows over two runs put copies
of a key into one run, into both runs and on both sides, let either side end first, and find more
keys than one sample holds; the proofs cover all other sizes. The jobs of `references` bind each
dataset once, twice, not at all or beside a surplus one, with unreadable batches and batches of
another schema, nulls under both policies, single and composite keys, and more violations than
findings are kept for. The datasets of `diff` differ by added, removed and changed keys in both
partitions, with equal display strings among the samples, a key twice, unreadable batches and other
schemas; the budgets are ample or run out while writing, holding, sampling and emitting; the output
limit is reached inside some diffs and not in others. 
The tables of `rules` have values below, at and above every bound, nulls first, last and adjacent,
repeated values, values that only rise (steps about which nobody disagrees), an empty table,
infinities, NaN and totals beyond their range; a table is given as
one batch, row by row, and in two halves with an empty batch between them. Two acceptances meet
each other and a review on one path; four parts of one unit fill the limit exactly and a part of
six exceeds it. The datasets of `receipts` have an empty partition, an empty batch and as many rows
as their rewritten form; two artefacts are enough to mix the fields of one with those of another.
`MaxAttempts`, `MaxRows`, `MaxPressure`, `MaxThreads`, `MaxIssued` and `MaxEdits` only bound
exploration.

*Deadlock* is not checked: a holder without attempts, a finished state and an answered caller stop,
as do a finished walk, execution or diff, publishers that have all ended and a reader who has used
all alterations.

*Fairness.* `account` assumes that a thread inside a reservation or a drop keeps running and
that the mutex is given to a waiter; with finitely many attempts weak fairness of each holder's
steps suffices, and starting a new attempt is not assumed. `partitions` assumes that spawned
threads are scheduled and that the scope returns after they have ended. Cancellation and reader
errors are never assumed to happen. `key_merge` assumes that the thread that walks keeps running;
`Fails` and `Cancel` are not part of the fair steps. `publication` assumes that a call that has
started takes its next step: none of its steps waits for another process, a taken lock is an error.
`Crash` and the operator's `RemoveLock` are not fair, and starting a call is not assumed.

### Where documentation and code differ

- `rules_documents`: a valid report means that the rules hold as the documents define them. The
  table of this run keeps none of four rules, and its report is valid, so that each of the four parts
  of `ValidMeansHeld` is false in the state that TLC shows:
  - "a numeric total must stay inside declared bounds" (`TotalsInside`). An infinite value makes the
    compensation of Neumaier's sum NaN, the total is NaN, and NaN is neither below a minimum nor
    above a maximum. For the same reason a mean or a deviation that has become NaN passes, and a
    balance with such a total.
  - "Exact distinct non-null count" (`DistinctInside`). The code adds one if it has seen a null, so
    that a column of nulls has one distinct value. `distinct_ratio` divides the same number.
  - The totals of `balance_equal` "are still counted the way `sum` counts them" (`BalancesEqual`),
    that is, integers in 128 bits. The code adds them as floats, and beyond 2^53 different totals are
    equal.
  - "consecutive values to stay within one step of each other" (`StepsWithinReach`). The code takes the
    difference with its sign, so that no step down is too long.
- `references_unbound`: a second rule with other key columns of the same dataset is announced to get
  "a fresh scan", but the reader is gone after the first scan and the execution fails as if the
  dataset had not been bound.
- `references_types`: the types of key columns are compared only when a dataset is scanned. A rule
  that finds the scan in the cache is not checked, and decimals of different scale, which have the
  same tag, are taken for equal keys.

More observations have no run:

- Without a directory a full segment asks for as much memory again (`Grow`), so that a scan can be
  refused with nearly half of its budget unused. The diff's ledgers reserve whole chunks without
  regard to each other (`LedgerCharge`), so that two small datasets can be refused in a budget of
  one and a half chunks.
- Byte values up to 4 GiB are accepted and written, but the reader of a run calls every value above
  64 MiB corrupt (`distinct/run.rs:821`).
- The peak of a merged report is the largest peak of one partition (`execution/partition.rs:270`),
  while its field is described as the peak of the operation (`lib.rs:252`). `PeakWasReached` says
  what holds: it was reached, and the peak of the operation is no smaller.
- The diff reserves the room for a long record behind the previous one instead of in the cleared
  buffer (`diff/partition.rs:75`), so that the buffer grows later and by more than was reserved.
- `min_length` and `max_length` compile for a column that is not text and are then never evaluated.
  Some column types are accepted by the compiler and refused at their first value (`Unsupported`).
- `EvidenceV2::validate` compares the fields of a result with each other and does not compute the
  result's digest again; `assemble_evidence_unchecked` binds the number of rows and the plan, not the
  data (`OneScan` makes the difference). Receipts of version 1 check that integers survive JSON,
  those of version 2 do not.

## 4. Proofs

`ResourceAccountProofs` proves for every set of holders, every hierarchy, all limits and requests
and every word size:

- `TypeCorrect`: `Spec => []TypeOK`;
- `BudgetHolds`: `Spec => [](Conservation /\ WithinLimit)`;
- `PeaksCover`: `Spec => []PeakCoversUsage`;
- `HonestRefusals`, `RefusalsLeavePeaks`: the two action properties;
- `Refinement`: `Spec => ImplementsBudget`.

*Assumptions*: there are finitely many holders; a path is a non-empty sequence of distinct nodes;
limits and requests are words. They are the `ASSUME`s of `ResourceAccount`.

*Argument.* `Core` is the inductive invariant without sums: types; the lock belongs to exactly the
holder inside a transaction (`LockInv`); how far each holder is along its path and how long its list
of committed usages is (`ProgressInv`); what a compare-and-exchange is about to write fits
(`CasInv`). `Conservation` is stated with the set of bytes a holder accounts for, so that sums are
cardinalities: charging adds a disjoint share, giving back removes one (`TakeUp`, `GiveBack`); it
also shows that a subtraction never wraps around. `WithinLimit` follows from `CasInv` because the
exchange succeeds only on the value that was compared. `PeakCoversUsage` is not inductive, since
peaks are raised after the charges: `PeakInv` says that a counter above its peak was charged by the
one transaction in flight, which either gives the bytes back or still has to raise that peak to a
remembered usage that covers the counter. Honest refusals follow since, under the lock, everything
on a counter the transaction has not charged is granted. For the refinement the last charge is
the grant: every counter of the path had room when it was charged, and drops only made more.

`KeyMergeProofs` proves for any finite number of runs, any sorted runs, any integer values and any
number of samples:

- `TypeCorrect`: `Spec => []TypeOK`;
- `MergeIsExact`: `Spec => []AnswerIsExact`;
- `SamplesAreSmallest`: `Spec => []SamplesAreFirst`.

*Assumptions*: runs are sorted by value and row, which is proved of what `seal` leaves
(`SealedRunsHold` below), and there are finitely many (`MergeAssumption`, `RunAssumption`).

*Argument.* The answer at the end follows from where the walk stands in the middle, so the inductive
invariant `Inv` describes that. For each side the records behind the cursors are exactly those up
to the value the side holds (`MergeInv`): this needs that looking at the top of the heap is enough
to see that no copy of a value is left, which holds because the heap has a least record (a
well-founded order on finitely many live runs) and runs are sorted. Hence the number of yielded
values is the number of keys behind the cursors (`Counted`). Between the sides, a key that both have
has been passed by both or by neither (`Separation`), so that a key passed on the left is decided
for good; `found` is the number of passed keys that belong to the answer (`Hits`), and the samples
are the smallest of them. At the end all keys of the left side are passed and `Hits` is the answer.

`PartitionsProofs` proves for any number of workers, any partitioning of any batches, any finding
limit and any budget:

- `OneScanEachHolds`: `Spec => []OneScanEach`, which includes type correctness;
- `ReportIsSequentialHolds`: `Spec => []ReportIsSequential`;
- `UnreadableNeverPassesHolds`: `Spec => []UnreadableNeverPasses`;
- `MemoryAccountedHolds`: `Spec => []MemoryAccounted`;
- `PeakWasReachedHolds`: `Spec => []PeakWasReached`.

*Assumptions* (`LimitsAssumption`): there is a worker, limits are natural numbers, and an input is a
non-empty sequence of partitions, which are sequences of batches.

*Argument.* `ReportIsSequential` speaks of the end only. Its inductive invariant `Inv` says what each
worker has in hand: the report so far is the traversal of the batches read, and inside a batch of
the first `hit` violations of it (`ProgressInv`); a slot holds the traversal of its partition or an
error that its batches account for (`SlotInv`). `OwnerInv` keeps these apart: a partition that was
taken is with exactly one worker or in its slot, and nobody writes a slot that is full. `QueueInv`
says that the queue is always a tail of the partitions and that workers end only when it is empty,
so no slot is empty at the merge. The merged report is then a fold over partitions of folds over
batches of folds over violations. Adding a report commutes with each step, because a list that is
cut at the limit after each addition is the list cut once at the end; `FoldConcat` of
`SequenceFolds` turns the nested folds into one. Peaks do not add up, and `PeakWasReached` says what
is left of them. `MemoryInv` bounds what all workers hold by the peak and the peak by the budget:
the sum over workers changes by what the one that moves reserves.

`ReferencesProofs` proves for any contract, any bound datasets, any subject and any finding limit:

- `InvHolds`: the inductive invariant;
- `BindingsMatchHolds`: `Spec => []BindingsMatch`, which includes type correctness;
- `FindingsAreRealHolds`: `Spec => []FindingsAreReal`;
- `ReportIsExactHolds`: `Spec => []ReportIsExact`.

*Assumptions* (`JobsAssumption`): plans, deltas, bindings and datasets are sequences of the fields
that the compiler makes, a rule has at least one column and as many on one side as on the other,
nulls are skipped or rejected, and the bounds of ratios are integers.

*Argument.* A reader delivers batches, so what has been read of a dataset is a prefix of its rows.
`ReadInv` says that a count, a scan in progress and a sealed scan are those of that prefix, or of all
rows; `LocalInv` that the local keys of each rule are those of the rows of the subject read so far.
`NamesInv` follows where each bound name is: still bound, being read, or read for a rule that names
it. Since a reader can be taken once and nothing may be left over when the subject is opened, names
bound and names used are then equal. `CountInv` counts each violation when it happens: a rejected
row when it is read, an absent key when its rule is finished, a ratio when it is compared; the
three sets are disjoint by construction of the phases and their prefixes grow by what the step
adds. `ReportInv` says that a finding is real and that the list is as long as
limit and violations allow. The two documented claims
that `references_unbound` and `references_types` refute are not part of these theorems: `ReportIsExact`
compares encoded keys, as the code does.

`EvidenceProofs` proves, of `Receipts`, for any datasets, contracts and policies, any number of samples,
any keys, and any number of artefacts and alterations:

- `EvidenceIsAcceptedHolds`: `Spec => []EvidenceIsAccepted`, which includes type correctness;
- `IssuedVerifiesHolds`: `Spec => []IssuedVerifies`;
- `ValidMeansIssuedHolds`: `Spec => []ValidMeansIssued`;
- `OneScanHolds`: `Spec => []OneScan`;
- `AcceptedMeansPolicyMetHolds`: `Spec => []AcceptedMeansPolicyMet`.

*Assumptions* (`ReceiptsAssumption`, `MarkersAssumption`): the two keys differ, limits are natural
numbers, datasets are sequences of partitions of batches of rows with a cell for each column, and
the markers `Null`, `Absent` and `Odd` differ from everything that is written. That digests do not
collide and signatures are not forged is part of the model, not an assumption on constants: they
are the values they are made of.

*Argument.* `Inv` has three parts. `WorkInv`: the report, the evidence and the manifest of the last check
belong to one dataset and one plan, although the files may have been rewritten since; only
`assemble_evidence_unchecked` may take the fingerprint from elsewhere, and then the way is
remembered. `IssuedInv`: every artefact signed with our key was made of such work or of one
acceptance, and all are of one kind. `CopyInv`: however a copy was altered, its signature is one
that was issued or one of the other key. A copy that verifies under our key therefore carries the
signature of an issued artefact, the signature holds the whole message, and checking the digests
leaves no field outside the message: the copy equals the artefact (`ValidMeansIssued`). `OneScan`
and `AcceptedMeansPolicyMet` then speak of artefacts that were issued, where they follow from how a report
is computed. Two facts about data are needed there: rows of the partitions, put one behind the
other, are the rows of the dataset (`FlattenTwice`), and a report's violations are its bad cells,
counted cell by cell.

`EvidenceProofs` also proves, of `Publication`, for any number of acceptances and reviews, all sizes and
every limit:

- `TypeCorrect`: `PublicationSpec => []PublicationTypeOK`;
- `MutualExclusion`: `PublicationSpec => []OneWriter`;
- `WholeResults`: `PublicationSpec => []PublishedIsWhole`;
- `TrueResults`: `PublicationSpec => []ResultIsTrue`;
- `CleanEnds`: `PublicationSpec => []NothingLeftBehind`;
- `NoReplacement`: `PublicationSpec => NeverReplaced`.

*Assumptions*: no process is both an acceptance and a review, sizes and the limit are positive
(`PublicationAssumption`).

*Argument.* `NeverReplaced` is not inductive, because a file is renamed over whatever file is there:
`RenameFree` says that an acceptance on its way to the rename has a path that is no file. It is kept
because another acceptance would need the lock (`OneWriter`), and a review only publishes
directories. `OneWriter` in turn needs `LockHeld`: a lock names a process that is inside, or one that
was stopped there, so that a refused call cannot give away what it does not hold and the operator
removes only abandoned locks. `ResultSet` says which results go with which steps, `StagingClean` when
a temporary is empty, `Filling` that it holds a prefix of the parts within the limit while it is
written and all of them afterwards, and `Published` that what was renamed is that.

`ExactStateProofs` proves for all values and their lengths, every fan-in above one, all limits and sizes,
every spill policy and every order of inserts, disk failures, damage and cancellation:

- `InvHolds`: `Spec => []Inv`;
- `SummaryIsExactHolds`: `Spec => []SummaryIsExact`;
- `WithinBudgetsHolds`: `Spec => []WithinBudgets`, which includes type correctness;
- `InMemoryFinishesHolds` and `CorruptMeansDamagedHolds`: the two action properties;
- `SealedRunsHold`: after `Seal`, every row of the column is in exactly one run, and each run is in the
  order that `KeyMerge` assumes.

*Assumptions* (`BoundsAssumption`): values are integers and have lengths, sizes and limits are natural
numbers, the fan-in is above one, the samples fit into the memory budget, and a desired capacity is not
zero. Nothing is assumed of `MaxRecord`: `CorruptMeansDamaged` names the long values themselves.

*Argument.* `Inv` says of an open state that it is `Held`. Each row of the column is one record, and
every record is in the segment or in exactly one run (`Divided`). Each run was written in order, and
its units are those of what was written (`Ordered`). The segment is inside its charge, and the
charges are inside the budgets. Damage changes what a file holds and not what was written, so the
invariant survives it, and what it destroyed is seen by `Verified`. `SummaryIsExact` is not
inductive: it says nothing of an open state. The steps of an operation are then taken one by one
(`SpillKeeps`, `CompactKeeps`, `GrowKeeps`, `PushKeeps`, `SealKeeps`): compaction needs one more run
than `FanIn` in between, so `Held` has the number of runs as a parameter. Three facts about data
carry the rest. `InOrderSorts` and `SortedIsInOrder`: a finite set of records has exactly one sorted
sequence, in which a record stands where as many are before it in the set. `MergeSorts`: the heap,
popped once for each record of sorted and disjoint runs, gives the sorted sequence of all of them
(after k pops, what was popped is sorted and before all that is left). `CountsColumn`: after k
sorted records the count is that of the values seen, the last first row is the first row of the
current value in the column, and the samples are the first of the repeating records in order.
A refusal to read a sound run comes from a value of the column that is longer than a cursor accepts
(`RefusedIsTooLong`).

`DiffProofs` proves for all datasets and options, any keys with any display strings, any number of
partitions and any division of the keys between them, all limits and all sizes of chunks, buffers and
headers:

- `Invariance`: `Spec => []Inv`, the inductive invariant;
- `ReportExact`: `Spec => []ReportIsExact`;
- `OutputAtomic`: `Spec => []OutputIsAtomic`;
- `ErrorsTrue`: `Spec => []ErrorsAreTrue`;
- `UseReserved`: `Spec => []UseIsReserved`, which includes type correctness.

*Assumptions* (`DiffAssumption`): a chunk has at least one byte and there is at least one partition,
sizes and limits are natural numbers, each key has a display string and a partition, and datasets are
sequences of batches of rows.

*Argument.* `ReportIsExact` speaks of the end and is far from inductive. `Inv` has a part for each phase
(`Phases`). While the datasets are read it says where their rows are: those read so far are in
memory in order, or divided between the writers of their partitions (`Splits`), and equal keys are in
one partition, so that keys are unique if they are in each. A file that was damaged since is still a
`FileOf` its rows: if it passes `Intact`, its payload is what was written. From then on `Inv` says what was
noted. `NotedSoFar` is the set of changes among the rows compared so far, those of the partitions done
(`Past`) and those of the present one that the walk has passed; `Tallied` says that the counts are
its cardinalities, that the samples are those of it and that each change has one event. A step
adds one change that was not yet noted, or none (`WalkKeeps`, `RestKeeps`), and at the end the changes of
all partitions are the changes of the datasets. The samples of some changes (`Shows`) stay so when one
is inserted and the last one dropped, or when one is not retained, because what is dropped or left out
comes after all that stay (`ShowsWith`, `ShowsWithout`); with equal display strings there is no telling
which of the changes a sample shows, and the statement is about some injective choice. For the errors, `Inv`
follows how much of the temporary ledger is used, which never exceeds what the whole diff needs; a
chunk that does not fit is replaced by what remains, so that a refusal means that the limit is too
small. `Sound` keeps the ledgers and the account in agreement, `Held` and `Stored` say that they cover
memory and disk. `Outcome` follows the output: it is the old file until `Persist`, and then has the
events of all changes.

`SequenceFolds` is no result about the code: it has the lemmas about left folds and flattened sequences that these proofs share
(`FoldConcat`, `FoldsAgree`, `FlattenTwice`), for an operator that is a constant of the module. The
community modules define folds by a recursive function over a `CHOOSE`. It is shown to exist and to
follow its equation for each length in turn (`WalkExists`, `FoldIsWalk`), with `NatSetInduction` on a set
of lengths in the place of an induction rule with an operator parameter.

Model-checked only: the liveness properties (`account`, `partitions`, `key_merge`, `publication`),
which are out of the prover's reach; and the four properties of the run `rules`
(`ReportIsExact`, `FindingsAreReal`, `ErrorsAreTrue`, `PlanIsTyped`), whose accumulators are folds of
several kinds over a stream, one for each rule. TLC evaluates the community operators by their
definitions, so runs and proofs speak of the same folds.

## 5. Plan

1. Proofs: `PlanIsTyped` and `ErrorsAreTrue` of `Execution`, then the findings and, rule by rule, the
   counts.
2. The profile's statistics with their exact state.

## 6. Not modelled

Parsing and diagnostics of contracts, version 1 documents, suggestions, PII patterns, profiles,
argument conversion of the bindings, command line, integrations and the rendering of a review
have no state beyond one call. Byte formats (canonical encodings, the bytes of a plan digest,
canonical JSON, keys) are abstracted to what they hold. Changes to a run file inside one merge are
outside the model: `merge` verifies a payload and then reads it again, and so do the readers of a
diff's partitions. Panics of worker threads, which the thread scope passes on, are left out, as is a
power loss, for which publication promises nothing.
