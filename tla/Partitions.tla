------------------------------ MODULE Partitions ------------------------------
(***************************************************************************)
(* The parallel validation of independent partitions                       *)
(* (execution/partition.rs) with the scan each worker runs                 *)
(* (execution/mod.rs) and the findings it records (lib.rs).                *)
(*                                                                         *)
(* Workers take partitions from a shared queue, scan them against child    *)
(* accounts of one root, and put each result into the slot of its          *)
(* partition.  When all workers have ended the slots are merged in order   *)
(* into one report.                                                        *)
(*                                                                         *)
(* A batch is its number of rows, the values it offers to the rules, the   *)
(* rows it violates a rule in, in the order of the kernels, and whether    *)
(* the reader fails instead of delivering it.  A recorded finding takes    *)
(* one unit of memory.  Charging an account is atomic here, which          *)
(* ResourceAccount shows the budget to be; a child's own limit is the      *)
(* root's, so that only the root ever refuses.                             *)
(***************************************************************************)
EXTENDS Integers, Sequences, SequencesExt, FiniteSetsExt

CONSTANTS
    Inputs,         \* the datasets to explore: sequences of partitions
    MaxThreads,     \* bound: the largest `threads` asked for
    FindingLimit,   \* the smaller of max_findings and max_samples
    MemoryCap       \* max_memory_bytes, in findings

Batch == [rows : Nat, values : Nat, hits : Seq(Nat), fails : BOOLEAN]

ASSUME LimitsAssumption ==
    /\ MaxThreads \in Nat \ {0}
    /\ FindingLimit \in Nat /\ MemoryCap \in Nat
    /\ \A input \in Inputs : input \in Seq(Seq(Batch)) /\ Len(input) > 0

Workers == 1..MaxThreads

VARIABLES
    parts,      \* the partitions, each a sequence of batches
    queue,      \* indices of the partitions nobody has taken
    slots,      \* the published result of each partition, <<>> before
    pc,         \* where each worker is
    job,        \* the partition a worker scans
    batch,      \* the batch of it the worker is in
    hit,        \* violations of that batch already recorded
    part,       \* the validation state of the worker's partition
    peak,       \* peak_memory of the root account
    cancelled,  \* the cancellation token
    outcome     \* what the caller gets, <<>> before

vars == <<parts, queue, slots, pc, job, batch, hit, part, peak, cancelled, outcome>>

-----------------------------------------------------------------------------
NoReport == [rows |-> 0, violations |-> 0, findings |-> <<>>, evaluated |-> 0, peak |-> 0]

\* A result that the workers publish and the caller receives.
Success(report) == [err |-> "none", report |-> report]
Failure(e) == [err |-> e, report |-> NoReport]

\* The list of findings is not full yet.
Room(report) == Len(report.findings) < FindingLimit

\* ValidationState::record with the memory granted; a full list only counts.
Record(report, row) ==
    IF Room(report)
    THEN [report EXCEPT !.violations = @ + 1, !.findings = Append(@, row),
                        !.peak = @ + 1]
    ELSE [report EXCEPT !.violations = @ + 1]

\* A kernel meets a violation in a row of the batch the report has come to.
RecordHit(report, row) == Record(report, report.rows + row)

\* A worker's findings are charged until its result is published.
Charged(w) == IF pc[w] \in {"read", "scan"} THEN Len(part[w].findings) ELSE 0
MemoryUsed == Cardinality({unit \in Workers \X (1..FindingLimit) : unit[2] <= Charged(unit[1])})

\* Mutant: the rows of the findings are those of their partition.
AddReportInPlace(total, report) ==
    LET room == Min({FindingLimit - Len(total.findings), Len(report.findings)}) IN
    [rows |-> total.rows + report.rows,
     violations |-> total.violations + report.violations,
     findings |-> total.findings \o SubSeq(report.findings, 1, room),
     evaluated |-> total.evaluated + report.evaluated,
     peak |-> Max({total.peak, report.peak})]

\* Mutant: the peaks of the partitions are added up like their other numbers.
AddReportSummed(total, report) ==
    LET room == Min({FindingLimit - Len(total.findings), Len(report.findings)})
        taken == SubSeq(report.findings, 1, room)
    IN [rows |-> total.rows + report.rows,
        violations |-> total.violations + report.violations,
        findings |-> total.findings \o [i \in DOMAIN taken |-> total.rows + taken[i]],
        evaluated |-> total.evaluated + report.evaluated,
        peak |-> total.peak + report.peak]

\* merge_reports adds one report to what it has: findings up to the limit, with
\* their rows moved behind the rows already counted.
AddReport(total, report) ==
    LET room == Min({FindingLimit - Len(total.findings), Len(report.findings)})
        taken == SubSeq(report.findings, 1, room)
    IN [rows |-> total.rows + report.rows,
        violations |-> total.violations + report.violations,
        findings |-> total.findings \o [i \in DOMAIN taken |-> total.rows + taken[i]],
        evaluated |-> total.evaluated + report.evaluated,
        peak |-> Max({total.peak, report.peak})]

AddSlot(total, slot) == AddReport(total, slot[1].report)
MergedReport == FoldLeft(AddSlot, NoReport, slots)

\* Mutant: the error of the last partition that failed is reported.
MergedLastError ==
    LET failed == {i \in DOMAIN slots : slots[i] = <<>> \/ slots[i][1].err # "none"}
        last == slots[Max(failed)]
    IN IF failed = {}
       THEN Success(MergedReport)
       ELSE IF last = <<>> THEN Failure("corrupt") ELSE last[1]

\* The slots in order: the first error, or the merged report.
Merged ==
    LET failed == {i \in DOMAIN slots : slots[i] = <<>> \/ slots[i][1].err # "none"}
        first == slots[Min(failed)]
    IN IF failed = {}
       THEN Success(MergedReport)
       ELSE IF first = <<>> THEN Failure("corrupt") ELSE first[1]

-----------------------------------------------------------------------------
\* execute_independent_partitions up to the spawned workers, which are at most
\* as many as there are partitions.
Init ==
    /\ parts \in Inputs
    /\ queue = [i \in 1..Len(parts) |-> i]
    /\ slots = [i \in 1..Len(parts) |-> <<>>]
    /\ \E threads \in Workers :
        pc = [w \in Workers |-> IF w <= Min({threads, Len(parts)}) THEN "take" ELSE "ended"]
    /\ job = [w \in Workers |-> 0]
    /\ batch = [w \in Workers |-> 0]
    /\ hit = [w \in Workers |-> 0]
    /\ part = [w \in Workers |-> NoReport]
    /\ peak = 0
    /\ cancelled = FALSE
    /\ outcome = <<>>

Batches(w) == parts[job[w]]
Current(w) == Batches(w)[batch[w]]

\* Mutant: the partition is looked at and stays in the queue.
TakeWithoutRemoving(w) ==
    /\ pc[w] = "take"
    /\ queue # <<>>
    /\ job' = [job EXCEPT ![w] = Head(queue)]
    /\ batch' = [batch EXCEPT ![w] = 1]
    /\ hit' = [hit EXCEPT ![w] = 0]
    /\ part' = [part EXCEPT ![w] = NoReport]
    /\ pc' = [pc EXCEPT ![w] = "read"]
    /\ UNCHANGED <<parts, queue, slots, peak, cancelled, outcome>>

\* pop_front of the shared queue: a partition with a fresh validation state.
Take(w) ==
    /\ pc[w] = "take"
    /\ queue # <<>>
    /\ job' = [job EXCEPT ![w] = Head(queue)]
    /\ queue' = Tail(queue)
    /\ batch' = [batch EXCEPT ![w] = 1]
    /\ hit' = [hit EXCEPT ![w] = 0]
    /\ part' = [part EXCEPT ![w] = NoReport]
    /\ pc' = [pc EXCEPT ![w] = "read"]
    /\ UNCHANGED <<parts, slots, peak, cancelled, outcome>>

\* Mutant: a worker waits for the others before it ends.
EndTogether(w) ==
    /\ pc[w] = "take"
    /\ queue = <<>>
    /\ \A v \in Workers \ {w} : pc[v] = "ended"
    /\ pc' = [pc EXCEPT ![w] = "ended"]
    /\ UNCHANGED <<parts, queue, slots, job, batch, hit, part, peak, cancelled, outcome>>

\* pop_front finds nothing left: the worker breaks out of its loop.
End(w) ==
    /\ pc[w] = "take"
    /\ queue = <<>>
    /\ pc' = [pc EXCEPT ![w] = "ended"]
    /\ UNCHANGED <<parts, queue, slots, job, batch, hit, part, peak, cancelled, outcome>>

\* The validation state is dropped with its reservations and the result goes
\* into the slot of the partition.
Publish(w, result) ==
    /\ slots' = [slots EXCEPT ![job[w]] = <<result>>]
    /\ pc' = [pc EXCEPT ![w] = "take"]
    /\ UNCHANGED <<parts, queue, job, batch, hit, part, peak, cancelled, outcome>>

\* The reader has no further batch: build_report.
FinishPartition(w) ==
    /\ pc[w] = "read"
    /\ batch[w] > Len(Batches(w))
    /\ Publish(w, Success(part[w]))

\* The cancellation check comes before the batch is looked at.
FailPartition(w) ==
    /\ pc[w] = "read"
    /\ batch[w] <= Len(Batches(w))
    /\ \/ cancelled /\ Publish(w, Failure("cancelled"))
       \/ ~cancelled /\ Current(w).fails /\ Publish(w, Failure("reader"))

\* The batch is delivered: record_evaluated, then the kernels.
ReadBatch(w) ==
    /\ pc[w] = "read"
    /\ batch[w] <= Len(Batches(w))
    /\ ~cancelled
    /\ ~Current(w).fails
    /\ part' = [part EXCEPT ![w].evaluated = @ + Current(w).values]
    /\ hit' = [hit EXCEPT ![w] = 0]
    /\ pc' = [pc EXCEPT ![w] = "scan"]
    /\ UNCHANGED <<parts, queue, slots, job, batch, peak, cancelled, outcome>>

\* Mutant: the finding is kept whatever the account says.
RecordUnchecked(w) ==
    /\ pc[w] = "scan"
    /\ hit[w] < Len(Current(w).hits)
    /\ hit' = [hit EXCEPT ![w] = @ + 1]
    /\ part' = [part EXCEPT ![w] = RecordHit(@, Current(w).hits[hit[w] + 1])]
    /\ peak' = IF Room(part[w]) THEN Max({peak, MemoryUsed + 1}) ELSE peak
    /\ UNCHANGED <<parts, queue, slots, pc, job, batch, cancelled, outcome>>

\* A kernel meets the next violation of the batch.
RecordFinding(w) ==
    /\ pc[w] = "scan"
    /\ hit[w] < Len(Current(w).hits)
    /\ Room(part[w]) => MemoryUsed < MemoryCap
    /\ hit' = [hit EXCEPT ![w] = @ + 1]
    /\ part' = [part EXCEPT ![w] = RecordHit(@, Current(w).hits[hit[w] + 1])]
    /\ peak' = IF Room(part[w]) THEN Max({peak, MemoryUsed + 1}) ELSE peak
    /\ UNCHANGED <<parts, queue, slots, pc, job, batch, cancelled, outcome>>

\* reserve_finding is refused; check_resources ends the scan.
RefuseFinding(w) ==
    /\ pc[w] = "scan"
    /\ hit[w] < Len(Current(w).hits)
    /\ Room(part[w])
    /\ MemoryUsed >= MemoryCap
    /\ Publish(w, Failure("limit"))

EndBatch(w) ==
    /\ pc[w] = "scan"
    /\ hit[w] = Len(Current(w).hits)
    /\ part' = [part EXCEPT ![w].rows = @ + Current(w).rows]
    /\ batch' = [batch EXCEPT ![w] = @ + 1]
    /\ pc' = [pc EXCEPT ![w] = "read"]
    /\ UNCHANGED <<parts, queue, slots, job, hit, peak, cancelled, outcome>>

\* The scope has joined every worker: the slots are collected and merged.
Collect ==
    /\ outcome = <<>>
    /\ \A w \in Workers : pc[w] = "ended"
    /\ outcome' = <<Merged>>
    /\ UNCHANGED <<parts, queue, slots, pc, job, batch, hit, part, peak, cancelled>>

\* Another thread cancels the operation.
Cancel ==
    /\ outcome = <<>>
    /\ ~cancelled
    /\ cancelled' = TRUE
    /\ UNCHANGED <<parts, queue, slots, pc, job, batch, hit, part, peak, outcome>>

Work(w) ==
    \/ Take(w)
    \/ End(w)
    \/ FinishPartition(w)
    \/ FailPartition(w)
    \/ ReadBatch(w)
    \/ RecordFinding(w)
    \/ RefuseFinding(w)
    \/ EndBatch(w)

Next == (\E w \in Workers : Work(w)) \/ Collect \/ Cancel

Spec == Init /\ [][Next]_vars

\* Spawned threads are scheduled and the scope returns when they have ended.
FairSpec == Spec /\ (\A w \in Workers : WF_vars(Work(w))) /\ WF_vars(Collect)

-----------------------------------------------------------------------------
Done == outcome # <<>>

\* The whole of a batch.
ScanBatch(report, b) ==
    [FoldLeft(RecordHit, report, b.hits) EXCEPT !.rows = @ + b.rows,
                                                !.evaluated = @ + b.values]

\* The report of one ordered traversal of a sequence of batches, the one
\* execute_reader makes over a PartitionSequence.
Traversal(batches) == FoldLeft(ScanBatch, NoReport, batches)

WithoutPeak(report) == [report EXCEPT !.peak = 0]

Sequence == FlattenSeq(parts)

UnreadableParts == {i \in DOMAIN parts : \E b \in DOMAIN parts[i] : parts[i][b].fails}

\* Type invariant.
TypeOK ==
    /\ parts \in Inputs
    /\ Range(queue) \subseteq DOMAIN parts
    /\ DOMAIN slots = DOMAIN parts
    /\ \A i \in DOMAIN slots : Len(slots[i]) \in {0, 1}
    /\ pc \in [Workers -> {"take", "read", "scan", "ended"}]
    /\ \A w \in Workers : pc[w] \in {"read", "scan"} =>
        /\ job[w] \in DOMAIN parts
        /\ batch[w] \in 1..(Len(Batches(w)) + 1)
        /\ Len(part[w].findings) <= FindingLimit
    /\ peak \in 0..MemoryCap
    /\ cancelled \in BOOLEAN
    /\ Len(outcome) \in {0, 1}

\* `exact semantics never depend on the worker count`: a report is the one that
\* a single ordered traversal of all partitions makes, whatever the number of
\* workers and whichever partition was finished first.
ReportIsSequential ==
    Done /\ outcome[1].err = "none" =>
        LET report == outcome[1].report IN
        WithoutPeak(report) = WithoutPeak(Traversal(Sequence))

\* A dataset with a batch that cannot be read never gets a report, and when the
\* reader's error is what the caller sees, no partition before the unreadable
\* one failed for another reason (the slots are collected in index order).
UnreadableNeverPasses ==
    Done /\ UnreadableParts # {} =>
        /\ outcome[1].err # "none"
        /\ outcome[1].err = "reader" =>
            \A i \in 1..(Min(UnreadableParts) - 1) : slots[i][1].err = "none"

\* No partition is lost and none is scanned by two workers: each one is in the
\* queue, with exactly one worker, or in its slot, so that the `did not publish`
\* error cannot happen; the state is well formed.
OneScanEach ==
    /\ TypeOK
    /\ Done => \A i \in DOMAIN slots : slots[i] # <<>>
    /\ \A i \in DOMAIN parts :
        LET with == {w \in Workers : pc[w] \in {"read", "scan"} /\ job[w] = i} IN
        Cardinality(with) + Cardinality({k \in DOMAIN queue : queue[k] = i})
            + Len(slots[i]) = 1

\* The findings the workers hold together stay inside the root's budget, the
\* recorded peak covers them, and nothing is charged once the caller has an
\* outcome (reserve_finding and the drop of ValidationState).
MemoryAccounted ==
    /\ MemoryUsed <= peak /\ peak <= MemoryCap
    /\ Done => MemoryUsed = 0

\* The workers and the caller always end, also after errors and cancellation.
CallerAnswered == <>Done

\* The peak of a merged report is one the operation really reached, although the
\* overlap of the workers is no longer known when merge_reports takes the largest
\* peak of a partition; it covers every finding that came back.
PeakWasReached ==
    Done /\ outcome[1].err = "none" =>
        /\ outcome[1].report.peak <= peak
        /\ \A i \in DOMAIN slots : Len(slots[i][1].report.findings) <= outcome[1].report.peak

===============================================================================
