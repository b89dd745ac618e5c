------------------------------ MODULE References ------------------------------
(***************************************************************************)
(* Rules about other datasets (execution/references.rs and the part of     *)
(* execution/mod.rs that drives it): reference rules, which require every  *)
(* local key in a bound dataset, and row-count rules, which compare the    *)
(* number of rows with a bound dataset.                                    *)
(*                                                                         *)
(* A bound dataset is a reader that can be taken once.  Row-count rules    *)
(* take theirs first; then each reference rule scans its dataset into a    *)
(* sealed key set, or finds one in the cache of this execution.  The       *)
(* subject is scanned next, and at the end each rule's local keys are      *)
(* anti-joined with its key set, which KeyMerge shows to be the set        *)
(* difference.                                                             *)
(*                                                                         *)
(* A dataset has a type for each column and its batches; a batch can fail  *)
(* to be read or arrive with another schema.  A fingerprint stands for     *)
(* what was read.  Exact states may fail for want of memory, disk or       *)
(* intact files at any use.                                                *)
(***************************************************************************)
EXTENDS Integers, Sequences, SequencesExt, FiniteSetsExt, Functions

CONSTANTS
    Jobs,           \* the contracts, bindings and subjects to explore
    FindingLimit,   \* the smaller of max_findings and max_samples
    Tag             \* the tag that append_scalar writes for each type

IsSequence(s) == s \in Seq(Range(s))
IsDataset(d) == IsSequence(d.batches) /\ \A b \in DOMAIN d.batches : IsSequence(d.batches[b].rows)

ASSUME JobsAssumption ==
    /\ FindingLimit \in Nat
    /\ \A j \in Jobs :
        /\ IsSequence(j.plans) /\ IsSequence(j.deltas) /\ IsSequence(j.bound)
        /\ IsDataset(j.subject) /\ \A i \in DOMAIN j.bound : IsDataset(j.bound[i].dataset)
        /\ \A i \in DOMAIN j.plans :
            /\ IsSequence(j.plans[i].columns) /\ IsSequence(j.plans[i].local)
            /\ Len(j.plans[i].columns) = Len(j.plans[i].local) /\ j.plans[i].local # <<>>
            /\ j.plans[i].nulls \in {"skip", "reject"}
        /\ \A i \in DOMAIN j.deltas : {j.deltas[i].min, j.deltas[i].max} \subseteq Int

Null == -1

VARIABLES
    job,        \* plans, deltas (row-count rules), bound datasets, subject
    bindings,   \* the readers nobody has taken, by name
    counted,    \* rows of the datasets of row-count rules, by name
    scanned,    \* the cache of scans
    prepared,   \* the scan each rule is checked against
    rule,       \* the rule or binding that the current phase is at
    reader,     \* the dataset being read
    batch,      \* the batch of it that comes next
    scan,       \* what has been read of it
    local,      \* for each rule the local keys with the rows that carry them
    report,     \* violations, findings and outcomes
    cancelled,  \* the cancellation token
    pc,         \* the phase
    err         \* the error of a failed execution

vars == <<job, bindings, counted, scanned, prepared, rule, reader, batch, scan,
          local, report, cancelled, pc, err>>

-----------------------------------------------------------------------------
(* Keys and scans *)

NoScan == [keys |-> {}, rows |-> 0, read |-> <<>>]
NoReport == [violations |-> 0, findings |-> <<>>, outcomes |-> <<>>]

\* encode_key: the position, tag and value of each column; <<>> if one is null.
EncodeKey(dataset, row, columns) ==
    IF \E i \in DOMAIN columns : row[columns[i]] = Null THEN <<>>
    ELSE [i \in DOMAIN columns |-> <<Tag[dataset.types[columns[i]]], row[columns[i]]>>]

\* The keys of the rows of one batch, those with a null left out.
EncodedKeys(dataset, rows, columns) ==
    {EncodeKey(dataset, rows[i], columns) : i \in DOMAIN rows} \ {<<>>}

\* Mutant: rules on the same dataset share a scan when the first key column agrees.
ReferenceCacheKeyByHead(plan) == <<plan.reference, Head(plan.columns)>>

ReferenceCacheKey(plan) == <<plan.reference, plan.columns>>

\* resolve_reference_key: the error of the first key position that has one.
Resolve(plan, dataset) ==
    LET Error(i) ==
            IF plan.columns[i] \notin DOMAIN dataset.types THEN "missing_column"
            ELSE IF job.subject.types[plan.local[i]] # dataset.types[plan.columns[i]]
            THEN "type_mismatch" ELSE "none"
        wrong == {i \in DOMAIN plan.columns : Error(i) # "none"}
    IN IF wrong = {} THEN "none" ELSE Error(Min(wrong))

\* record_lazy: a full list only counts.
RecordLazy(r, finding) ==
    IF Len(r.findings) < FindingLimit
    THEN [r EXCEPT !.violations = @ + 1, !.findings = Append(@, finding)]
    ELSE [r EXCEPT !.violations = @ + 1]

-----------------------------------------------------------------------------
Init ==
    /\ job \in Jobs
    /\ bindings = <<>> /\ counted = <<>> /\ scanned = <<>>
    /\ prepared = <<>>
    /\ rule = 1
    /\ reader = <<>> /\ batch = 1 /\ scan = NoScan
    /\ local = [i \in DOMAIN job.plans |-> {}]
    /\ report = NoReport
    /\ cancelled = FALSE
    /\ pc = "bind" /\ err = "none"

Fail(e) ==
    /\ pc' = "failed" /\ err' = e
    /\ UNCHANGED <<job, bindings, counted, scanned, prepared, rule, reader, batch, scan,
                   local, report, cancelled>>

\* The next phase, from its first rule and batch.
Enter(phase) == pc' = phase /\ rule' = 1 /\ batch' = 1 /\ scan' = NoScan

Cancel ==
    /\ ~cancelled /\ pc \notin {"done", "failed"}
    /\ cancelled' = TRUE
    /\ UNCHANGED <<job, bindings, counted, scanned, prepared, rule, reader, batch, scan,
                   local, report, pc, err>>

\* An exact state, its directory, its files or the memory for a finding fail; a
\* spill in between sees the token.
Refused ==
    /\ pc \in {"scan", "subject", "finish", "compare"}
    /\ \E e \in {"resource"} \cup (IF cancelled THEN {"cancelled"} ELSE {}) : Fail(e)

-----------------------------------------------------------------------------
(* Binding *)

\* reference_bindings: a name is bound once.
Bind ==
    /\ pc = "bind" /\ rule \in DOMAIN job.bound
    /\ LET new == job.bound[rule] IN
       IF new.name \in DOMAIN bindings THEN Fail("bound_twice")
       ELSE /\ bindings' = [n \in DOMAIN bindings \cup {new.name} |->
                              IF n = new.name THEN new.dataset ELSE bindings[n]]
            /\ rule' = rule + 1
            /\ UNCHANGED <<job, counted, scanned, prepared, reader, batch, scan, local,
                           report, cancelled, pc, err>>

BindEnd ==
    /\ pc = "bind" /\ rule \notin DOMAIN job.bound
    /\ Enter("count")
    /\ UNCHANGED <<job, bindings, counted, scanned, prepared, reader, local, report,
                   cancelled, err>>

\* ReferenceBindings::take
Take(name) ==
    /\ reader' = bindings[name]
    /\ bindings' = Restrict(bindings, DOMAIN bindings \ {name})
    /\ batch' = 1 /\ scan' = NoScan

-----------------------------------------------------------------------------
(* count_delta_references *)

CountRule == pc = "count" /\ rule \in DOMAIN job.deltas
Delta == job.deltas[rule]

AlreadyCounted ==
    /\ CountRule /\ Delta.reference \in DOMAIN counted
    /\ rule' = rule + 1
    /\ UNCHANGED <<job, bindings, counted, scanned, prepared, reader, batch, scan, local,
                   report, cancelled, pc, err>>

TakeToCount ==
    /\ CountRule /\ Delta.reference \notin DOMAIN counted
    /\ IF Delta.reference \notin DOMAIN bindings THEN Fail("unbound")
       ELSE /\ Take(Delta.reference)
            /\ pc' = "drain"
            /\ UNCHANGED <<job, counted, scanned, prepared, rule, local, report, cancelled, err>>

\* The token is checked for each batch; a batch of another schema counts.
CountBatch ==
    /\ pc = "drain" /\ batch \in DOMAIN reader.batches
    /\ LET b == reader.batches[batch] IN
       IF cancelled THEN Fail("cancelled")
       ELSE IF b.kind = "unreadable" THEN Fail("io")
       ELSE /\ scan' = [scan EXCEPT !.rows = @ + Len(b.rows)]
            /\ batch' = batch + 1
            /\ UNCHANGED <<job, bindings, counted, scanned, prepared, rule, reader, local,
                           report, cancelled, pc, err>>

CountEnd ==
    /\ pc = "drain" /\ batch \notin DOMAIN reader.batches
    /\ counted' = [n \in DOMAIN counted \cup {Delta.reference} |->
                     IF n = Delta.reference THEN scan.rows ELSE counted[n]]
    /\ pc' = "count" /\ rule' = rule + 1
    /\ UNCHANGED <<job, bindings, scanned, prepared, reader, batch, scan, local, report,
                   cancelled, err>>

AllCounted ==
    /\ pc = "count" /\ rule \notin DOMAIN job.deltas
    /\ Enter("prepare")
    /\ UNCHANGED <<job, bindings, counted, scanned, prepared, reader, local, report,
                   cancelled, err>>

-----------------------------------------------------------------------------
(* prepare *)

PrepareRule == pc = "prepare" /\ rule \in DOMAIN job.plans
Plan == job.plans[rule]

\* A scan of the same dataset and key columns is reused.
Reuse ==
    /\ PrepareRule /\ ReferenceCacheKey(Plan) \in DOMAIN scanned
    /\ prepared' = Append(prepared, scanned[ReferenceCacheKey(Plan)])
    /\ rule' = rule + 1
    /\ UNCHANGED <<job, bindings, counted, scanned, reader, batch, scan, local, report,
                   cancelled, pc, err>>

\* The reader is taken and the key columns resolved before anything is read.
TakeToScan ==
    /\ PrepareRule /\ ReferenceCacheKey(Plan) \notin DOMAIN scanned
    /\ IF Plan.reference \notin DOMAIN bindings THEN Fail("unbound")
       ELSE IF Resolve(Plan, bindings[Plan.reference]) # "none"
       THEN Fail(Resolve(Plan, bindings[Plan.reference]))
       ELSE /\ Take(Plan.reference)
            /\ pc' = "scan"
            /\ UNCHANGED <<job, counted, scanned, prepared, rule, local, report, cancelled, err>>

ScanBatch ==
    /\ pc = "scan" /\ batch \in DOMAIN reader.batches
    /\ LET b == reader.batches[batch] IN
       IF cancelled THEN Fail("cancelled")
       ELSE IF b.kind = "unreadable" THEN Fail("io")
       ELSE IF b.kind = "other_schema" THEN Fail("schema")
       ELSE /\ scan' = [keys |-> scan.keys \cup EncodedKeys(reader, b.rows, Plan.columns),
                        rows |-> scan.rows + Len(b.rows),
                        read |-> scan.read \o b.rows]
            /\ batch' = batch + 1
            /\ UNCHANGED <<job, bindings, counted, scanned, prepared, rule, reader, local,
                           report, cancelled, pc, err>>

\* The key set is sealed and cached, and Reuse takes it from there.
ScanEnd ==
    /\ pc = "scan" /\ batch \notin DOMAIN reader.batches
    /\ LET sealed == [keys |-> scan.keys, rows |-> scan.rows,
                      fingerprint |-> <<reader.types, scan.read>>]
       IN scanned' = [k \in DOMAIN scanned \cup {ReferenceCacheKey(Plan)} |->
                        IF k = ReferenceCacheKey(Plan) THEN sealed ELSE scanned[k]]
    /\ pc' = "prepare"
    /\ UNCHANGED <<job, bindings, counted, prepared, rule, reader, batch, scan, local,
                   report, cancelled, err>>

\* Mutant: a bound dataset that no rule uses is ignored.
PreparedUnchecked ==
    /\ pc = "prepare" /\ rule \notin DOMAIN job.plans
    /\ Enter("subject")
    /\ reader' = job.subject
    /\ UNCHANGED <<job, bindings, counted, scanned, prepared, local, report, cancelled, err>>

\* No reader may be left over.
Prepared ==
    /\ pc = "prepare" /\ rule \notin DOMAIN job.plans
    /\ IF DOMAIN bindings # {} THEN Fail("unbound")
       ELSE /\ Enter("subject")
            /\ reader' = job.subject
            /\ UNCHANGED <<job, bindings, counted, scanned, prepared, local, report,
                           cancelled, err>>

-----------------------------------------------------------------------------
(* The subject: scan_reader with ReferenceState::update *)

\* Mutant: rows are numbered from the start of their batch.
GlobalRowInBatch(r) == r - 1

\* Rows are numbered from zero through all batches.
GlobalRow(r) == scan.rows + r - 1

\* What a rule finds in a batch: the rows that it rejects for a null in their key.
NullFindings(i, rows) ==
    FlattenSeq([r \in DOMAIN rows |->
        IF /\ job.plans[i].nulls = "reject"
           /\ EncodeKey(job.subject, rows[r], job.plans[i].local) = <<>>
        THEN <<[rule |-> i, row |-> GlobalRow(r)]>> ELSE <<>>])

\* Rule by rule, the rows of a batch: keys are collected, rejected nulls recorded.
SubjectBatch ==
    /\ pc = "subject" /\ batch \in DOMAIN reader.batches
    /\ LET b == reader.batches[batch] IN
       IF cancelled THEN Fail("cancelled")
       ELSE IF b.kind = "unreadable" THEN Fail("io")
       ELSE IF b.kind = "other_schema" THEN Fail("schema")
       ELSE /\ local' = [i \in DOMAIN local |->
                           local[i] \cup
                             {[key |-> EncodeKey(reader, b.rows[r], job.plans[i].local),
                               row |-> GlobalRow(r)] :
                              r \in {q \in DOMAIN b.rows :
                                EncodeKey(reader, b.rows[q], job.plans[i].local) # <<>>}}]
            /\ report' = FoldLeft(RecordLazy, report,
                           FlattenSeq([i \in DOMAIN job.plans |-> NullFindings(i, b.rows)]))
            /\ scan' = [scan EXCEPT !.rows = @ + Len(b.rows)]
            /\ batch' = batch + 1
            /\ UNCHANGED <<job, bindings, counted, scanned, prepared, rule, reader,
                           cancelled, pc, err>>

SubjectEnd ==
    /\ pc = "subject" /\ batch \notin DOMAIN reader.batches
    /\ pc' = "finish" /\ rule' = 1
    /\ UNCHANGED <<job, bindings, counted, scanned, prepared, reader, batch, scan, local,
                   report, cancelled, err>>

-----------------------------------------------------------------------------
(* ReferenceState::finish and check_row_count_delta *)

LocalKeys(i) == {entry.key : entry \in local[i]}
FirstRow(i, key) == Min({entry.row : entry \in {e \in local[i] : e.key = key}})

\* The absent keys that are counted without being recorded.
Unsampled(missing, sampled) == missing - sampled

\* The absent keys of one rule are counted, as many as allowed sampled; which ones
\* is up to the byte order of the keys.
FinishRule ==
    /\ pc = "finish" /\ rule \in DOMAIN job.plans
    /\ IF cancelled THEN Fail("cancelled")
       ELSE
       LET missing == LocalKeys(rule) \ prepared[rule].keys
           sampled == Min({FindingLimit, Cardinality(missing)})
       IN \E chosen \in kSubset(sampled, missing) :
            LET rows == SetToSeq({FirstRow(rule, key) : key \in chosen})
                recorded == FoldLeft(RecordLazy, report,
                              [n \in DOMAIN rows |-> [rule |-> rule, row |-> rows[n]]])
            IN /\ report' = [recorded EXCEPT
                    !.violations = @ + Unsampled(Cardinality(missing), sampled),
                    !.outcomes = Append(@, [reference |-> Plan.reference,
                                            fingerprint |-> prepared[rule].fingerprint,
                                            rows |-> prepared[rule].rows,
                                            keys |-> Cardinality(prepared[rule].keys),
                                            checked |-> Cardinality(LocalKeys(rule)),
                                            missing |-> Cardinality(missing)])]
               /\ rule' = rule + 1
               /\ UNCHANGED <<job, bindings, counted, scanned, prepared, reader, batch, scan,
                              local, cancelled, pc, err>>

FinishEnd ==
    /\ pc = "finish" /\ rule \notin DOMAIN job.plans
    /\ pc' = "compare" /\ rule' = 1
    /\ UNCHANGED <<job, bindings, counted, scanned, prepared, reader, batch, scan, local,
                   report, cancelled, err>>

\* A row count breaks a rule: no rows to compare with, or a ratio outside the
\* bounds, which are in per cent.
Breaks(delta, rows, reference) ==
    \/ reference = 0
    \/ 100 * (rows - reference) < delta.min * reference
    \/ 100 * (rows - reference) > delta.max * reference

CompareRows ==
    /\ pc = "compare" /\ rule \in DOMAIN job.deltas
    /\ report' = IF Breaks(Delta, scan.rows, counted[Delta.reference])
                 THEN RecordLazy(report, [rule |-> 0, row |-> Null]) ELSE report
    /\ rule' = rule + 1
    /\ UNCHANGED <<job, bindings, counted, scanned, prepared, reader, batch, scan, local,
                   cancelled, pc, err>>

Finish ==
    /\ pc = "compare" /\ rule \notin DOMAIN job.deltas
    /\ pc' = "done"
    /\ UNCHANGED <<job, bindings, counted, scanned, prepared, rule, reader, batch, scan,
                   local, report, cancelled, err>>

Next ==
    \/ Cancel \/ Refused
    \/ Bind \/ BindEnd
    \/ AlreadyCounted \/ TakeToCount \/ CountBatch \/ CountEnd \/ AllCounted
    \/ Reuse \/ TakeToScan \/ ScanBatch \/ ScanEnd \/ Prepared
    \/ SubjectBatch \/ SubjectEnd
    \/ FinishRule \/ FinishEnd \/ CompareRows \/ Finish

Spec == Init /\ [][Next]_vars

-----------------------------------------------------------------------------
(* Properties *)

\* What the caller bound and what the rules name, without regard to the steps.
BoundNames == {job.bound[i].name : i \in DOMAIN job.bound}
UsedNames == {job.plans[i].reference : i \in DOMAIN job.plans} \cup
             {job.deltas[i].reference : i \in DOMAIN job.deltas}
BoundTo(name) == job.bound[CHOOSE i \in DOMAIN job.bound : job.bound[i].name = name].dataset
AllRows(dataset) == FlattenSeq([i \in DOMAIN dataset.batches |-> dataset.batches[i].rows])

\* The keys of a rule on both sides of it, each over its whole dataset.
Ours(i) == EncodedKeys(job.subject, AllRows(job.subject), job.plans[i].local)
Theirs(i) ==
    LET dataset == BoundTo(job.plans[i].reference)
    IN EncodedKeys(dataset, AllRows(dataset), job.plans[i].columns)

\* The rows of the subject that a rule rejects for a null.
Rejected(i) ==
    {r \in DOMAIN AllRows(job.subject) :
        /\ job.plans[i].nulls = "reject"
        /\ \E c \in Range(job.plans[i].local) : AllRows(job.subject)[r][c] = Null}

\* The rejected rows and the absent keys of every rule.
Rejections == UNION {{<<i, r>> : r \in Rejected(i)} : i \in DOMAIN job.plans}
Absences == UNION {{<<i, key>> : key \in Ours(i) \ Theirs(i)} : i \in DOMAIN job.plans}

\* The row-count rules that do not hold.
BrokenDeltas ==
    {i \in DOMAIN job.deltas :
        LET rows == Len(AllRows(job.subject))
            reference == Len(AllRows(BoundTo(job.deltas[i].reference)))
        IN ~ /\ reference > 0
             /\ 100 * rows >= (100 + job.deltas[i].min) * reference
             /\ 100 * rows <= (100 + job.deltas[i].max) * reference}

\* The phases and the bounds of what is recorded: no list of findings is longer
\* than the limit.
TypeOK ==
    /\ DOMAIN bindings \subseteq BoundNames
    /\ DOMAIN counted \cup {key[1] : key \in DOMAIN scanned} \subseteq UsedNames
    /\ \A i \in DOMAIN prepared : prepared[i] \in Range(scanned)
    /\ rule \in Nat \ {0} /\ batch \in Nat \ {0}
    /\ report.violations \in Nat
    /\ Len(report.findings) <= FindingLimit
    /\ Len(report.outcomes) <= Len(job.plans)
    /\ pc \in {"bind", "count", "drain", "prepare", "scan", "subject", "finish", "compare",
               "done", "failed"}

\* Each outcome of a finished execution names the dataset its rule names, with the
\* fingerprint and the rows of all of it, and its three counts are those of the
\* two key sets, whichever rule scanned the dataset (prepare and finish).
\* violation_count is the distinct absent keys and the rejected nulls of every rule
\* and the row-count rules that do not hold, each counted once whether a finding
\* was kept for it or not (record_lazy, update, check_row_count_delta).
ReportIsExact ==
    pc = "done" =>
        /\ Len(report.outcomes) = Len(job.plans)
        /\ \A i \in DOMAIN job.plans :
            LET dataset == BoundTo(job.plans[i].reference) IN
            report.outcomes[i] = [reference |-> job.plans[i].reference,
                                  fingerprint |-> <<dataset.types, AllRows(dataset)>>,
                                  rows |-> Len(AllRows(dataset)),
                                  keys |-> Cardinality(Theirs(i)),
                                  checked |-> Cardinality(Ours(i)),
                                  missing |-> Cardinality(Ours(i) \ Theirs(i))]
        /\ report.violations =
            Cardinality(Absences) + Cardinality(Rejections) + Cardinality(BrokenDeltas)
        /\ Len(report.findings) = Min({FindingLimit, report.violations})

\* Every finding, from the moment it is recorded, is about a row of the subject that
\* the rule rejects for a null or that is the first to carry an absent key.
FindingsAreReal ==
    \A n \in DOMAIN report.findings :
        LET finding == report.findings[n]
            rows == AllRows(job.subject)
            Key(r) == EncodeKey(job.subject, rows[r], job.plans[finding.rule].local)
        IN finding.rule # 0 =>
            /\ finding.row + 1 \in DOMAIN rows
            /\ \/ finding.row + 1 \in Rejected(finding.rule)
               \/ /\ Key(finding.row + 1) \in Ours(finding.rule) \ Theirs(finding.rule)
                  /\ \A r \in 1..finding.row : Key(r) # Key(finding.row + 1)

\* The subject is not read unless the bound datasets are exactly those the rules
\* name: no rule is skipped and no dataset ignored (the doc comment of prepare); the
\* state is well formed.
BindingsMatch ==
    /\ TypeOK
    /\ pc \in {"subject", "finish", "compare", "done"} => BoundNames = UsedNames

\* A report without violations means that every key of the subject, read with its
\* type, is a key of the dataset the rule names (docs/contracts.md 128 and 161-165).
ValidMeansMember ==
    pc = "done" /\ report.violations = 0 =>
        \A i \in DOMAIN job.plans :
            LET plan == job.plans[i]
                dataset == BoundTo(plan.reference)
            IN \A ours \in Range(AllRows(job.subject)) :
                \/ \E c \in Range(plan.local) : ours[c] = Null
                \/ \E theirs \in Range(AllRows(dataset)) : \A k \in DOMAIN plan.local :
                    /\ ours[plan.local[k]] = theirs[plan.columns[k]]
                    /\ job.subject.types[plan.local[k]] = dataset.types[plan.columns[k]]

\* Execution fails for an unbound dataset only if a rule names a dataset that was
\* not bound or a dataset was bound that no rule names (docs/contracts.md 156-159,
\* and the comment in prepare that other key columns get a fresh scan).
UnboundMeansUnbound == err = "unbound" => BoundNames # UsedNames
===============================================================================
