------------------------------ MODULE Execution -------------------------------
(***************************************************************************)
(* The execution of a contract over one stream of batches: the contract is *)
(* checked and compiled against a schema (contract/v2.rs,                  *)
(* contract/compile.rs), then every batch passes through the column rules, *)
(* the row rules and the dataset rules, and the states that are left give  *)
(* their verdicts at the end (execution/mod.rs).  ValidationState of       *)
(* lib.rs counts every violation and keeps the first findings.             *)
(*                                                                         *)
(* The steps are those of a sequential program; only the cancellation      *)
(* comes from outside.  Reference rules run beside these (References), and *)
(* the exact states may fail as ExactState says; here they have room.      *)
(***************************************************************************)
EXTENDS RuleMeaning

CONSTANTS
    Jobs,           \* the contracts, schemas and batches to explore
    FindingRoom     \* findings that the memory budget holds

ASSUME ExecutionAssumption ==
    /\ FindingRoom \in Nat
    /\ \A job \in Jobs : job.contract.max_findings \in Nat

VARIABLES
    job,        \* the contract, the schema and the stream
    pc,         \* the phase
    plan,       \* the compiled contract
    batch,      \* the batch that comes next
    rows,       \* rows of the batches before it
    family,     \* position of the family that is updated or closed next
    unique,     \* the exact state of each column plan, empty without `unique`
    states,     \* the states of the dataset rules, by family
    report,     \* the ValidationState
    cancelled,  \* the cancellation token
    err         \* the error of a failed execution

vars == <<job, pc, plan, batch, rows, family, unique, states, report, cancelled, err>>

NoReport == [violations |-> 0, findings |-> <<>>, evaluated |-> <<>>, refused |-> FALSE]
NoPlan == [columns |-> <<>>, rows |-> <<>>, dataset |-> DatasetPlan(NoDatasetRules)]

-----------------------------------------------------------------------------
(* ValidationState *)

FindingLimit == Min({job.contract.max_findings, SampleLimit})

\* record and record_lazy: the count goes on when no finding is kept any more.
Record(r, finding) ==
    IF Len(r.findings) >= FindingLimit THEN [r EXCEPT !.violations = @ + 1]
    ELSE IF r.refused \/ Len(r.findings) >= FindingRoom
    THEN [r EXCEPT !.violations = @ + 1, !.refused = TRUE]
    ELSE [r EXCEPT !.violations = @ + 1, !.findings = Append(@, finding)]
RecordAll(r, findings) == FoldLeft(Record, r, findings)

-----------------------------------------------------------------------------
(* Compilation *)

CompileContract(contract, types) ==
    FirstError(<<
        Refuse(contract.status = "draft", "draft"),
        CompileColumns(contract.columns, types),
        FirstError([i \in DOMAIN contract.rows |-> CompileRow(contract.rows[i], types)]),
        CompileDataset(contract.dataset, types)>>)

Plan(contract, types) ==
    [columns |-> ColumnPlans(contract.columns, types), rows |-> contract.rows,
     dataset |-> DatasetPlan(contract.dataset)]

Fail(code) ==
    /\ pc' = "failed"
    /\ err' = code
    /\ UNCHANGED <<plan, batch, rows, family, unique, states, report>>
Proceed(phase) == pc' = phase /\ err' = err

\* from_json, which ends in validate_semantics.
Parse ==
    /\ pc = "parse"
    /\ LET code == CheckSemantics(job.contract)
       IN IF code # Ok THEN Fail(code)
          ELSE Proceed("compile") /\ UNCHANGED <<plan, batch, rows, family, unique, states, report>>
    /\ UNCHANGED <<job, cancelled>>

\* compile_document
Compile ==
    /\ pc = "compile"
    /\ LET code == CompileContract(job.contract, job.types)
       IN IF code # Ok THEN Fail(code)
          ELSE /\ Proceed("open")
               /\ plan' = Plan(job.contract, job.types)
               /\ UNCHANGED <<batch, rows, family, unique, states, report>>
    /\ UNCHANGED <<job, cancelled>>

\* execute_reader up to the scan.
Open ==
    /\ pc = "open"
    /\ IF job.reader # job.types THEN Fail("schema_mismatch")
       ELSE /\ Proceed("read")
            /\ report' = [report EXCEPT !.evaluated = [i \in DOMAIN plan.columns |-> 0]]
            /\ unique' = [i \in DOMAIN plan.columns |-> <<>>]
            /\ states' = [f \in Families |-> [i \in DOMAIN plan.dataset[f] |->
                                                FirstState(f, plan.dataset[f][i], job.types)]]
            /\ UNCHANGED <<plan, batch, rows, family>>
    /\ UNCHANGED <<job, cancelled>>

-----------------------------------------------------------------------------
(* The scan *)

Batch == job.batches[batch].rows

\* The head of the loop in scan_reader.
ReadBatch ==
    /\ pc = "read"
    /\ CASE batch > Len(job.batches) ->
              Proceed("finish_unique") /\ UNCHANGED <<plan, batch, rows, family, unique, states, report>>
         [] batch <= Len(job.batches) /\ cancelled -> Fail("cancelled")
         [] batch <= Len(job.batches) /\ ~cancelled /\ job.batches[batch].kind # "ok" ->
              Fail(job.batches[batch].kind)
         [] OTHER -> Proceed("columns") /\ UNCHANGED <<plan, batch, rows, family, unique, states, report>>
    /\ UNCHANGED <<job, cancelled>>

UniqueKeys(entry, offset) ==
    LET keys == [n \in DOMAIN Batch |-> [key |-> <<Batch[n][entry.column]>>, row |-> offset + n]]
    IN SelectSeq(keys, LAMBDA k : EntersUnique(entry.rules, k.key[1]))

\* Non-null values of a column in the batch.
Offered(c) == Cardinality({n \in DOMAIN Batch : Batch[n][c] # Null})

\* Mutant: rows are numbered from the start of their batch.
ColumnFindingsLocal(entry, offset) ==
    FlattenSeq([n \in DOMAIN Batch |->
        LET broken == ColumnKernel(job.types[entry.column], entry.rules, Batch[n][entry.column])
        IN [k \in DOMAIN broken |-> Finding(broken[k], entry.column, {n})]])

ColumnFindings(entry, offset) ==
    FlattenSeq([n \in DOMAIN Batch |->
        LET broken == ColumnKernel(job.types[entry.column], entry.rules, Batch[n][entry.column])
        IN [k \in DOMAIN broken |-> Finding(broken[k], entry.column, {offset + n})]])

\* Column by column; a finding without room fails the execution after its column.
ScanColumns ==
    /\ pc = "columns"
    /\ report' = [RecordAll(report, FlattenSeq([i \in DOMAIN plan.columns |-> ColumnFindings(plan.columns[i], rows)]))
                    EXCEPT !.evaluated = [i \in DOMAIN plan.columns |->
                                           @[i] + Offered(plan.columns[i].column)]]
    /\ unique' = [i \in DOMAIN plan.columns |-> unique[i] \o UniqueKeys(plan.columns[i], rows)]
    /\ pc' = IF report'.refused THEN "failed" ELSE "rows"
    /\ err' = IF report'.refused THEN "memory_limit" ELSE err
    /\ UNCHANGED <<job, plan, batch, rows, family, states, cancelled>>

RuleColumn(rule) == IF IsCompare(rule) THEN FindingColumn(rule.compare) ELSE rule.column
RuleName(rule) == IF IsCompare(rule) THEN "compare" ELSE "conditional"

\* scan_row_plan: the first assertion of an unsupported type ends the scan.
ScanRow(rule, offset) ==
    [found |-> FlattenSeq([n \in DOMAIN Batch |->
                [k \in DOMAIN RowBreaks(rule, job.types, Batch[n]) |->
                    Finding(RuleName(rule), RuleColumn(rule), {offset + n})]]),
     err |-> Refuse(\E n \in DOMAIN Batch : RowUnsupported(rule, job.types, Batch[n]), "unsupported_type")]

ScanRows ==
    /\ pc = "rows"
    /\ LET step(s, i) ==
               LET scan == ScanRow(plan.rows[i], rows)
                   recorded == RecordAll(s.report, scan.found)
               IN IF s.err # Ok THEN s
                  ELSE [report |-> recorded,
                        err |-> FirstError(<<scan.err, Refuse(recorded.refused, "memory_limit")>>)]
           scanned == FoldLeft(step, [report |-> report, err |-> Ok], [i \in DOMAIN plan.rows |-> i])
       IN /\ report' = scanned.report
          /\ err' = scanned.err
          /\ pc' = IF scanned.err = Ok THEN "update" ELSE "failed"
    /\ family' = 1
    /\ UNCHANGED <<job, plan, batch, rows, unique, states, cancelled>>

\* DatasetState::update, one family after the other.  After the last, the memory of
\* the findings is checked and the next batch is read.
UpdateFamily ==
    /\ pc = "update"
    /\ LET f == UpdateOrder[family]
           rules == plan.dataset[f]
           taken == [i \in DOMAIN rules |-> TakeBatch(f, rules[i], job.types, states[f][i], Batch, rows)]
           recorded == RecordAll(report, FlattenSeq([i \in DOMAIN rules |-> taken[i].found]))
           last == family = Len(UpdateOrder)
           code == FirstError([i \in DOMAIN rules |-> taken[i].err]
                              \o <<Refuse(last /\ recorded.refused, "memory_limit")>>)
       IN /\ states' = [states EXCEPT ![f] = [i \in DOMAIN rules |-> taken[i].state]]
          /\ report' = recorded
          /\ err' = code
          /\ pc' = IF code # Ok THEN "failed" ELSE IF last THEN "read" ELSE "update"
          /\ family' = IF last THEN 1 ELSE family + 1
          /\ batch' = IF last THEN batch + 1 ELSE batch
          /\ rows' = IF last THEN rows + Len(Batch) ELSE rows
    /\ UNCHANGED <<job, plan, unique, cancelled>>

-----------------------------------------------------------------------------
(* The verdicts *)

\* A verdict's findings, and the violations it has no finding for.
RecordClosed(r, closed) == [RecordAll(r, closed.found) EXCEPT !.violations = @ + closed.unsampled]

FinishUnique ==
    /\ pc = "finish_unique"
    /\ LET closed == [i \in DOMAIN plan.columns |-> CloseExact(unique[i], "unique", plan.columns[i].column)]
       IN report' = FoldLeft(RecordClosed, report, closed)
    /\ pc' = IF report'.refused THEN "failed" ELSE "close"
    /\ err' = IF report'.refused THEN "memory_limit" ELSE err
    /\ family' = 1
    /\ UNCHANGED <<job, plan, batch, rows, unique, states, cancelled>>

\* DatasetState::finish, one family after the other, then check_resources and
\* build_report.
CloseFamily ==
    /\ pc = "close"
    /\ LET f == CloseOrder[family]
           rules == plan.dataset[f]
           closed == [i \in DOMAIN rules |-> Close(f, rules[i], job.types, states[f][i], rows)]
           recorded == FoldLeft(RecordClosed, report, closed)
           last == family = Len(CloseOrder)
       IN /\ report' = recorded
          /\ pc' = IF ~last THEN "close" ELSE IF recorded.refused THEN "failed" ELSE "done"
          /\ err' = IF last /\ recorded.refused THEN "memory_limit" ELSE err
          /\ family' = IF last THEN family ELSE family + 1
    /\ UNCHANGED <<job, plan, batch, rows, unique, states, cancelled>>

\* The owner of the token, at any time.
Cancel ==
    /\ ~cancelled
    /\ job.cancellable
    /\ pc \notin {"done", "failed"}
    /\ cancelled' = TRUE
    /\ UNCHANGED <<job, pc, plan, batch, rows, family, unique, states, report, err>>

Init ==
    /\ job \in Jobs
    /\ pc = "parse" /\ err = Ok /\ cancelled = FALSE
    /\ plan = NoPlan /\ report = NoReport
    /\ batch = 1 /\ rows = 0 /\ family = 1
    /\ unique = <<>> /\ states = [f \in Families |-> <<>>]

Next ==
    \/ Parse \/ Compile \/ Open
    \/ ReadBatch \/ ScanColumns \/ ScanRows \/ UpdateFamily
    \/ FinishUnique \/ CloseFamily
    \/ Cancel

Spec == Init /\ [][Next]_vars
-----------------------------------------------------------------------------
(* Properties *)

Table == FlattenSeq([i \in DOMAIN job.batches |-> job.batches[i].rows])
Violated == Violations(plan, job.types, Table)
DisputedHere == Disputed(plan, job.types, Table)
Scanning == pc \in {"read", "columns", "rows", "update"}

\* The states have a place for every rule of the plan, the findings fit into the
\* report and into memory, and the position is one of a family (execution/mod.rs,
\* lib.rs ValidationState).
TypeOK ==
    /\ job \in Jobs
    /\ pc \in {"parse", "compile", "open", "read", "columns", "rows", "update",
               "finish_unique", "close", "done", "failed"}
    /\ (pc = "failed") = (err # Ok)
    /\ family \in 1..Len(UpdateOrder)
    /\ batch \in 1..Len(job.batches) + 1
    /\ Len(report.findings) <= Min({report.violations, FindingLimit, FindingRoom})
    /\ Scanning => /\ Len(unique) = Len(plan.columns)
                   /\ \A f \in Families : Len(states[f]) = Len(plan.dataset[f])

\* The report of a finished execution has the number of violations that the rules
\* have on the whole table, whatever the batches were: states carried over batch
\* boundaries, rules that count only at the end, duplicates beyond the samples and
\* findings beyond the limit all count once (execution/mod.rs, dataset_state.rs).
\* The meaning is that of the documents; a table with a verdict on which the code
\* departs from them is left to ValidMeansHeld.
\* evaluated_columns tells how many values each column plan was offered: the
\* non-null ones of all batches (scan_reader, "A rule that never saw a value did
\* not pass; it was never asked", execution/mod.rs:367).
ReportIsExact ==
    pc = "done" =>
        /\ DisputedHere = {} => report.violations = Cardinality(Violated)
        /\ Len(report.findings) = Min({FindingLimit, report.violations})
        /\ report.evaluated =
            [i \in DOMAIN plan.columns |-> Cardinality(Present(Table, plan.columns[i].column))]

\* Every finding that was recorded is one of the table: its row is a row of the
\* whole dataset, not of a batch, that breaks the rule, and no violation is listed
\* twice (row_offset in kernels.rs, row_kernels.rs and dataset_state.rs).  An
\* execution that failed later recorded nothing else either.
FindingsAreReal ==
    pc \in {"done", "failed"} =>
        \A f \in {f \in Range(report.findings) : <<f.rule, f.column>> \notin DisputedHere} :
            Cardinality({i \in DOMAIN report.findings : report.findings[i] = f})
                <= Cardinality({v \in Violated : v.finding = f})

\* What each error of an execution says of its job.
Overflows ==
    \E i \in DOMAIN plan.dataset.sum :
        LET rule == plan.dataset.sum[i]
        IN /\ job.types[rule.column] # "float"
           /\ \E p \in Prefixes(PresentValues(Table, rule.column)) : Sum(p) \notin -TotalMax - 1..TotalMax
TooManyValues ==
    \E i \in DOMAIN plan.dataset.dominant :
        Cardinality({row[plan.dataset.dominant[i].column] : row \in Range(Table)}) > Budget
TooManyFindings == FindingRoom < FindingLimit /\ Cardinality(Violated) > FindingRoom

\* The column of a rule has a type the scan has no form for.
Unsupported ==
    LET of(f) == Range(plan.dataset[f])
        untyped(c, kinds) == job.types[c] \notin kinds /\ Present(Table, c) # {}
    IN \/ \E r \in of("distinct") \cup of("dominant") : untyped(r.column, ScalarTypes)
       \/ \E r \in of("monotonicity") : untyped(r.column, ScalarTypes \ {"binary"})
       \/ \E r \in of("composite") \cup of("conditional") : \E c \in Range(r.columns) : untyped(c, ScalarTypes)
       \/ \E r \in Range(plan.rows) : ~IsCompare(r) /\ untyped(r.column, ScalarTypes \ {"binary"})

\* An execution fails only for the reason its error gives, and does not finish when
\* a total left its range or the map of frequencies its budget: no total wraps, no
\* share is an estimate (total.rs:8, total.rs:276), no finding is dropped for want
\* of memory (reserve_finding, lib.rs).
ErrorsAreTrue ==
    /\ pc = "done" => ~Overflows /\ ~TooManyValues /\ ~TooManyFindings
    /\ err = "overflow" => Overflows
    /\ err = "dominant_value_map" => TooManyValues
    /\ err = "memory_limit" => TooManyFindings
    /\ err = "unsupported_type" /\ plan # NoPlan => Unsupported
    /\ err = "cancelled" => cancelled
    /\ err \in {"unreadable", "schema_mismatch"} =>
            job.reader # job.types \/ \E b \in Range(job.batches) : b.kind = err

\* A plan is one that the kernels are made for: the `unreachable!` of the bounds and
\* of literal-only comparisons (kernels.rs:601, row_kernels.rs:121), the downcasts
\* and the pairing of totals with their bounds cannot be reached, because every
\* column is there, every bound is of its column's type and both operands of a
\* comparison have one type.
BoundsTyped(type, r) ==
    /\ \A b \in r.min \cup r.max : type \in BoundTypes /\ Representable(type, b)
    /\ r.pattern \cup r.allowed # {} => type = "text"
PredicateTyped(p) ==
    /\ {o \in {p.left, p.right} : IsColumn(o)} # {}
    /\ \A o \in {p.left, p.right} : IsColumn(o) => o.column \in DOMAIN job.types
    /\ Cardinality(OperandType(job.types, p.left) \cup OperandType(job.types, p.right)) = 1
    /\ \A o \in {p.left, p.right} : ~IsColumn(o) =>
            \A type \in OperandType(job.types, p.left) \cup OperandType(job.types, p.right) : LiteralFits(type, o.literal)
NumericColumns(rules) == \A r \in Range(rules) : job.types[r.column] \in NumericTypes
PlanIsTyped ==
    /\ TypeOK
    /\ Scanning =>
        /\ \A entry \in Range(plan.columns) : BoundsTyped(job.types[entry.column], entry.rules)
        /\ \A rule \in Range(plan.rows) :
               IF IsCompare(rule) THEN PredicateTyped(rule.compare)
               ELSE PredicateTyped(rule.when) /\ BoundsTyped(job.types[rule.column], rule.rules)
        /\ \A rule \in Range(plan.dataset.conditional) : PredicateTyped(rule.when)
        /\ NumericColumns(plan.dataset.sum) /\ NumericColumns(plan.dataset.statistic)
        /\ \A rule \in Range(plan.dataset.balance) : {job.types[rule.left], job.types[rule.right]} \subseteq NumericTypes
        /\ \A rule \in Range(plan.dataset.gap) : job.types[rule.column] \in BoundTypes \ {"decimal"}

-----------------------------------------------------------------------------
(* What the documents say of a valid report and the code does not keep *)

\* "A numeric total must stay inside declared bounds" (CHANGELOG.md:115).  The code
\* accepts a total that its compensation term has turned into NaN (Neumaier::add and
\* outside, total.rs:171).
TotalsInside == \A rule \in Range(plan.dataset.sum) : ~SumBroken(rule, Table)

\* "Exact distinct non-null count" (docs/contracts.md:106).  The code adds one for a
\* null (DatasetState::finish, dataset_state.rs:660).
DistinctInside ==
    \A rule \in Range(plan.dataset.distinct) :
        \A range \in rule.count : ~CountBroken(range, DistinctValues(Table, rule.column))

\* "The totals themselves are still counted the way `sum` counts them"
\* (CHANGELOG.md:134).  The code adds integers as floats, which those beyond 2^53 are
\* not (BalanceState, dataset_state.rs:220; Total::add_integer, total.rs:54).
BalancesEqual == \A rule \in Range(plan.dataset.balance) : ~BalanceBroken(rule, Table)

\* "Require consecutive values to stay within one step of each other"
\* (contract/v2.rs:240), but for max_gaps of them.  The code measures a step with its
\* sign, so that no step down is long (distance, ordering.rs:158).
StepsWithinReach ==
    \A rule \in Range(plan.dataset.gap) : Cardinality(LongSteps(rule, Table)) <= rule.max_gaps

\* What a report calls valid has its totals, its distinct counts, its balances and its
\* steps as the documents define them (DatasetState::finish).
ValidMeansHeld ==
    pc = "done" /\ report.violations = 0 =>
        TotalsInside /\ DistinctInside /\ BalancesEqual /\ StepsWithinReach
=============================================================================
