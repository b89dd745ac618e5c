------------------------------- MODULE Evidence -------------------------------
(***************************************************************************)
(* What is claimed about a check: the report of an execution, the evidence *)
(* that binds it to a dataset, a contract and a plan (evidence/mod.rs,     *)
(* python.rs), and the manifest of ordered partitions                      *)
(* (evidence/partition.rs, execution/partition.rs).                        *)
(*                                                                         *)
(* A dataset is its column names and its partitions; a partition is a      *)
(* sequence of batches, a batch of rows, a row of cells.  The cell "bad"   *)
(* violates the rule of its column, if the contract has one, and "null" is *)
(* not offered to it.  A digest is its tag with the value it was taken of. *)
(* Module Execution models how a report comes about; here it is what the   *)
(* report says that matters, and memory is one unit per row.               *)
(***************************************************************************)
EXTENDS Integers, Sequences, SequencesExt, FiniteSetsExt

Digest(tag, value) == [tag |-> tag, of |-> value]

RowsOf(batches) == FlattenSeq(batches)
AllRows(data) == RowsOf(FlattenSeq(data.parts))

\* The fingerprint of a scan: schema and rows in their order, however they are cut into
\* batches.
Fingerprint(columns, rows) ==
    [version |-> 2, rows |-> Len(rows), digest |-> Digest("fingerprint", <<columns, rows>>)]

SchemaDigest(columns) == Digest("schema", columns)
SourceDigest(contract) == Digest("contract", contract)
PlanDigest(contract, columns) == Digest("plan", <<contract, columns>>)

\* The columns that have a rule, in the order of the schema.
PlanColumns(contract, columns) ==
    FlattenSeq([i \in DOMAIN columns |-> IF columns[i] \in contract.columns THEN <<i>> ELSE <<>>])

\* A contract compiles against a schema that has all its columns.
Compiles(contract, columns) == contract.columns \subseteq Range(columns)

BadCells(rows, column) ==
    FlattenSeq([r \in DOMAIN rows |->
        IF rows[r][column] = "bad" THEN <<[row |-> r - 1, column |-> column]>> ELSE <<>>])

Offered(rows, column) == Cardinality({r \in DOMAIN rows : rows[r][column] # "null"})

\* build_report, with the contract_source_digest its callers insert: all violations are
\* counted, the first max_samples are retained.
Report(columns, rows, contract, samples) ==
    LET plan == PlanColumns(contract, columns)
        found == FlattenSeq([i \in DOMAIN plan |-> BadCells(rows, plan[i])])
        kept == SubSeq(found, 1, Min({samples, Len(found)}))
    IN [valid |-> found = <<>>,
        violation_count |-> Len(found),
        truncated |-> Len(found) > Len(kept),
        findings |-> kept,
        evaluated_indices |-> plan,
        evaluated_columns |-> [i \in DOMAIN plan |-> Offered(rows, plan[i])],
        rows |-> Len(rows),
        metrics |-> Len(rows),
        resources |-> [max_samples |-> samples],
        schema_digest |-> SchemaDigest(columns),
        compiled_plan_digest |-> PlanDigest(contract, columns),
        contract_source_digest |-> SourceDigest(contract)]

-----------------------------------------------------------------------------

ResultDigest(report) ==
    Digest("result", [valid |-> report.valid, violation_count |-> report.violation_count,
                      truncated |-> report.truncated, output_records |-> Len(report.findings)])
ReportDigest(report) == Digest("report", report)
FindingsDigest(report) == Digest("findings", report.findings)
MetricsDigest(report) == Digest("metrics", report.metrics)

\* The evidence envelope, before it is validated.
Envelope(report, fingerprint) ==
    [dataset |-> fingerprint,
     contract_source_digest |-> report.contract_source_digest,
     compiled_plan_digest |-> report.compiled_plan_digest,
     schema_digest |-> report.schema_digest,
     operation |-> "check",
     resources |-> report.resources,
     result |-> [valid |-> report.valid,
                 violation_count |-> report.violation_count,
                 output_records |-> Len(report.findings),
                 truncated |-> report.truncated,
                 result_digest |-> ResultDigest(report),
                 report_digest |-> ReportDigest(report),
                 findings_digest |-> FindingsDigest(report),
                 metrics_digest |-> MetricsDigest(report)]]

\* Mutant: at least one sample of the limit has to stay free.
ConsistentBelowLimit(e) ==
    /\ e.dataset.version = 2
    /\ e.operation = "check"
    /\ e.result.valid <=> e.result.violation_count = 0
    /\ e.result.output_records <= e.result.violation_count
    /\ e.result.output_records < e.resources.max_samples
    /\ e.result.truncated <=> e.result.output_records < e.result.violation_count

\* EvidenceV2::validate.  Every digest of the model carries its tag.
Consistent(e) ==
    /\ e.dataset.version = 2
    /\ e.operation = "check"
    /\ e.result.valid <=> e.result.violation_count = 0
    /\ e.result.output_records <= e.result.violation_count
    /\ e.result.output_records <= e.resources.max_samples
    /\ e.result.truncated <=> e.result.output_records < e.result.violation_count

EvidenceDigest(e) == Digest("evidence", e)

\* assemble_evidence_unchecked: a report that the caller brings is bound to a fresh
\* fingerprint.  The row count and the three digests have to agree, the data need not.
MayAssemble(report, data, contract) ==
    /\ Compiles(contract, data.columns)
    /\ report.rows = Len(AllRows(data))
    /\ report.contract_source_digest = SourceDigest(contract)
    /\ report.compiled_plan_digest = PlanDigest(contract, data.columns)
    /\ report.schema_digest = SchemaDigest(data.columns)

-----------------------------------------------------------------------------

\* FingerprintedPartitionSequence: one state per partition, finished when its reader is
\* exhausted, whether or not it had a batch.
PartFingerprints(data) ==
    [i \in DOMAIN data.parts |-> Fingerprint(data.columns, RowsOf(data.parts[i]))]

PartResultDigest(index, fingerprint, report) ==
    Digest("partition_result",
           <<index, fingerprint, report.schema_digest, report.contract_source_digest,
             report.compiled_plan_digest>>)

RootDigest(manifest) ==
    Digest("root", <<manifest.partitions, manifest.global_result_digest, manifest.resources>>)

\* PartitionManifestV1::validate_body.
BodyHolds(manifest) ==
    /\ manifest.partitions # <<>>
    /\ \A i \in DOMAIN manifest.partitions :
        LET part == manifest.partitions[i]
            first == manifest.partitions[1]
        IN /\ part.index = i - 1
           /\ part.fingerprint.version = 2
           /\ part.schema_digest = first.schema_digest
           /\ part.contract_source_digest = first.contract_source_digest
           /\ part.compiled_plan_digest = first.compiled_plan_digest

\* PartitionManifestV1::validate.
ManifestHolds(manifest) == BodyHolds(manifest) /\ manifest.root_digest = RootDigest(manifest)

\* The manifest of a check over ordered partitions: one entry per partition, in order.
Manifest(report, fingerprints) ==
    LET body == [partitions |-> [i \in DOMAIN fingerprints |->
                    [index |-> i - 1,
                     fingerprint |-> fingerprints[i],
                     schema_digest |-> report.schema_digest,
                     contract_source_digest |-> report.contract_source_digest,
                     compiled_plan_digest |-> report.compiled_plan_digest,
                     result_digest |-> PartResultDigest(i - 1, fingerprints[i], report)]],
                 global_result_digest |-> ResultDigest(report),
                 resources |-> report.resources]
    IN [partitions |-> body.partitions,
        global_result_digest |-> body.global_result_digest,
        resources |-> body.resources,
        root_digest |-> RootDigest(body)]

=============================================================================
