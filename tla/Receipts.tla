------------------------------- MODULE Receipts -------------------------------
(***************************************************************************)
(* The life of a signed claim about a dataset: a check makes evidence or a *)
(* manifest, a key signs it (receipt.rs) or accept_file bundles and signs  *)
(* a decision, the artefact is stored, parts of it may be altered or mixed *)
(* with those of another one, and somebody verifies it under a trust       *)
(* policy (receipt/trust.rs).                                              *)
(*                                                                         *)
(* A signature is the key and the message that was signed, a digest the    *)
(* value it was taken of: neither is ever forged or met by accident.  The  *)
(* encoding of keys and signatures and the canonical form of JSON are left *)
(* out, and integers are within the range that JSON numbers keep.          *)
(***************************************************************************)
EXTENDS Acceptance

CONSTANTS
    Datasets,       \* what the files may hold
    Contracts,
    Policies,       \* acceptance policies
    Samples,        \* values of max_samples
    OurKey,         \* the key that the producer signs with
    OtherKey,       \* a key of somebody else
    MaxIssued,      \* bound on the artefacts made
    MaxEdits        \* bound on the altered fields

RowsIn(d) == UNION {Range(batch) : batch \in UNION {Range(part) : part \in Range(d.parts)}}

ASSUME ReceiptsAssumption ==
    /\ OurKey # OtherKey /\ Null \notin {OurKey, OtherKey}
    /\ Samples \subseteq Nat /\ Samples # {}
    /\ {MaxIssued, MaxEdits} \subseteq Nat
    /\ \A d \in Datasets :
        d.columns \in Seq(Range(d.columns)) /\ d.parts \in Seq(Seq(Seq(RowsIn(d))))
    /\ \A policy \in Policies : policy.max_violations \in Nat

\* Null, Absent and Odd stand for no value that the producer writes.
ASSUME MarkersAssumption ==
    \A d \in Datasets, contract \in Contracts, samples \in Samples :
        LET report == Report(d.columns, AllRows(d), contract, samples)
        IN /\ Null \notin {report, contract, d.format}
           /\ Null # Envelope(report, Fingerprint(d.columns, AllRows(d)))
           /\ Null # Manifest(report, PartFingerprints(d))
           /\ \A policy \in Policies :
                LET payload == Payload(d, contract, policy, samples)
                IN /\ Null # policy
                   /\ \A f \in DOMAIN payload : payload[f] \notin {Absent, Odd}

VARIABLES
    data,       \* what the files hold now
    work,       \* the last check: its report and what it claims
    issued,     \* the artefacts made with OurKey, with how and of which data
    copy,       \* the artefact that the reader has
    edits       \* fields altered in it

vars == <<data, work, issued, copy, edits>>

NoWork == [how |-> "none", data |-> Null, contract |-> Null, report |-> Null,
           evidence |-> Null, manifest |-> Null]

\* How each kind of receipt names what it carries and the digest of that.
ContentOf == [v1 |-> "report", v2 |-> "evidence", partition |-> "manifest"]
DigestOf(kind, content) ==
    CASE kind = "v1" -> Digest("report", content)
      [] kind = "v2" -> EvidenceDigest(content)
      [] kind = "partition" -> RootDigest(content)

Init ==
    /\ data \in Datasets
    /\ work = NoWork
    /\ issued = {}
    /\ copy = Null
    /\ edits = 0

-----------------------------------------------------------------------------

\* The files are rewritten by somebody else.
Rewrite ==
    /\ copy = Null
    /\ Cardinality(issued) < MaxIssued
    /\ data' \in Datasets \ {data}
    /\ UNCHANGED <<work, issued, copy, edits>>

Readable == data.readable /\ Cardinality(Range(data.columns)) = Len(data.columns)

\* Mutant: the dataset is fingerprinted in a second scan, after the check.
CheckThenFingerprint ==
    /\ copy = Null
    /\ \E contract \in Contracts, samples \in Samples, later \in Datasets :
        /\ Readable
        /\ Compiles(contract, data.columns)
        /\ data' = later
        /\ LET report == Report(data.columns, AllRows(data), contract, samples)
               evidence == Envelope(report, Fingerprint(later.columns, AllRows(later)))
           IN work' = [NoWork EXCEPT !.how = "check", !.data = data, !.contract = contract,
                        !.report = report,
                        !.evidence = IF Consistent(evidence) THEN evidence ELSE Null]
    /\ UNCHANGED <<issued, copy, edits>>

\* check_with_evidence: one scan gives the report and the fingerprint; the evidence is
\* validated before it is returned.
Check ==
    /\ copy = Null
    /\ \E contract \in Contracts, samples \in Samples :
        /\ Readable
        /\ Compiles(contract, data.columns)
        /\ LET report == Report(data.columns, AllRows(data), contract, samples)
               evidence == Envelope(report, Fingerprint(data.columns, AllRows(data)))
           IN work' = [NoWork EXCEPT !.how = "check", !.data = data, !.contract = contract,
                        !.report = report,
                        !.evidence = IF Consistent(evidence) THEN evidence ELSE Null]
    /\ UNCHANGED <<data, issued, copy, edits>>

\* check_partitions with evidence: the partitions are read in order by one execution.
CheckPartitions ==
    /\ copy = Null
    /\ \E contract \in Contracts, samples \in Samples :
        /\ Readable
        /\ Compiles(contract, data.columns)
        /\ data.parts # <<>>
        /\ LET report == Report(data.columns, AllRows(data), contract, samples)
               manifest == Manifest(report, PartFingerprints(data))
           IN work' = [NoWork EXCEPT !.how = "partitions", !.data = data, !.contract = contract,
                        !.report = report,
                        !.manifest = IF BodyHolds(manifest) THEN manifest ELSE Null]
    /\ UNCHANGED <<data, issued, copy, edits>>

\* assemble_evidence_unchecked: evidence for the report at hand, from the files as they
\* are now.
Assemble ==
    /\ copy = Null
    /\ work.how = "check"
    /\ Readable
    /\ LET evidence == Envelope(work.report, Fingerprint(data.columns, AllRows(data)))
       IN /\ MayAssemble(work.report, data, work.contract)
          /\ Consistent(evidence)
          /\ work' = [work EXCEPT !.how = "assembled", !.evidence = evidence]
    /\ UNCHANGED <<data, issued, copy, edits>>

-----------------------------------------------------------------------------

\* v2_message, partition_message: the domain and the unsigned receipt; a V1 receipt signs
\* itself without a domain.
Message(kind, unsigned) == <<kind, unsigned>>

Unsigned(kind, content, time, key) ==
    [issued_at |-> time, hash |-> DigestOf(kind, content), content |-> content, public_key |-> key]

\* Mutant: the clock is read once for the receipt and once for the message.
ReceiptAtTwoTimes(kind, content, time, key) ==
    [kind |-> kind, unsigned |-> Unsigned(kind, content, time, key),
     signature |-> [key |-> key, message |-> Message(kind, Unsigned(kind, content, time + 1, key))]]

\* sign_json, sign_v2, sign_partition_manifest: the receipt that a key makes of a content.
Receipt(kind, content, time, key) ==
    LET unsigned == Unsigned(kind, content, time, key)
    IN [kind |-> kind, unsigned |-> unsigned,
        signature |-> [key |-> key, message |-> Message(kind, unsigned)]]

\* The artefacts at hand are of one kind (bound): only those can be mixed.
Issue(artefact, how, source) ==
    /\ \A entry \in issued : entry.artefact.kind = artefact.kind
    /\ issued' = issued \cup {[artefact |-> artefact, how |-> how, data |-> source]}

\* sign_json, sign_v2 and sign_partition_manifest, on what the last check made.  The last
\* two validate it once more.
Sign ==
    /\ copy = Null
    /\ Cardinality(issued) < MaxIssued
    /\ \E kind \in DOMAIN ContentOf :
        LET content == work[ContentOf[kind]]
        IN /\ content # Null
           /\ kind = "v2" => Consistent(content)
           /\ kind = "partition" => ManifestHolds(content)
           /\ Issue(Receipt(kind, content, Cardinality(issued), OurKey), work.how, work.data)
    /\ work' = NoWork
    /\ UNCHANGED <<data, copy, edits>>

\* accept_file, with a key or without one.
Accept ==
    /\ copy = Null
    /\ Cardinality(issued) < MaxIssued
    /\ ~Raises(data)
    /\ \E contract \in Contracts, policy \in Policies, key \in {OurKey, Null} :
        Issue(Bundle(Payload(data, contract, policy, Min(Samples)), key), "accept", data)
    /\ work' = NoWork
    /\ UNCHANGED <<data, copy, edits>>

\* The reader gets one of the artefacts; what the producer does then no longer matters.
Fetch ==
    /\ copy = Null
    /\ \E entry \in issued : copy' = entry.artefact
    /\ work' = NoWork
    /\ UNCHANGED <<data, issued, edits>>

-----------------------------------------------------------------------------

\* r with one field taken from s.
Swapped(r, s) == {[r EXCEPT ![f] = s[f]] : f \in DOMAIN r}

\* What one alteration may make of an artefact, with another artefact of its kind at hand:
\* a field at any level is taken from the other one, or a field of a bundle is dropped or
\* replaced by something else.
Altered(a, b) ==
    Swapped(a, b)
    \cup {[a EXCEPT !.unsigned = u] : u \in Swapped(a.unsigned, b.unsigned)}
    \cup IF a.kind = "bundle"
           THEN {[a EXCEPT !.unsigned[f] = x] : f \in DOMAIN a.unsigned, x \in {Absent, Odd}}
           ELSE {[a EXCEPT !.unsigned.content = c] : c \in Swapped(a.unsigned.content, b.unsigned.content)}
    \cup IF a.kind = "v2"
           THEN {[a EXCEPT !.unsigned.content.result = r] :
                    r \in Swapped(a.unsigned.content.result, b.unsigned.content.result)}
           ELSE {}

\* The digests are taken again, of what the artefact now says.
Rehashed(a) ==
    IF a.kind = "bundle" THEN [a EXCEPT !.hash = Digest("sha256", a.unsigned)]
    ELSE [a EXCEPT !.unsigned.hash = DigestOf(a.kind, a.unsigned.content)]

\* Somebody else signs what it now says.
Resigned(a) ==
    IF a.kind = "bundle"
      THEN [a EXCEPT !.public_key = OtherKey, !.signature = [key |-> OtherKey, message |-> a.unsigned]]
      ELSE Receipt(a.kind, a.unsigned.content, a.unsigned.issued_at, OtherKey)

\* The copy is altered.
Alter ==
    /\ copy # Null
    /\ edits < MaxEdits
    /\ \E entry \in issued : copy' \in Altered(copy, entry.artefact) \ {copy}
    /\ edits' = edits + 1
    /\ UNCHANGED <<data, work, issued>>

\* The copy is sealed again, as it is now.
Reseal ==
    /\ copy # Null
    /\ copy' \in {Rehashed(copy), Resigned(copy)}
    /\ UNCHANGED <<data, work, issued, edits>>

Next == Rewrite \/ Check \/ CheckPartitions \/ Assemble \/ Sign \/ Accept \/ Fetch \/ Alter
        \/ Reseal

Spec == Init /\ [][Next]_vars

-----------------------------------------------------------------------------

\* SignatureOnly, ExpectedKey and TrustStore, as the set of keys that each accepts.
TrustPolicies == {"signature_only"} \X {{}} \cup {"expected_key"} \X {{OurKey}, {OtherKey}}
                 \cup {"trust_store"} \X {{}, {OurKey}}

\* Mutant: without a pinned key every signer is trusted (before 0.7.2).
AcceptsAnySigner(policy, key) == policy[1] = "signature_only" \/ key \in policy[2]

\* TrustPolicy::accepts.
Accepts(policy, key) == policy[1] # "signature_only" /\ key \in policy[2]

\* verify_v2, verify_partition_manifest_receipt and verify_json_with_policy.
Verification(receipt, policy) ==
    LET unsigned == receipt.unsigned
        schema_supported == CASE receipt.kind = "v1" -> TRUE
                              [] receipt.kind = "v2" -> Consistent(unsigned.content)
                              [] receipt.kind = "partition" -> ManifestHolds(unsigned.content)
        hash_matches == unsigned.hash = DigestOf(receipt.kind, unsigned.content)
        signature_valid == receipt.signature =
            [key |-> unsigned.public_key, message |-> Message(receipt.kind, unsigned)]
        intact == schema_supported /\ hash_matches /\ signature_valid
    IN [intact |-> intact, valid |-> intact /\ Accepts(policy, unsigned.public_key)]

\* The verdict on the reader's copy.  verify_acceptance takes one key or none.
Verdict(policy) ==
    IF copy.kind = "bundle"
      THEN VerifyAcceptance(copy, IF policy[2] = {} THEN Null ELSE CHOOSE k \in policy[2] : TRUE)
      ELSE Verification(copy, policy)

Trusting == {policy \in TrustPolicies : policy[2] = {OurKey}}
Valid == copy # Null /\ \E policy \in Trusting : Verdict(policy).valid
Entry == CHOOSE entry \in issued : entry.artefact = copy

-----------------------------------------------------------------------------

\* At most MaxIssued artefacts and MaxEdits alterations; a report never retains more
\* findings than max_samples.
TypeOK ==
    /\ data \in Datasets
    /\ work.how \in {"none", "check", "partitions", "assembled"}
    /\ work.how # "none" => Len(work.report.findings) <= work.report.resources.max_samples
    /\ Cardinality(issued) <= MaxIssued
    /\ edits \in 0..MaxEdits

\* Every report that a check can make passes the validation of its own evidence and
\* manifest: truncated, empty, or with no sample at all.
EvidenceIsAccepted ==
    /\ TypeOK
    /\ work.how = "check" => work.evidence # Null
    /\ work.how = "partitions" => work.manifest # Null /\ ManifestHolds(work.manifest)

\* An artefact that nobody touched is intact, and valid for exactly the readers who trust
\* the key it was signed with; an unsigned bundle is valid for nobody.
IssuedVerifies ==
    copy # Null /\ (\E entry \in issued : entry.artefact = copy) =>
        \A policy \in TrustPolicies :
            LET signed == copy.kind = "bundle" => copy.signature # Null
            IN /\ Verdict(policy).intact
               /\ Verdict(policy).valid <=> signed /\ policy[2] = {OurKey}

\* What verifies for a reader is, in every field, an artefact that a key of that reader's
\* signed: no mixture of two of them, and nothing under a policy that trusts nobody.
ValidMeansIssued ==
    copy # Null =>
        \A policy \in TrustPolicies :
            /\ Verdict(policy).valid /\ policy[2] = {OurKey}
                    => \E entry \in issued : entry.artefact = copy
            /\ Verdict(policy).valid => policy[2] # {}

\* A valid receipt or bundle is about one scan: the fingerprint and all counts and digests
\* are of the same data, although the files may have changed before it was signed.  Of
\* evidence assembled without a check only the number of rows and the plan are known.
\* A valid manifest lists the partitions of the checked data in their order, the empty
\* ones too, none left out and none twice.
OneScan ==
    /\ Valid /\ copy.kind \in {"v2", "bundle"} =>
        LET source == Entry.data
            evidence == IF copy.kind = "v2" THEN copy.unsigned.content ELSE copy.unsigned.evidence
            report == evidence.result.report_digest.of
        IN evidence # Null =>
            /\ Entry.how # "assembled"
                    => evidence.dataset = Fingerprint(source.columns, AllRows(source))
            /\ evidence.dataset.rows = report.rows
            /\ report.rows = Len(AllRows(source))
            /\ evidence.result.violation_count = report.violation_count
            /\ copy.kind = "bundle" => copy.unsigned.report = report
    /\ Valid /\ copy.kind = "partition" =>
        LET source == Entry.data
            listed == copy.unsigned.content.partitions
        IN /\ Len(listed) = Len(source.parts)
           /\ \A i \in DOMAIN listed :
                listed[i].fingerprint = Fingerprint(source.columns, RowsOf(source.parts[i]))
           /\ FlattenSeq([i \in DOMAIN listed |-> listed[i].fingerprint.digest.of[2]]) = AllRows(source)

\* A valid bundle that says `accepted` means that the data met the policy: not more bad
\* cells than allowed, and every column the policy names is checked by the contract and
\* had enough values.  One that says `unknown` carries no scan.
AcceptedMeansPolicyMet ==
    Valid /\ copy.kind = "bundle" =>
        LET source == Entry.data
            payload == copy.unsigned
            rows == AllRows(source)
            cells == {p \in (DOMAIN rows) \X (DOMAIN source.columns) :
                        /\ rows[p[1]][p[2]] = "bad"
                        /\ source.columns[p[2]] \in payload.contract.columns}
        IN CASE payload.decision.status = "accepted" ->
                    /\ Cardinality(cells) <= payload.policy.max_violations
                    /\ \A m \in payload.policy.minimum_evaluated :
                        /\ m[1] \in payload.contract.columns
                        /\ \E c \in DOMAIN source.columns :
                            source.columns[c] = m[1] /\ Offered(rows, c) >= m[2]
             [] payload.decision.status = "unknown" ->
                    payload.report = Null /\ payload.evidence = Null
                    /\ ~ScanCompletes(source, payload.contract)
             [] OTHER -> ScanCompletes(source, payload.contract)

=============================================================================
