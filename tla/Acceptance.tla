------------------------------ MODULE Acceptance ------------------------------
(***************************************************************************)
(* The acceptance decision and its bundle (python/proofframe/acceptance.py) *)
(* as operators: what accept_file decides from a scan, what it binds, and   *)
(* what verify_acceptance concludes from a bundle that it is given.         *)
(* Publishing the bundle is module Publication.                             *)
(*                                                                          *)
(* A JSON value that is missing, null or of another shape than the producer *)
(* writes is a model value of its own.                                      *)
(***************************************************************************)
EXTENDS Evidence

CONSTANTS
    Null,       \* JSON null
    Absent,     \* the field is not there
    Odd         \* a value of a shape that the producer never writes

\* A policy allows max_violations and asks columns by name for a minimum of values.

\* Mutant: a column that was not evaluated counts as one with no values.
DecideByCount(report, names, policy) ==
    LET plan == report.evaluated_indices
        evaluated == {<<names[plan[i]], report.evaluated_columns[i]>> : i \in DOMAIN plan}
        missed == {m \in policy.minimum_evaluated :
                    m[2] > 0 /\ ~\E e \in evaluated : e[1] = m[1] /\ e[2] >= m[2]}
        exceeded == report.violation_count > policy.max_violations
    IN [status |-> IF exceeded \/ missed # {} THEN "rejected" ELSE "accepted",
        reasons |-> <<exceeded, missed>>,
        evaluated |-> evaluated]

\* _decide: the reasons are whether violations exceed the limit, and the minimums missed.
Decide(report, names, policy) ==
    LET plan == report.evaluated_indices
        evaluated == {<<names[plan[i]], report.evaluated_columns[i]>> : i \in DOMAIN plan}
        missed == {m \in policy.minimum_evaluated :
                    ~\E e \in evaluated : e[1] = m[1] /\ e[2] >= m[2]}
        exceeded == report.violation_count > policy.max_violations
    IN [status |-> IF exceeded \/ missed # {} THEN "rejected" ELSE "accepted",
        reasons |-> <<exceeded, missed>>,
        evaluated |-> evaluated]

Unknown == [status |-> "unknown", reasons |-> <<FALSE, {}>>, evaluated |-> {}]

\* _scan: a file that cannot be read or a contract that does not fit its schema is the
\* decision `unknown`.  Ambiguous column names are raised, and no bundle is made.
Raises(data) == data.readable /\ Cardinality(Range(data.columns)) # Len(data.columns)
ScanCompletes(data, contract) == data.readable /\ Compiles(contract, data.columns)

\* The payload of accept_file.
Payload(data, contract, policy, samples) ==
    LET report == Report(data.columns, AllRows(data), contract, samples)
        complete == ScanCompletes(data, contract)
        settings == data.format
    IN [version |-> "acceptance_v1",
        contract |-> contract,
        contract_id |-> Digest("sha256", contract),
        policy |-> policy,
        policy_id |-> Digest("sha256", policy),
        read_settings |-> settings,
        read_settings_id |-> Digest("sha256", settings),
        decision |-> IF complete THEN Decide(report, data.columns, policy) ELSE Unknown,
        report |-> IF complete THEN report ELSE Null,
        evidence |-> IF complete
                       THEN Envelope(report, Fingerprint(data.columns, AllRows(data)))
                       ELSE Null]

\* The bundle: the payload, its digest, and a signature of it when a key was given.
Bundle(payload, key) ==
    [kind |-> "bundle",
     unsigned |-> payload,
     hash |-> Digest("sha256", payload),
     public_key |-> key,
     signature |-> IF key = Null THEN Null ELSE [key |-> key, message |-> payload]]

\* _well_formed: every field is there with the shape it is written in, and the scan is
\* there exactly when the decision says that it completed.
WellFormed(payload) ==
    /\ \A f \in DOMAIN payload : payload[f] # Absent
    /\ payload.decision # Odd
    /\ IF payload.decision.status = "unknown"
         THEN payload.report = Null /\ payload.evidence = Null
         ELSE {payload.report, payload.evidence} \cap {Null, Odd} = {}
    /\ {payload.contract, payload.policy, payload.read_settings} \cap {Null, Odd} = {}

\* verify_acceptance, with the key the reader pins, or Null.
VerifyAcceptance(bundle, expected) ==
    LET payload == bundle.unsigned
        signed == bundle.signature # Null
        verifies == signed => bundle.signature = [key |-> bundle.public_key, message |-> payload]
        intact == /\ WellFormed(payload)
                  /\ payload.version = "acceptance_v1"
                  /\ bundle.hash = Digest("sha256", payload)
                  /\ payload.contract_id = Digest("sha256", payload.contract)
                  /\ payload.policy_id = Digest("sha256", payload.policy)
                  /\ payload.read_settings_id = Digest("sha256", payload.read_settings)
                  /\ verifies
    IN [intact |-> intact,
        valid |-> intact /\ signed /\ expected # Null /\ expected = bundle.public_key]

=============================================================================
