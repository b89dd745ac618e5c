-------------------------------- MODULE KeyMerge --------------------------------
(***************************************************************************)
(* The sorted merges that compare two exact states (distinct/run.rs):      *)
(* `intersect`, which leakage detection reports, and `anti_join`, which    *)
(* reference rules report.                                                 *)
(*                                                                         *)
(* Each side is a set of sorted runs.  UniqueMerge keeps one cursor per    *)
(* run and a heap with the record under each cursor, and yields every      *)
(* distinct value once with its lowest row.  The walk over the two merges  *)
(* holds one value of each side and advances the smaller.                  *)
(*                                                                         *)
(* The heap is the set of records under the live cursors, so that only the *)
(* cursors are state.  A run that a side does not have is an empty one.    *)
(* Opening the merges (checksums of the runs, memory for cursors and       *)
(* samples) and reading a record either succeed or end the operation;      *)
(* ExactState and ResourceAccount have the detail.                         *)
(***************************************************************************)
EXTENDS Integers, Sequences, FiniteSets

CONSTANTS
    Run,        \* the runs a side may have
    Value,      \* the key values
    Inputs,     \* the pairs of sides to explore
    MaxSamples  \* the samples asked for

Side == {"left", "right"}
Record == [value : Value, row : Nat]

\* The order of MergeEntry.
Precedes(a, b) == a.value < b.value \/ (a.value = b.value /\ a.row <= b.row)

\* A run file holds its records in this order.
Sorted(run) == \A i, j \in DOMAIN run : i <= j => Precedes(run[i], run[j])

ASSUME MergeAssumption ==
    /\ Value \subseteq Int
    /\ MaxSamples \in Nat
    /\ Inputs \subseteq [Side -> [Run -> Seq(Record)]]
    /\ \A input \in Inputs : \A s \in Side, r \in Run : Sorted(input[s][r])

\* A side has finitely many runs, and so finitely many keys.
ASSUME RunAssumption == IsFiniteSet(Run)

VARIABLES
    op,         \* the operation: "intersect" or "anti_join"
    runs,       \* the runs of both sides
    at,         \* the position of each cursor
    got,        \* what a side holds: "unread", "draining", "held" or "none"
    item,       \* the record a side yielded last
    want,       \* the sides whose next value the walk waits for
    distinct,   \* values yielded by each side
    found,      \* overlap or missing
    samples,    \* the first of them
    cancelled,  \* the cancellation token
    pc          \* "idle", "walk", and at the end "done", "refused" or "stopped"

vars == <<op, runs, at, got, item, want, distinct, found, samples, cancelled, pc>>
merge == <<at, got, item, distinct>>
answer == <<found, samples>>

-----------------------------------------------------------------------------
\* The runs of a side whose cursor holds a record in the heap, and that record.
Live(s) == {r \in Run : at[s][r] <= Len(runs[s][r])}
Under(s, r) == runs[s][r][at[s][r]]

\* The top of the heap of a side is the record of run r.
Top(s, r) == r \in Live(s) /\ \A q \in Live(s) : Precedes(Under(s, r), Under(s, q))

\* Take the record of run r from the heap and refill from the same run.
Advance(s, r) == at' = [at EXCEPT ![s][r] = @ + 1]

\* The side that is asked next: the left one before the right one.
Turn(s) == pc = "walk" /\ s \in want /\ (s = "right" => "left" \notin want)

Init ==
    /\ op \in {"intersect", "anti_join"}
    /\ runs \in Inputs
    /\ at = [s \in Side |-> [r \in Run |-> 1]]
    /\ got = [s \in Side |-> "unread"]
    /\ item = [s \in Side |-> [value |-> 0, row |-> 0]]
    /\ want = {}
    /\ distinct = [s \in Side |-> 0]
    /\ found = 0
    /\ samples = <<>>
    /\ cancelled = FALSE
    /\ pc = "idle"

\* Both merges are opened and their first values asked for.
Open ==
    /\ pc = "idle"
    /\ pc' = "walk"
    /\ want' = Side
    /\ UNCHANGED <<op, runs, merge, answer, cancelled>>

\* A run fails its checksum or cannot be read, or the account refuses the
\* cursors or the samples; a cursor may also fail to read its next record.
Fails ==
    /\ pc \in {"idle", "walk"}
    /\ pc' = "refused"
    /\ UNCHANGED <<op, runs, merge, want, answer, cancelled>>

\* Another thread requests cancellation.
Cancel ==
    /\ ~cancelled
    /\ cancelled' = TRUE
    /\ UNCHANGED <<op, runs, merge, want, answer, pc>>

-----------------------------------------------------------------------------
(* UniqueMerge::next_unique_with_row *)

\* The smallest record is popped; its copies are still to be drained.
Pop(s, r) ==
    /\ Turn(s) /\ ~cancelled /\ got[s] # "draining"
    /\ Top(s, r)
    /\ item' = [item EXCEPT ![s] = Under(s, r)]
    /\ got' = [got EXCEPT ![s] = "draining"]
    /\ Advance(s, r)
    /\ UNCHANGED <<op, runs, want, distinct, answer, cancelled, pc>>

\* Mutant: an exhausted side keeps the value it had.
PopStale(s) ==
    /\ Turn(s) /\ ~cancelled /\ got[s] # "draining"
    /\ Live(s) = {}
    /\ want' = want \ {s}
    /\ UNCHANGED <<op, runs, merge, answer, cancelled, pc>>

\* The heap is empty.
PopNone(s) ==
    /\ Turn(s) /\ ~cancelled /\ got[s] # "draining"
    /\ Live(s) = {}
    /\ got' = [got EXCEPT ![s] = "none"]
    /\ want' = want \ {s}
    /\ UNCHANGED <<op, runs, at, item, distinct, answer, cancelled, pc>>

\* Mutant: the yielded record is the last of its copies, not the first.
DrainTaking(s, r) ==
    /\ Turn(s) /\ got[s] = "draining"
    /\ Top(s, r) /\ Under(s, r).value = item[s].value
    /\ item' = [item EXCEPT ![s] = Under(s, r)]
    /\ Advance(s, r)
    /\ UNCHANGED <<op, runs, got, want, distinct, answer, cancelled, pc>>

\* A copy of the popped value is dropped.
Drain(s, r) ==
    /\ Turn(s) /\ got[s] = "draining"
    /\ Top(s, r) /\ Under(s, r).value = item[s].value
    /\ Advance(s, r)
    /\ UNCHANGED <<op, runs, got, item, want, distinct, answer, cancelled, pc>>

\* Mutant: a value is yielded while copies of it are still in the heap.
YieldAtOnce(s) ==
    /\ Turn(s) /\ got[s] = "draining"
    /\ got' = [got EXCEPT ![s] = "held"]
    /\ distinct' = [distinct EXCEPT ![s] = @ + 1]
    /\ want' = want \ {s}
    /\ UNCHANGED <<op, runs, at, item, answer, cancelled, pc>>

\* No copy is left: the value is returned and counted (next_counted).
Yield(s) ==
    /\ Turn(s) /\ got[s] = "draining"
    /\ \A r \in Live(s) : Top(s, r) => Under(s, r).value # item[s].value
    /\ got' = [got EXCEPT ![s] = "held"]
    /\ distinct' = [distinct EXCEPT ![s] = @ + 1]
    /\ want' = want \ {s}
    /\ UNCHANGED <<op, runs, at, item, answer, cancelled, pc>>

-----------------------------------------------------------------------------
(* The walk *)

Compare == pc = "walk" /\ want = {} /\ ~cancelled
Both == got["left"] = "held" /\ got["right"] = "held"

\* Both sides must hold a value for `intersect` to go on, the left one for `anti_join`.
Walking == IF op = "intersect" THEN Both ELSE got["left"] = "held"

\* A key of the answer, sampled while there is room.
Find(record) ==
    /\ found' = found + 1
    /\ samples' = IF Len(samples) < MaxSamples THEN Append(samples, record) ELSE samples

\* The left key is below every key the right side still has.
Less ==
    /\ Compare /\ Walking
    /\ got["right"] = "none" \/ item["left"].value < item["right"].value
    /\ IF op = "anti_join" THEN Find(item["left"]) ELSE UNCHANGED answer
    /\ want' = {"left"}
    /\ UNCHANGED <<op, runs, merge, cancelled, pc>>

\* The right key is below the left one.
Greater ==
    /\ Compare /\ Both /\ item["left"].value > item["right"].value
    /\ want' = {"right"}
    /\ UNCHANGED <<op, runs, merge, answer, cancelled, pc>>

\* Both sides hold the same key.
Equal ==
    /\ Compare /\ Both /\ item["left"].value = item["right"].value
    /\ IF op = "intersect" THEN Find(item["left"]) ELSE UNCHANGED answer
    /\ want' = Side
    /\ UNCHANGED <<op, runs, merge, cancelled, pc>>

\* After the walk the rest of a side is read only to be counted.
CountRest(s) ==
    /\ pc = "walk" /\ want = {} /\ ~Walking
    /\ got[s] = "held" /\ (op = "anti_join" => ~cancelled)
    /\ want' = {s}
    /\ UNCHANGED <<op, runs, merge, answer, cancelled, pc>>

Finish ==
    /\ pc = "walk" /\ want = {}
    /\ \A s \in Side : got[s] = "none"
    /\ pc' = "done"
    /\ UNCHANGED <<op, runs, merge, want, answer, cancelled>>

\* The token is checked at each comparison and before each pop.
Stop ==
    /\ pc = "walk" /\ cancelled
    /\ \/ want = {} /\ (Walking \/ (op = "anti_join" /\ got["right"] = "held"))
       \/ \E s \in Side : Turn(s) /\ got[s] # "draining"
    /\ pc' = "stopped"
    /\ UNCHANGED <<op, runs, merge, want, answer, cancelled>>

Step ==
    \/ Open
    \/ \E s \in Side, r \in Run : Pop(s, r) \/ Drain(s, r)
    \/ \E s \in Side : PopNone(s) \/ Yield(s) \/ CountRest(s)
    \/ Less \/ Greater \/ Equal \/ Finish \/ Stop

Next == Step \/ Fails \/ Cancel

Spec == Init /\ [][Next]_vars

\* The thread that runs the operation keeps running.
FairSpec == Spec /\ WF_vars(Step)

-----------------------------------------------------------------------------
(* Properties *)

\* The records of a side and its keys, whatever the runs they are in.
Records(s) == UNION {{runs[s][r][i] : i \in DOMAIN runs[s][r]} : r \in Run}
Keys(s) == {record.value : record \in Records(s)}

\* What the operation is asked for.
Answer ==
    IF op = "intersect" THEN Keys("left") \cap Keys("right") ELSE Keys("left") \ Keys("right")

\* The variables have their types, no cursor runs past its run, and no more
\* samples are kept than the caller asked for and memory was reserved for.
TypeOK ==
    /\ op \in {"intersect", "anti_join"}
    /\ runs \in [Side -> [Run -> Seq(Record)]]
    /\ at \in [Side -> [Run -> Nat \ {0}]]
    /\ \A s \in Side, r \in Run : at[s][r] <= Len(runs[s][r]) + 1
    /\ got \in [Side -> {"unread", "draining", "held", "none"}]
    /\ item \in [Side -> [value : Int, row : Nat]]
    /\ want \subseteq Side
    /\ distinct \in [Side -> Nat]
    /\ found \in Nat
    /\ samples \in Seq(Record) /\ Len(samples) <= MaxSamples
    /\ cancelled \in BOOLEAN
    /\ pc \in {"idle", "walk", "done", "refused", "stopped"}

\* The summary of a finished merge is the one of the two key sets: every key of
\* the answer counted once, however its copies are spread over runs and sides,
\* and the distinct keys of both sides counted to the end (run.rs intersect and
\* anti_join, which overlap rates and outcomes are computed from).
AnswerIsExact ==
    pc = "done" => /\ found = Cardinality(Answer)
                   /\ \A s \in Side : distinct[s] = Cardinality(Keys(s))

\* At every moment the samples are the smallest keys of the answer, in order and
\* each with the first row that carries it, and they are short of what was found
\* only when the limit is reached (the doc comment of next_unique_with_row; the
\* caller takes found - samples as the violations it has not recorded).
SamplesAreFirst ==
    /\ Len(samples) = IF found < MaxSamples THEN found ELSE MaxSamples
    /\ \A i \in DOMAIN samples :
        /\ samples[i].value \in Answer
        /\ Cardinality({key \in Answer : key < samples[i].value}) = i - 1
        /\ \A record \in Records("left") :
             record.value = samples[i].value => samples[i].row <= record.row

\* The walk ends, with an answer, a refusal or the cancellation.
Terminates == <>(pc \in {"done", "refused", "stopped"})
=================================================================================
