--------------------------------- MODULE Diff ---------------------------------
(***************************************************************************)
(* The keyed diff of two datasets (diff/mod.rs) with its partition files   *)
(* (diff/partition.rs) and its output file (diff/sink.rs).                 *)
(*                                                                         *)
(* Small inputs are collected and compared in memory.  Others are split by *)
(* key into partition files, which are then compared pair by pair.  Both   *)
(* ways feed one accumulator: exact counts, the smallest keys as samples,  *)
(* and every change as an event of the output file, which is published     *)
(* under its name at the end.                                              *)
(*                                                                         *)
(* A row is its key, its columns and its size.  Keys are compared by their *)
(* canonical bytes (the order of the integers) and shown by a display      *)
(* string, which two keys may share.  A hash stands for what was hashed.   *)
(* Sizes are in small units: a row has the same size as an entry and as a  *)
(* record, a key in the set of seen keys and a sample take one unit.       *)
(***************************************************************************)
EXTENDS Integers, Sequences, SequencesExt, FiniteSetsExt

CONSTANTS
    Jobs,           \* the datasets and options to explore
    Display,        \* the display string of each key, as a number in its order
    Partitions,     \* PARTITIONS
    PartitionOf,    \* row_partition of each key
    Chunk,          \* LEDGER_CHUNK_BYTES
    WriterBuffer,   \* WRITER_BUFFER_BYTES
    WriterRoom,     \* memory reserved for each writer beside its buffer
    HeaderBytes,    \* temporary storage for all headers of one side
    SinkBytes,      \* memory of the sink
    EventRoom,      \* capacity of the sink's scratch buffer at first
    MaxRecord       \* MAX_PARTITION_RECORD_BYTES

Side == {"before", "after"}
Kind == {"added", "removed", "changed"}
Parts == 1..Partitions
WriterBytes == Partitions * (WriterBuffer + WriterRoom)

Row == [key : DOMAIN Display, columns : Seq(Int), size : Nat]
Batch == [kind : {"ok", "reader", "mismatch"}, rows : Seq(Row)]

ASSUME DiffAssumption ==
    /\ Chunk \in Nat \ {0} /\ Partitions \in Nat \ {0}
    /\ {WriterBuffer, WriterRoom, HeaderBytes, SinkBytes, EventRoom, MaxRecord} \subseteq Nat
    /\ DOMAIN Display \subseteq Int /\ \A key \in DOMAIN Display : Display[key] \in Int
    /\ PartitionOf \in [DOMAIN Display -> Parts]
    /\ \A j \in Jobs : /\ {j.max_samples, j.max_records, j.max_memory, j.max_temp} \subseteq Nat
                       /\ \A s \in Side : j[s].batches \in Seq(Batch)

VARIABLES
    job,        \* the two datasets and the options
    pc,         \* the phase
    side,       \* the side that is collected or partitioned
    batch,      \* the batch of it that comes next
    input,      \* rows that the current loop still has to take
    writers,    \* the partition files being written
    files,      \* the partition files of both sides
    part,       \* the partition that is compared
    entries,    \* the rows held of each side
    seen,       \* keys of the after side: in memory all, else those met in the partition
    ledger,     \* the memory ledger of each side
    temp,       \* the ledger of temporary storage
    acc,        \* count and samples of each kind of change
    sink,       \* the output file under its temporary name
    target,     \* what the output path names: the old file or published events
    damaged,    \* a partition file was altered by somebody else
    cancelled,  \* the cancellation token
    err         \* the error of a failed diff

loop == <<side, batch, input>>
store == <<writers, files, part>>
held == <<entries, seen, ledger>>
result == <<acc, sink, temp>>
vars == <<job, pc, loop, store, held, result, target, damaged, cancelled, err>>

Old == [published |-> FALSE, events |-> <<>>]
NoRow == [key |-> 0, columns |-> <<>>, size |-> 0]
NoLedger == [reserved |-> 0, used |-> 0]
NoFile == [digest |-> "none", records |-> 0, bytes |-> 0, checksum |-> <<>>, payload |-> <<>>]
NewWriter == [payload |-> <<>>, capacity |-> 0, length |-> 0, charged |-> 0]
NoSink == [open |-> FALSE, events |-> <<>>, stored |-> <<>>, capacity |-> 0, charged |-> 0]
NoChanges == [kind \in Kind |-> [count |-> 0, samples |-> <<>>]]

-----------------------------------------------------------------------------
(* The operation's accounts.  A step works on a copy of the ledgers and of *)
(* the accumulator that carries the error which `?` returns.               *)

Now == [ledger |-> ledger, acc |-> acc, sink |-> sink, temp |-> temp, err |-> "none"]
Refuse(x, e) == [x EXCEPT !.err = e]

Plus(m, n) == m + n
Total(numbers) == FoldLeft(Plus, 0, numbers)
Bytes(rows) == Total([i \in DOMAIN rows |-> rows[i].size])

\* Memory of the account that nobody has reserved.
Free(x) ==
    job.max_memory
    - (x.ledger["before"].reserved + x.ledger["after"].reserved)
    - Total([p \in DOMAIN writers |-> writers[p].charged])
    - (IF writers = <<>> THEN 0 ELSE WriterBytes)
    - (Len(x.acc["added"].samples) + Len(x.acc["removed"].samples) + Len(x.acc["changed"].samples))
    - x.sink.charged

\* Mutant: the last chunk is asked for in full.
LedgerChargeWhole(needed, remaining) == Max({needed, Chunk})

\* ledger_charge: whole chunks, or all that remains.
LedgerCharge(needed, remaining) ==
    IF remaining < Chunk THEN remaining ELSE Min({Max({needed, Chunk}), remaining})

\* Mutant: what was asked for is not added up.
AddUseOnce(l, bytes, cap) ==
    LET needed == bytes - l.reserved
    IN [used |-> bytes,
        reserved |-> l.reserved + IF needed <= 0 THEN 0 ELSE LedgerCharge(needed, cap - l.reserved)]

\* reserve_additional of both ledgers: more bytes in use and, if they are not
\* covered, one more reservation.
AddUse(l, bytes, cap) ==
    LET needed == l.used + bytes - l.reserved
    IN [used |-> l.used + bytes,
        reserved |-> l.reserved + IF needed <= 0 THEN 0 ELSE LedgerCharge(needed, cap - l.reserved)]

\* A charge smaller than what is needed is followed by one of zero, an error.
UseMemory(x, s, bytes) ==
    LET l == AddUse(x.ledger[s], bytes, job.max_memory)
    IN IF x.err # "none" THEN x
       ELSE IF l.reserved < l.used \/ l.reserved - x.ledger[s].reserved > Free(x)
       THEN Refuse(x, "memory")
       ELSE [x EXCEPT !.ledger = [@ EXCEPT ![s] = l]]

UseTemp(x, bytes) ==
    LET l == AddUse(x.temp, bytes, job.max_temp)
    IN IF x.err # "none" THEN x
       ELSE IF l.reserved < l.used \/ l.reserved > job.max_temp THEN Refuse(x, "temp")
       ELSE [x EXCEPT !.temp = l]

-----------------------------------------------------------------------------
(* Accumulator and AtomicSink *)

\* A change as the sink and the samples show it.
Shown(change) ==
    [kind |-> change.kind, key |-> Display[change.key], columns |-> change.columns]

\* A record of the output: one unit, and one for each column it names.
EventBytes(event) == 1 + Cardinality(event.columns)

Written(output, event, growth) ==
    [output EXCEPT !.events = Append(@, event), !.charged = @ + growth, !.capacity = @ + growth]

\* Accumulator::emit and AtomicSink::write: JSON Lines grows a scratch buffer and
\* then reserves storage, Arrow reserves storage and then memory for one batch.
Emit(x, event) ==
    LET size == EventBytes(event)
        growth == IF job.output = "jsonl" THEN Max({0, size - x.sink.capacity}) ELSE 0
        y == UseTemp(x, size)
    IN IF job.output = "none" THEN x
       ELSE IF Len(x.sink.events) >= job.max_records THEN Refuse(x, "records")
       ELSE IF job.output = "jsonl" /\ growth > Free(x) THEN Refuse(x, "memory")
       ELSE IF y.err # "none" THEN y
       ELSE IF job.output # "jsonl" /\ size > Free(x) THEN Refuse(x, "memory")
       ELSE [y EXCEPT !.sink = Written(@, event, growth)]

\* should_retain_string, should_retain_changed
Retains(samples, sample) ==
    /\ job.max_samples # 0
    /\ Len(samples) < job.max_samples \/ sample.key < samples[Len(samples)].key

\* How many samples binary_search leaves in front of a new one; among equal strings
\* it says nothing.
Place(samples, sample) ==
    CHOOSE n \in 0..Len(samples) : /\ \A i \in 1..n : samples[i].key <= sample.key
                                  /\ \A i \in n + 1..Len(samples) : sample.key <= samples[i].key

\* retain_string, retain_changed: kept in order, the largest dropped.
Retained(samples, sample) ==
    LET longer == InsertAt(samples, Place(samples, sample) + 1, sample)
    IN SubSeq(longer, 1, Min({Len(longer), job.max_samples}))

SetCounter(x, kind, counter) == [x EXCEPT !.acc = [@ EXCEPT ![kind] = counter]]

Sample(x, kind, sample) ==
    IF x.err # "none" \/ ~Retains(x.acc[kind].samples, sample) THEN x
    ELSE IF Free(x) < 1 THEN Refuse(x, "memory")
    ELSE SetCounter(x, kind, [x.acc[kind] EXCEPT !.samples = Retained(@, sample)])

\* Accumulator::added, removed and changed: count, emit, sample.
Note(x, change) ==
    LET y == SetCounter(x, change.kind, [x.acc[change.kind] EXCEPT !.count = @ + 1])
        shown == Shown(change)
    IN IF x.err # "none" THEN x
       ELSE Sample(Emit(y, shown), change.kind, [key |-> shown.key, columns |-> shown.columns])

Added(row) == [kind |-> "added", key |-> row.key, columns |-> {}]
Removed(row) == [kind |-> "removed", key |-> row.key, columns |-> {}]
Changed(before, after) ==
    [kind |-> "changed", key |-> after.key,
     columns |-> {c \in DOMAIN after.columns : before.columns[c] # after.columns[c]}]

\* Columns are compared only if a sample or an event will name them.
NeedsChangedDetail == job.output # "none" \/ job.max_samples # 0

\* One row of the after side against the rows held of the before side; row_hash
\* covers all columns.
CompareRow(x, row) ==
    LET same == {other \in Range(entries["before"]) : other.key = row.key} IN
    IF same = {} THEN Note(x, Added(row))
    ELSE LET other == CHOOSE other \in same : TRUE
             change == Changed(other, row)
         IN IF other.columns = row.columns THEN x
            ELSE Note(x, IF NeedsChangedDetail THEN change ELSE [change EXCEPT !.columns = {}])

-----------------------------------------------------------------------------
(* Steps *)

\* should_use_in_memory: no data partitions allowed, or size hints well below
\* the budget.
InMemory ==
    \/ job.spill = "never"
    \/ job.hinted /\ 2 * job.input_bytes + job.rows * job.row_bytes <= (3 * job.max_memory) \div 4

Keys(rows) == {row.key : row \in rows}

\* The rows in the order of a BTreeMap: the n-th has n - 1 smaller keys beside it.
ByKey(rows) ==
    [n \in 1..Len(rows) |-> CHOOSE row \in Range(rows) :
        Cardinality({key \in Keys(Range(rows)) : key < row.key}) = n - 1]

\* `?` drops everything: files, reservations and the temporary output.
Fail(e) ==
    /\ pc' = "failed" /\ err' = e
    /\ sink' = [sink EXCEPT !.open = FALSE]
    /\ UNCHANGED <<job, loop, store, held, acc, temp, target, damaged, cancelled>>

\* Take over what a step made of the copy, unless it failed.
Apply(x, others) ==
    IF x.err # "none" THEN Fail(x.err)
    ELSE /\ ledger' = x.ledger /\ acc' = x.acc /\ sink' = x.sink /\ temp' = x.temp
         /\ others
         /\ UNCHANGED <<job, target, damaged, cancelled, err>>

Init ==
    /\ job \in Jobs
    /\ pc = "begin"
    /\ side = "before" /\ batch = 1 /\ input = <<>>
    /\ writers = <<>>
    /\ files = [s \in Side |-> [p \in Parts |-> NoFile]]
    /\ part = 1
    /\ entries = [s \in Side |-> <<>>] /\ seen = {}
    /\ ledger = [s \in Side |-> NoLedger]
    /\ temp = NoLedger /\ acc = NoChanges /\ sink = NoSink
    /\ target = Old
    /\ damaged = FALSE /\ cancelled = FALSE
    /\ err = "none"

\* diff_readers_with_options up to the first dataset.
Begin ==
    /\ pc = "begin"
    /\ IF job.keys = 0 THEN Fail("no_keys")
       ELSE IF cancelled THEN Fail("cancelled")
       ELSE Apply(Now, pc' = "start" /\ UNCHANGED <<loop, store, entries, seen>>)

\* The key columns are resolved; partition_rows also creates its writers.
StartSide ==
    /\ pc = "start"
    /\ LET x == IF InMemory THEN Now ELSE UseTemp(Now, HeaderBytes) IN
       IF ~job[side].keyed THEN Fail("missing_column")
       ELSE IF ~InMemory /\ x.err = "none" /\ WriterBytes > Free(x) THEN Fail("memory")
       ELSE Apply(x, /\ pc' = "read" /\ batch' = 1
                     /\ writers' = IF InMemory THEN <<>> ELSE [p \in Parts |-> NewWriter]
                     /\ UNCHANGED <<side, input, files, part, entries, seen>>)

\* The next batch of a reader, or its error.
ReadBatch ==
    /\ pc = "read" /\ input = <<>> /\ batch <= Len(job[side].batches)
    /\ LET next == job[side].batches[batch] IN
       IF cancelled THEN Fail("cancelled")
       ELSE IF next.kind # "ok" THEN Fail(next.kind)
       ELSE Apply(Now, /\ input' = next.rows /\ batch' = batch + 1
                       /\ UNCHANGED <<pc, side, store, entries, seen>>)

\* A row is held in memory: collect_rows_in_memory, and process_partition for the
\* before side.
HoldRow ==
    /\ pc = "load" \/ (pc = "read" /\ InMemory)
    /\ input # <<>>
    /\ LET row == Head(input)
           x == UseMemory(Now, side, row.size)
       IN IF x.err = "none" /\ row.key \in Keys(Range(entries[side])) THEN Fail("duplicate")
          ELSE Apply(x, /\ entries' = [entries EXCEPT ![side] = Append(@, row)]
                        /\ input' = Tail(input)
                        /\ UNCHANGED <<pc, side, batch, store, seen>>)

\* The scratch buffer of a writer for a record of this size.  Room is reserved
\* while the last record is still in the buffer, so that it may be found
\* sufficient; the vector then doubles as the record is encoded.
Grown(w, size) ==
    LET additional == Max({0, size - w.capacity})
        exact == IF additional = 0 THEN w.capacity ELSE Max({w.capacity, w.length + additional})
    IN [w EXCEPT !.capacity = IF size <= exact THEN exact ELSE Max({size, 2 * exact}),
                 !.charged = @ + additional,
                 !.length = size]

\* PartitionWriter::write_record
WriteRow ==
    /\ pc = "read" /\ ~InMemory /\ input # <<>>
    /\ LET row == Head(input)
           p == PartitionOf[row.key]
           w == Grown(writers[p], row.size)
       IN IF row.size > Min({MaxRecord, job.max_memory}) THEN Fail("record")
          ELSE IF w.charged - writers[p].charged > Free(Now) THEN Fail("memory")
          ELSE Apply(UseTemp(Now, row.size),
                     /\ writers' = [writers EXCEPT ![p] = [w EXCEPT !.payload = Append(@, row)]]
                     /\ input' = Tail(input)
                     /\ UNCHANGED <<pc, side, batch, files, part, entries, seen>>)

\* A side is complete: the writers put their headers in front of the payload.
EndSide ==
    /\ pc = "read" /\ input = <<>> /\ batch > Len(job[side].batches)
    /\ files' = IF InMemory THEN files
                ELSE [files EXCEPT ![side] =
                        [p \in Parts |-> [digest |-> job[side].schema,
                                          records |-> Len(writers[p].payload),
                                          bytes |-> Bytes(writers[p].payload),
                                          checksum |-> writers[p].payload,
                                          payload |-> writers[p].payload]]]
    /\ writers' = <<>>
    /\ side' = "after"
    /\ pc' = IF side = "before" THEN "start" ELSE "match"
    /\ UNCHANGED <<job, batch, input, part, held, result, target, damaged, cancelled, err>>

\* Both datasets are read: their signatures are compared and the output opened.
Match ==
    /\ pc = "match"
    /\ IF job["before"].schema # job["after"].schema THEN Fail("mismatch")
       ELSE IF job.output # "none" /\ SinkBytes > Free(Now) THEN Fail("memory")
       ELSE /\ sink' = IF job.output = "none" THEN sink
                       ELSE [sink EXCEPT !.open = TRUE, !.capacity = EventRoom, !.charged = SinkBytes]
            /\ pc' = IF InMemory THEN "walk" ELSE "open"
            /\ input' = IF InMemory THEN ByKey(entries["after"]) ELSE <<>>
            /\ seen' = Keys(Range(entries["after"]))
            /\ UNCHANGED <<job, side, batch, store, entries, ledger, acc, temp, target, damaged,
                           cancelled, err>>

-----------------------------------------------------------------------------
(* process_partition *)

\* validate_file: the schema, the length and the checksum of the payload.
Intact(file) ==
    /\ file.digest = job["before"].schema
    /\ file.bytes = Bytes(file.payload)
    /\ file.checksum = file.payload

\* The records that PartitionReader::next delivers before it ends or fails.
Delivered(file) == SubSeq(file.payload, 1, Min({file.records, Len(file.payload)}))

\* Mutant: the end of a file is not compared with its record count.
CompleteUnchecked(file) == TRUE

\* It ends without an error if nothing is left over or missing.
Complete(file) == file.records = Len(file.payload)

OpenBefore ==
    /\ pc = "open"
    /\ IF cancelled THEN Fail("cancelled")
       ELSE IF ~Intact(files["before"][part]) THEN Fail("corrupt")
       ELSE /\ pc' = "load" /\ side' = "before"
            /\ input' = Delivered(files["before"][part])
            /\ UNCHANGED <<job, batch, store, held, result, target, damaged, cancelled, err>>

OpenAfter ==
    /\ pc = "load" /\ input = <<>>
    /\ IF ~Complete(files["before"][part]) \/ ~Intact(files["after"][part]) THEN Fail("corrupt")
       ELSE /\ pc' = "walk"
            /\ input' = Delivered(files["after"][part])
            /\ UNCHANGED <<job, side, batch, store, held, result, target, damaged, cancelled, err>>

\* One row of the after side is compared; from a file, its key is remembered.
Walk ==
    /\ pc = "walk" /\ input # <<>>
    /\ LET row == Head(input)
           x == IF InMemory THEN Now ELSE UseMemory(Now, "before", 1)
       IN IF InMemory /\ cancelled THEN Fail("cancelled")
          ELSE IF ~InMemory /\ x.err = "none" /\ row.key \in seen THEN Fail("duplicate")
          ELSE Apply(CompareRow(x, row),
                     /\ seen' = seen \cup {row.key}
                     /\ input' = Tail(input)
                     /\ UNCHANGED <<pc, side, batch, store, entries>>)

WalkEnd ==
    /\ pc = "walk" /\ input = <<>>
    /\ IF ~InMemory /\ ~Complete(files["after"][part]) THEN Fail("corrupt")
       ELSE /\ pc' = "rest"
            /\ input' = ByKey(entries["before"])
            /\ UNCHANGED <<job, side, batch, store, held, result, target, damaged, cancelled, err>>

\* A row of the before side that the after side does not have is removed.
Rest ==
    /\ pc = "rest" /\ input # <<>>
    /\ LET row == Head(input) IN
       IF cancelled THEN Fail("cancelled")
       ELSE Apply(IF row.key \in seen THEN Now ELSE Note(Now, Removed(row)),
                  /\ input' = Tail(input)
                  /\ UNCHANGED <<pc, side, batch, store, entries, seen>>)

\* The partition is done; its rows and their memory are dropped.
RestEnd ==
    /\ pc = "rest" /\ input = <<>>
    /\ pc' = IF InMemory \/ part = Partitions THEN "flush" ELSE "open"
    /\ part' = IF pc' = "open" THEN part + 1 ELSE part
    /\ entries' = IF InMemory THEN entries ELSE [s \in Side |-> <<>>]
    /\ seen' = IF InMemory THEN seen ELSE {}
    /\ ledger' = IF InMemory THEN ledger ELSE [s \in Side |-> NoLedger]
    /\ UNCHANGED <<job, loop, writers, files, result, target, damaged, cancelled, err>>

-----------------------------------------------------------------------------
(* AtomicSink::finish and the environment *)

\* Mutant: the buffered events are not flushed.
FlushNothing ==
    /\ pc = "flush"
    /\ pc' = IF sink.open THEN "persist" ELSE "done"
    /\ UNCHANGED <<job, loop, store, held, result, target, damaged, cancelled, err>>

\* What is still buffered reaches the temporary file.
Flush ==
    /\ pc = "flush"
    /\ sink' = [sink EXCEPT !.stored = sink.events]
    /\ pc' = IF sink.open THEN "persist" ELSE "done"
    /\ UNCHANGED <<job, loop, store, held, acc, temp, target, damaged, cancelled, err>>

\* The temporary file gets the name of the output.
Persist ==
    /\ pc = "persist"
    /\ target' = [published |-> TRUE, events |-> sink.stored]
    /\ sink' = [sink EXCEPT !.open = FALSE]
    /\ pc' = "return"
    /\ UNCHANGED <<job, loop, store, held, acc, temp, damaged, cancelled, err>>

Return ==
    /\ pc = "return"
    /\ pc' = "done"
    /\ UNCHANGED <<job, loop, store, held, result, target, damaged, cancelled, err>>

\* Creating, writing, syncing, reading or renaming a file fails.
IoFails ==
    /\ \/ pc \in {"start", "read", "open", "load"} /\ ~InMemory
       \/ pc \in {"match", "walk", "rest", "flush", "persist"} /\ job.output # "none"
    /\ Fail("io")

\* The process is killed: what is on disk stays.
Crash ==
    /\ pc \notin {"done", "failed", "crashed"}
    /\ pc' = "crashed"
    /\ UNCHANGED <<job, loop, store, held, result, target, damaged, cancelled, err>>

Altered(row) == [row EXCEPT !.columns = [row.columns EXCEPT ![1] = @ + 1]]

\* Damage to a file: a payload cut or altered, or a field of the header altered.
Damages(file) ==
    {[file EXCEPT !.digest = "other"], [file EXCEPT !.records = @ + 1],
     [file EXCEPT !.bytes = @ + 1], [file EXCEPT !.checksum = Append(@, NoRow)]}
    \cup (IF file.payload = <<>> THEN {}
          ELSE {[file EXCEPT !.payload = Front(@)], [file EXCEPT !.records = @ - 1],
                [file EXCEPT !.payload = [@ EXCEPT ![1] = Altered(file.payload[1])]]})

\* It happens before the file is opened.
Damage ==
    /\ pc = "open" /\ ~damaged
    /\ damaged' = TRUE
    /\ \E s \in Side, p \in part..Partitions : \E file \in Damages(files[s][p]) :
        files' = [files EXCEPT ![s][p] = file]
    /\ UNCHANGED <<job, pc, loop, writers, part, held, result, target, cancelled, err>>

\* Another thread requests cancellation.
Cancel ==
    /\ ~cancelled /\ pc \notin {"done", "failed", "crashed"}
    /\ cancelled' = TRUE
    /\ UNCHANGED <<job, pc, loop, store, held, result, target, damaged, err>>

Next ==
    \/ Begin \/ StartSide \/ ReadBatch \/ HoldRow \/ WriteRow \/ EndSide \/ Match
    \/ OpenBefore \/ OpenAfter \/ Walk \/ WalkEnd \/ Rest \/ RestEnd
    \/ Flush \/ Persist \/ Return
    \/ IoFails \/ Crash \/ Damage \/ Cancel

Spec == Init /\ [][Next]_vars

-----------------------------------------------------------------------------
(* Properties *)

\* The datasets as sets of rows, and what changes between two of them, without regard to
\* the steps.
BatchRows(s) == [i \in DOMAIN job[s].batches |-> job[s].batches[i].rows]
AllRows(s) == FlattenSeq(BatchRows(s))
UniqueKeys(rows) == \A i, j \in DOMAIN rows : rows[i].key = rows[j].key => i = j
Unique(s) == UniqueKeys(AllRows(s))

AddedTo(before, after) == {Added(row) : row \in {row \in after : row.key \notin Keys(before)}}
RemovedFrom(before, after) == {Removed(row) : row \in {row \in before : row.key \notin Keys(after)}}
ChangedIn(before, after) ==
    {Changed(pair[1], pair[2]) : pair \in
        {pair \in before \X after : pair[1].key = pair[2].key /\ pair[1].columns # pair[2].columns}}
ChangesIn(before, after) ==
    AddedTo(before, after) \cup RemovedFrom(before, after) \cup ChangedIn(before, after)

Changes == ChangesIn(Range(AllRows("before")), Range(AllRows("after")))

\* What the output needs for some changes, and the whole diff.
Units(changes) == UNION {{change} \X ({0} \cup change.columns) : change \in changes}
TempNeed ==
    (IF InMemory THEN 0
     ELSE 2 * HeaderBytes + Bytes(AllRows("before")) + Bytes(AllRows("after")))
    + (IF job.output = "none" THEN 0 ELSE Cardinality(Units(Changes)))

\* What is on disk of a side and of the output.
OnDisk(s) ==
    LET writing == writers # <<>> /\ s = side
        payloads == [p \in Parts |-> IF writing THEN writers[p].payload ELSE files[s][p].payload]
    IN Total([p \in Parts |-> Bytes(payloads[p])])
       + IF writing \/ files[s][Partitions].digest # "none" THEN HeaderBytes ELSE 0
EventsOnDisk == Total([i \in DOMAIN sink.events |-> EventBytes(sink.events[i])])

\* The variables have their types and no list is longer than its limit.
TypeOK ==
    /\ pc \in {"begin", "start", "read", "match", "open", "load", "walk", "rest", "flush",
               "persist", "return", "done", "failed", "crashed"}
    /\ side \in Side /\ batch \in Nat /\ part \in Parts
    /\ \A s \in Side : /\ Keys(Range(entries[s])) \cup seen \subseteq DOMAIN Display
                       /\ ledger[s].reserved \in 0..job.max_memory
    /\ \A kind \in Kind : acc[kind].count \in Nat /\ Len(acc[kind].samples) <= job.max_samples
    /\ Len(sink.events) <= job.max_records
    /\ Free(Now) >= 0

\* A diff that returns has counted exactly the changes of each kind.  Its samples are as
\* many as asked for, each shows another change of its kind, they are in the order of the
\* display strings, and no change that is not shown comes before one that is.  The
\* datasets had equal schemas and no key twice.  This holds for both ways and whatever
\* happened to the partition files (diff_readers_with_options).
ReportIsExact ==
    pc = "done" =>
        /\ job["before"].schema = job["after"].schema
        /\ \A s \in Side : Unique(s)
        /\ \A kind \in Kind :
            LET changes == {change \in Changes : change.kind = kind}
                samples == acc[kind].samples
            IN /\ acc[kind].count = Cardinality(changes)
               /\ Len(samples) = Min({job.max_samples, Cardinality(changes)})
               /\ \A i, j \in DOMAIN samples : i < j => samples[i].key <= samples[j].key
               /\ \E of \in [DOMAIN samples -> changes] :
                    /\ IsInjective(of)
                    /\ \A i \in DOMAIN samples :
                         samples[i] = [key |-> Display[of[i].key], columns |-> of[i].columns]
                    /\ \A change \in changes \ Range(of), i \in DOMAIN samples :
                         samples[i].key <= Display[change.key]

\* The output path names the old file or one in which every event occurs as often as
\* there are changes that it shows, also after a crash; a failed diff leaves the old one
\* and no temporary file behind, and a diff with an output that returns has published it
\* (AtomicSink).
OutputIsAtomic ==
    /\ target.published =>
        \A event \in Range(target.events) \cup {Shown(change) : change \in Changes} :
            Cardinality({i \in DOMAIN target.events : target.events[i] = event})
                = Cardinality({change \in Changes : Shown(change) = event})
    /\ pc = "failed" => target = Old
    /\ pc \in {"failed", "done"} => ~sink.open
    /\ pc = "done" => (target.published <=> job.output # "none")

\* An error is the one of its cause: "corrupt" is only said after damage, "duplicate"
\* of a dataset with a key twice, "mismatch" of different schemas or a changed batch,
\* "temp" and "records" only if the limit is smaller than what the whole diff needs
\* (AddUse falls back to what remains, so that no storage is refused in vain).
ErrorsAreTrue ==
    /\ err = "corrupt" => damaged
    /\ err = "duplicate" => \E s \in Side : ~Unique(s)
    /\ err = "mismatch" => \/ job["before"].schema # job["after"].schema
                           \/ \E s \in Side : \E i \in DOMAIN job[s].batches :
                                job[s].batches[i].kind = "mismatch"
    /\ err = "records" => job.max_records < Cardinality(Changes)
    /\ err = "temp" => job.max_temp < TempNeed

\* Everything on disk is covered by reserved storage, within the limit: headers and
\* records from before they are written, and the events (TempLedger).  The rows and
\* keys held in memory are covered by the ledgers, and these by the account, at every
\* step (MemoryLedger, process_partition).  The state is well formed.
UseIsReserved ==
    /\ TypeOK
    /\ OnDisk("before") + OnDisk("after") + EventsOnDisk <= temp.reserved
    /\ temp.reserved <= job.max_temp
    /\ Bytes(entries["before"]) + (IF InMemory THEN 0 ELSE Cardinality(seen))
         <= ledger["before"].reserved
    /\ Bytes(entries["after"]) <= ledger["after"].reserved
    /\ sink.open => sink.capacity - EventRoom <= sink.charged - SinkBytes
===============================================================================
