------------------------------ MODULE ExactState ------------------------------
(***************************************************************************)
(* The exact distinct and uniqueness state of distinct/mod.rs and          *)
(* distinct/run.rs.                                                        *)
(*                                                                         *)
(* Values are buffered in a segment charged to the memory budget.  A full  *)
(* segment is sorted and spilled to a run file charged to the temporary    *)
(* budget, or grows when there is no directory to spill to.  More than     *)
(* FanIn runs are compacted into one.  finish merges the runs, or sorts    *)
(* the only segment, and counts.                                           *)
(*                                                                         *)
(* Sizes are in units: a buffered fixed-width record and an entry of the   *)
(* byte index take one unit of memory, a record of a run one unit plus, in *)
(* a byte store, the length of its value.  The other states of the scan    *)
(* share the memory budget; the disk may fail and a run may be damaged     *)
(* between two operations.                                                 *)
(***************************************************************************)
EXTENDS Integers, Sequences, SequencesExt, FiniteSetsExt

CONSTANTS
    Values,         \* totally ordered values, as integers
    Length,         \* the length of a value in a byte store
    Modes,          \* the states to explore: kind, directory, hinted capacity
    FanIn,          \* MAX_MERGE_FAN_IN
    AssumedLength,  \* ASSUMED_BYTES_PER_VALUE
    MaxArena,       \* u32::MAX: the longest arena and the longest value
    MaxRecord,      \* MAX_RECORD_BYTES: the longest value a cursor accepts
    Header,         \* HEADER_BYTES
    CursorUnits,    \* memory of one merge cursor besides its record
    SampleUnits,    \* memory of the duplicate samples
    MaxSamples,     \* max_samples of the limits
    MemoryCap,      \* the memory budget
    TempCap,        \* the temporary-storage budget
    MaxPressure,    \* bound: what the other states of the scan ever take
    MaxRows         \* bound: how many values are inserted

ASSUME BoundsAssumption ==
    /\ Values \subseteq Int /\ Length \in [Values -> Nat]
    /\ FanIn \in Nat /\ FanIn > 1
    /\ {AssumedLength, MaxArena, MaxRecord, Header, MaxSamples, MaxRows} \subseteq Nat
    /\ {SampleUnits, MaxPressure, MemoryCap, TempCap} \subseteq Nat
    /\ SampleUnits <= MemoryCap
    /\ \A m \in Modes : /\ m.kind \in {"fixed", "bytes"} /\ m.directory \in BOOLEAN
                         /\ m.capacity \in Nat \ {0}

VARIABLES
    mode,       \* kind of values, spill directory or not, desired capacity
    segment,    \* the buffered records with the capacity charged for them
    runs,       \* the spilled runs, oldest first
    compactions,
    widest,     \* max_merge_fan_in
    column,     \* the values inserted so far; the index is the row
    pressure,   \* memory the other states of the scan hold
    disk,       \* the spill directory: "writable", "full" or "gone"
    cancelled,  \* the cancellation token
    status,     \* "open", "done", or the error that ended the state
    summary     \* what finish returned

vars == <<mode, segment, runs, compactions, widest, column, pressure, disk,
          cancelled, status, summary>>

-----------------------------------------------------------------------------
(***************************************************************************)
(* Records, segments and runs.                                             *)
(***************************************************************************)

\* A record is <<value, row>>; the order of sort_unstable_by and MergeEntry.
Before(a, b) == a[1] < b[1] \/ (a[1] = b[1] /\ a[2] < b[2])

\* A set of records in that order: each is the one that as many are before as stand
\* in front of it.  No two records have the same row.
InOrder(records) ==
    [k \in 1..Cardinality(records) |->
        CHOOSE r \in records : Cardinality({q \in records : Before(q, r)}) = k - 1]

ValueLength(v) == IF mode.kind = "bytes" THEN Length[v] ELSE 0

\* The bytes of the arena that a sequence of records fills.
AddLength(n, record) == n + Length[record[1]]
ArenaLength(records) ==
    IF mode.kind = "bytes" THEN FoldLeft(AddLength, 0, records) ELSE 0

\* No segment is the one without capacity: an allocated one has at least one.
NoSegment == [records |-> <<>>, capacity |-> 0, arena |-> 0]

Charge(seg) == seg.capacity + seg.arena

\* max_record_bytes of a run.
LongestRecord(records) ==
    IF mode.kind = "fixed" THEN 1
    ELSE Max({Length[records[i][1]] : i \in DOMAIN records})

\* A run remembers in its header the checksum of what was written, and in its
\* RunMeta the reservation and the longest record; content is what the file
\* holds now.
NewRun(records) ==
    [content |-> records, checksum |-> records,
     units |-> Header + Len(records) + ArenaLength(records),
     longest |-> LongestRecord(records)]

AddUnits(n, run) == n + run.units
TempUsed(rs) == FoldLeft(AddUnits, 0, rs)

\* merge_memory_bytes: a cursor per run and the retained previous value.
AddCursor(n, run) == n + CursorUnits + run.longest
MergeUnits(rs) ==
    FoldLeft(AddCursor, 0, rs) + Max({0} \cup {rs[i].longest : i \in DOMAIN rs})

\* verify_payload: the payload still hashes to the checksum of the header.
Verified(run) == run.content = run.checksum

\* Mutant: the longest record a cursor accepts is refused.
ReadableStrictly(run) ==
    \A i \in DOMAIN run.content : ValueLength(run.content[i][1]) < MaxRecord

\* RunCursor::next refuses a byte value longer than MAX_RECORD_BYTES.
Readable(run) ==
    \A i \in DOMAIN run.content : ValueLength(run.content[i][1]) <= MaxRecord

\* One pop of the heap: the least of the records that the cursors are at.
Pop(p, any) ==
    LET live == {i \in DOMAIN p.left : p.left[i] # <<>>}
        least == CHOOSE i \in live : \A j \in live \ {i} :
                     ~Before(p.left[j][1], p.left[i][1])
    IN [left |-> [p.left EXCEPT ![least] = Tail(@)],
        out  |-> Append(p.out, p.left[least][1])]

\* The k-way merge of the runs: one pop for each record.
Merge(rs) ==
    LET contents == [i \in DOMAIN rs |-> rs[i].content]
    IN FoldLeft(Pop, [left |-> contents, out |-> <<>>], FlattenSeq(contents)).out

NothingCounted == [distinct |-> 0, duplicates |-> 0, samples |-> <<>>, first |-> <<>>]

\* Mutant: `first` moves to the latest row of a value.
CountFromPrevious(acc, r) ==
    IF acc.first # <<>> /\ acc.first[1] = r[1]
    THEN [acc EXCEPT !.duplicates = @ + 1, !.first = r,
                     !.samples = IF Len(@) < MaxSamples
                                 THEN Append(@, <<acc.first[2], r[2]>>) ELSE @]
    ELSE [acc EXCEPT !.distinct = @ + 1, !.first = r]

\* Counting over sorted records: `first` stays at the first row of a value.
CountRecord(acc, r) ==
    IF acc.first # <<>> /\ acc.first[1] = r[1]
    THEN [acc EXCEPT !.duplicates = @ + 1,
                     !.samples = IF Len(@) < MaxSamples
                                 THEN Append(@, <<acc.first[2], r[2]>>) ELSE @]
    ELSE [acc EXCEPT !.distinct = @ + 1, !.first = r]

Count(records) == FoldLeft(CountRecord, NothingCounted, records)

-----------------------------------------------------------------------------
(***************************************************************************)
(* The steps an operation is made of.  Each takes the local state of the   *)
(* operation and returns it changed or with an error; after an error the   *)
(* `?` of the code skips the rest.                                         *)
(***************************************************************************)
Local == [segment |-> segment, runs |-> runs, compactions |-> compactions,
          widest |-> widest, err |-> "none"]

Fail(s, e) == [s EXCEPT !.err = e]
Ok(s) == s.err = "none"

\* Mutant: what the other states hold is not counted.
MemoryFitsAlone(s, more) == SampleUnits + Charge(s.segment) + more <= MemoryCap

\* try_reserve_memory and try_reserve_temp for s and `more` units.
MemoryFits(s, more) ==
    SampleUnits + pressure + Charge(s.segment) + more <= MemoryCap
TempFits(s, more) == TempUsed(s.runs) + more <= TempCap

\* fixed_store_is_full and byte_store_is_full.
Full(s, v) ==
    /\ s.segment.capacity > 0
    /\ \/ Len(s.segment.records) = s.segment.capacity
       \/ ValueLength(v) > s.segment.arena - ArenaLength(s.segment.records)

\* spill_fixed and spill_bytes: the segment is taken, sorted and written while
\* its memory is still charged; the run stays behind.
Spill(s) ==
    LET run == NewRun(InOrder(Range(s.segment.records))) IN
    IF ~mode.directory THEN Fail(s, "limit")
    ELSE IF s.segment.records = <<>> THEN [s EXCEPT !.segment = NoSegment]
    ELSE IF ~TempFits(s, run.units) THEN Fail(s, "limit")
    ELSE IF disk # "writable" THEN Fail(s, "io")
    ELSE [s EXCEPT !.segment = NoSegment, !.runs = Append(@, run)]

\* run::compact on the oldest FanIn runs.  A second round of the loop is never
\* needed: runs are added one at a time and FanIn > 1.
Compact(s) ==
    LET inputs == SubSeq(s.runs, 1, FanIn)
        run == NewRun(Merge(inputs))
    IN
    IF ~Ok(s) \/ Len(s.runs) <= FanIn THEN s
    ELSE IF cancelled THEN Fail(s, "cancelled")
    ELSE IF disk = "gone" THEN Fail(s, "io")
    ELSE IF \E i \in 1..FanIn : ~Verified(inputs[i]) THEN Fail(s, "corrupt")
    ELSE IF ~TempFits(s, run.units) \/ ~MemoryFits(s, MergeUnits(inputs))
         THEN Fail(s, "limit")
    ELSE IF disk # "writable" THEN Fail(s, "io")
    ELSE IF \E i \in 1..FanIn : ~Readable(inputs[i]) THEN Fail(s, "corrupt")
    ELSE [s EXCEPT !.runs = <<run>> \o SubSeq(@, FanIn + 1, Len(@)),
                   !.compactions = @ + 1,
                   !.widest = Max({@, FanIn})]

\* grow_fixed and grow_bytes: whichever of index and arena is full doubles.
Grow(s, v) ==
    LET seg == s.segment
        free == seg.arena - ArenaLength(seg.records)
        records == IF Len(seg.records) = seg.capacity THEN seg.capacity ELSE 0
        arena == IF ValueLength(v) > free
                 THEN Max({seg.arena, ValueLength(v) - free, 1}) ELSE 0
    IN
    IF seg.arena + arena > MaxArena \/ ~MemoryFits(s, records + arena)
    THEN Fail(s, "limit")
    ELSE [s EXCEPT !.segment.capacity = @ + records, !.segment.arena = @ + arena]

\* A size halved k times.
Halve(n, any) == n \div 2
Halved(n, k) == FoldLeft(Halve, n, [i \in 1..k |-> i])

\* The k-th attempt of allocate_fixed_segment or allocate_byte_segment: the
\* desired size halved k times.
Attempt(k, v) ==
    LET assumed == Min({MaxArena, mode.capacity * AssumedLength}) IN
    [records  |-> <<>>,
     capacity |-> Max({1, Halved(mode.capacity, k)}),
     arena    |-> IF mode.kind = "fixed" THEN 0
                  ELSE Max({ValueLength(v), Halved(assumed, k)})]

\* Halving stops when there is nothing left to halve.
Halvings == 0..(MaxArena + mode.capacity)

\* insert_fixed and insert_bytes.
Push(s, v, row) ==
    LET fitting == {k \in Halvings : MemoryFits([s EXCEPT !.segment = NoSegment],
                                                 Charge(Attempt(k, v)))}
        put(seg) == [seg EXCEPT !.records = Append(@, <<v, row>>)]
    IN
    IF ~Ok(s) THEN s
    ELSE IF ValueLength(v) > MaxArena THEN Fail(s, "limit")
    ELSE IF s.segment.capacity > 0 THEN [s EXCEPT !.segment = put(@)]
    ELSE IF fitting = {} THEN Fail(s, "limit")
    ELSE [s EXCEPT !.segment = put(Attempt(Min(fitting), v))]

\* seal: everything buffered goes into runs.
Seal(s) == IF cancelled THEN Fail(s, "cancelled") ELSE Compact(Spill(s))

-----------------------------------------------------------------------------
Init ==
    /\ mode \in Modes
    /\ segment = NoSegment
    /\ runs = <<>>
    /\ compactions = 0
    /\ widest = 0
    /\ column = <<>>
    /\ pressure = 0
    /\ disk = "writable"
    /\ cancelled = FALSE
    /\ status = "open"
    /\ summary = <<>>

\* The locals are stored back; after an error the caller drops the state and
\* with it the segment, the runs and every reservation.
Store(s) ==
    /\ segment' = IF Ok(s) THEN s.segment ELSE NoSegment
    /\ runs' = IF Ok(s) THEN s.runs ELSE <<>>
    /\ compactions' = s.compactions
    /\ widest' = s.widest

\* A full segment is spilled, or grows when there is nowhere to spill to.
MakeRoom(s, v) ==
    IF ~Full(s, v) THEN s
    ELSE IF mode.directory THEN Compact(Spill(s)) ELSE Grow(s, v)

\* ExactState::insert.
Insert(v) ==
    LET row == Len(column) + 1
        s == Compact(Push(MakeRoom(Local, v), v, row))
    IN
    /\ status = "open"
    /\ row <= MaxRows
    /\ Store(s)
    /\ column' = Append(column, v)
    /\ status' = IF Ok(s) THEN "open" ELSE s.err
    /\ UNCHANGED <<mode, pressure, disk, cancelled, summary>>

\* run::merge or finish_*_in_memory, whichever the runs call for.
Result(s) ==
    LET rs == s.runs IN
    IF ~Ok(s) THEN [err |-> s.err]
    ELSE IF disk = "gone" THEN [err |-> "io"]
    ELSE IF \E i \in DOMAIN rs : ~Verified(rs[i]) THEN [err |-> "corrupt"]
    ELSE IF ~MemoryFits(s, MergeUnits(rs)) THEN [err |-> "limit"]
    ELSE IF \E i \in DOMAIN rs : ~Readable(rs[i]) THEN [err |-> "corrupt"]
    ELSE [err |-> "none", counted |-> Count(Merge(rs)), runs |-> Len(rs),
          compactions |-> s.compactions, widest |-> Max({s.widest, Len(rs)})]

ResultInMemory ==
    IF cancelled /\ segment.records # <<>> THEN [err |-> "cancelled"]
    ELSE [err |-> "none", counted |-> Count(InOrder(Range(segment.records))),
          runs |-> 0, compactions |-> 0, widest |-> 0]

\* Mutant: the buffered values go to runs although there may be no directory.
FinishSealed ==
    LET r == Result(Seal(Local)) IN
    /\ status = "open"
    /\ status' = IF r.err = "none" THEN "done" ELSE r.err
    /\ summary' = IF r.err = "none" THEN <<r>> ELSE <<>>
    /\ segment' = NoSegment
    /\ runs' = <<>>
    /\ UNCHANGED <<mode, compactions, widest, column, pressure, disk, cancelled>>

\* ExactState::finish consumes the state.
Finish ==
    LET r == IF runs = <<>> THEN ResultInMemory ELSE Result(Seal(Local)) IN
    /\ status = "open"
    /\ status' = IF r.err = "none" THEN "done" ELSE r.err
    /\ summary' = IF r.err = "none" THEN <<r>> ELSE <<>>
    /\ segment' = NoSegment
    /\ runs' = <<>>
    /\ UNCHANGED <<mode, compactions, widest, column, pressure, disk, cancelled>>

\* The other states of the scan take or release memory between two inserts.
OtherStates ==
    /\ status = "open"
    /\ pressure' \in 0..MaxPressure
    /\ SampleUnits + pressure' + Charge(segment) <= MemoryCap
    /\ UNCHANGED <<mode, segment, runs, compactions, widest, column, disk, cancelled,
                   status, summary>>

\* The spill directory fills up, or disappears with the runs in it.
DiskFails ==
    /\ status = "open"
    /\ disk' \in {"full", "gone"}
    /\ disk # "gone"
    /\ UNCHANGED <<mode, segment, runs, compactions, widest, column, pressure, cancelled,
                   status, summary>>

\* A run file is truncated or altered.
Damage ==
    /\ status = "open"
    /\ \E i \in DOMAIN runs :
        /\ Verified(runs[i])
        /\ \E content \in {Front(runs[i].content)} \cup
                          {[runs[i].content EXCEPT ![1][1] = v] : v \in Values} :
            runs' = [runs EXCEPT ![i].content = content]
    /\ UNCHANGED <<mode, segment, compactions, widest, column, pressure, disk, cancelled,
                   status, summary>>

\* Another thread cancels the operation.
Cancel ==
    /\ status = "open"
    /\ cancelled' = TRUE
    /\ UNCHANGED <<mode, segment, runs, compactions, widest, column, pressure, disk,
                   status, summary>>

Next ==
    \/ \E v \in Values : Insert(v)
    \/ Finish
    \/ OtherStates
    \/ DiskFails
    \/ Damage
    \/ Cancel

Spec == Init /\ [][Next]_vars

-----------------------------------------------------------------------------
Records == Values \X (1..MaxRows)

\* Type invariant.
TypeOK ==
    /\ mode \in Modes
    /\ segment.capacity \in Nat /\ segment.arena \in 0..MaxArena
    /\ segment.records \in Seq(Records)
    /\ \A i \in DOMAIN runs :
        /\ runs[i].content \in Seq(Records) /\ runs[i].checksum \in Seq(Records)
        /\ runs[i].units = NewRun(runs[i].checksum).units
    /\ compactions \in Nat /\ widest \in Nat
    /\ column \in Seq(Values) /\ Len(column) <= MaxRows
    /\ pressure \in 0..MaxPressure
    /\ disk \in {"writable", "full", "gone"} /\ cancelled \in BOOLEAN
    /\ status \in {"open", "done", "limit", "io", "corrupt", "cancelled"}

\* What the summary has to be, from the column alone: the earliest row of a
\* value is its first row, every later one a duplicate, and the samples are the
\* first MaxSamples duplicates in the order of value and row.
FirstRow(v) == Min({i \in DOMAIN column : column[i] = v})
Duplicates == {<<column[i], i>> : i \in {i \in DOMAIN column : i # FirstRow(column[i])}}
ExpectedSamples ==
    LET ordered == InOrder(Duplicates) IN
    [k \in 1..Min({MaxSamples, Len(ordered)}) |->
        <<FirstRow(ordered[k][1]), ordered[k][2]>>]

\* finish is exact whatever was spilled, compacted, grown or allocated smaller
\* than desired on the way, and whatever happened to the run files: the counts
\* and the samples are those of the column.
SummaryIsExact ==
    status = "done" =>
        LET c == summary[1].counted IN
        /\ c.distinct = Cardinality(Range(column))
        /\ c.duplicates = Len(column) - Cardinality(Range(column))
        /\ c.samples = ExpectedSamples

\* The charges of the segment and the runs, with those of the other states,
\* stay inside the two budgets, the records stay inside what was charged, and no
\* merge ever opens more than FanIn runs (MAX_MERGE_FAN_IN).
WithinBudgets ==
    /\ TypeOK
    /\ SampleUnits + pressure + Charge(segment) <= MemoryCap
    /\ TempUsed(runs) <= TempCap
    /\ Len(segment.records) <= segment.capacity
    /\ ArenaLength(segment.records) <= segment.arena
    /\ Len(runs) <= FanIn
    /\ status = "done" => summary[1].widest <= FanIn

\* Without a directory (`Never` in execution/mod.rs) nothing is spilled, and a
\* column that was accepted to its last value is summarised whatever memory the
\* other states hold by then and whatever happened to the disk.
InMemoryFinishes ==
    [][~mode.directory =>
        /\ runs' = <<>>
        /\ status = "open" /\ status' # "open" /\ UNCHANGED column =>
            status' \in {"done", "cancelled"}]_vars

\* CorruptData says that persisted data was truncated or corrupt (error.rs): it is
\* reported only when some run was damaged, or when the column has a value that a
\* run is written with but no cursor accepts.
CorruptMeansDamaged ==
    [][status = "open" /\ status' = "corrupt" =>
        \/ \E i \in DOMAIN runs : ~Verified(runs[i])
        \/ \E i \in DOMAIN column' : ValueLength(column'[i]) > MaxRecord]_vars

===============================================================================
