-------------------------------- MODULE MCDiff --------------------------------
(***************************************************************************)
(* Small instances of Diff: four keys in two partitions, two of them with *)
(* the same display string, and the order of display strings is not the    *)
(* one of the keys.                                                        *)
(***************************************************************************)
EXTENDS Diff

MCDisplay == <<2, 1, 2, 3>>
MCPartitionOf == <<1, 1, 2, 1>>

R(key, value, size) == [key |-> key, columns |-> <<key, value>>, size |-> size]
Ok(rows) == [kind |-> "ok", rows |-> rows]
Bad(kind) == [kind |-> kind, rows |-> <<>>]
Data(batches) == [schema |-> "s", keyed |-> TRUE, batches |-> batches]

Full == Data(<<Ok(<<R(1, 1, 1), R(2, 1, 1)>>), Ok(<<R(3, 1, 2)>>)>>)
Empty == Data(<<>>)
Partial == Data(<<Ok(<<R(3, 1, 2), R(2, 2, 1)>>)>>)
Other == Data(<<Ok(<<R(1, 2, 2), R(2, 2, 3), R(3, 2, 1)>>)>>)
Good == {Full, Empty, Partial, Other}

Twice == Data(<<Ok(<<R(1, 1, 1)>>), Ok(<<R(1, 2, 1)>>)>>)
Flawed == {Twice, Data(<<Ok(<<R(1, 1, 5)>>)>>),
           Data(<<Ok(<<R(2, 1, 1)>>), Bad("reader")>>),
           Data(<<Ok(<<R(2, 1, 1)>>), Bad("mismatch")>>),
           [Full EXCEPT !.schema = "t"],
           [Full EXCEPT !.keyed = FALSE]}

Pairs == (Good \X Good) \cup ({Full} \X Flawed) \cup (Flawed \X {Full})

Job(pair, spill, output, samples, records, memory, storage) ==
    [before |-> pair[1], after |-> pair[2], keys |-> 1, spill |-> spill, hinted |-> FALSE,
     output |-> output, max_samples |-> samples, max_records |-> records,
     max_memory |-> memory, max_temp |-> storage]

\* Budgets that are ample, that refuse in the middle, and that refuse at once.
Budgets == {<<40, 40>>, <<14, 40>>, <<8, 40>>, <<40, 13>>, <<3, 3>>}
Outputs == {<<"none", 0, 5>>, <<"none", 1, 5>>, <<"jsonl", 2, 5>>, <<"jsonl", 1, 2>>, <<"arrow", 2, 5>>}

MCJobs ==
    {Job(pair, spill, o[1], o[2], o[3], b[1], b[2]) :
        pair \in Pairs, spill \in {"auto", "never"}, o \in Outputs, b \in Budgets}
    \cup {[Job(<<Full, Partial>>, "auto", "none", 2, 5, memory, 0) EXCEPT !.hinted = TRUE]
            @@ [input_bytes |-> 3, rows |-> 5, row_bytes |-> 1] : memory \in {13, 15}}
    \cup {[Job(<<Full, Partial>>, "auto", "none", 2, 5, 40, 40) EXCEPT !.keys = 0]}
===============================================================================
