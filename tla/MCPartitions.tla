----------------------------- MODULE MCPartitions -----------------------------
(***************************************************************************)
(* Small instances of Partitions.                                          *)
(***************************************************************************)
EXTENDS Partitions

\* Rows count from zero.
Good(n, hits) == [rows |-> n, values |-> n, hits |-> hits, fails |-> FALSE]
Unreadable == [rows |-> 0, values |-> 0, hits |-> <<>>, fails |-> TRUE]

Clean == <<Good(2, <<>>)>>
Empty == <<>>
One == <<Good(1, <<0>>)>>
\* Two rules: the second kernel meets row 0 after the first has met row 1.
Dirty == <<Good(2, <<1, 0>>)>>
Longer == <<Good(1, <<0>>), Good(2, <<0, 1>>)>>
Broken == <<Good(1, <<0>>), Unreadable>>

MCInputs == {<<One, Dirty>>, <<Clean, Longer, Dirty>>, <<Longer, Empty, Dirty>>,
             <<Dirty, Broken, Longer>>, <<Broken, Broken, Clean>>}
===============================================================================
