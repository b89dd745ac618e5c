------------------------------ MODULE MCReceipts ------------------------------
(***************************************************************************)
(* Small instances of Receipts: three partitions of which one is empty, a  *)
(* rewritten file with as many rows, an empty dataset and a file that      *)
(* cannot be read; a contract on one column and on both; a policy without  *)
(* minimum, one on a column that has no rule, and one that allows a        *)
(* violation; no sample, and one.                                          *)
(***************************************************************************)
EXTENDS Receipts

Set(parts) == [columns |-> <<"a", "b">>, parts |-> parts, readable |-> TRUE, format |-> "csv"]

MCDatasets ==
    {Set(<<<<<<<<"good", "null">>>>>>, <<>>, <<<<<<"bad", "good">>>>, <<>>>>>>),
     Set(<<<<<<<<"bad", "good">>>>>>, <<>>, <<<<<<"good", "bad">>>>>>>>),
     [Set(<<>>) EXCEPT !.readable = FALSE]}

MCContracts == {[columns |-> {"a"}], [columns |-> {"a", "c"}], [columns |-> {"a", "b"}]}

Policy(max, minimum) == [max_violations |-> max, minimum_evaluated |-> minimum]
MCPolicies == {Policy(0, {}), Policy(1, {<<"b", 0>>}), Policy(1, {<<"a", 2>>})}

=============================================================================
