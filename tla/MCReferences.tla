----------------------------- MODULE MCReferences -----------------------------
(***************************************************************************)
(* Small instances of References.  The subject has two columns, a dataset  *)
(* "x" two and a dataset "y" one.                                          *)
(***************************************************************************)
EXTENDS References

\* Two decimals of different scale have one tag.
MCTag == [int |-> "int", tenths |-> "decimal", cents |-> "decimal"]

Batch(rows) == [kind |-> "ok", rows |-> rows]
Unreadable == [kind |-> "unreadable", rows |-> <<>>]
OtherSchema == [kind |-> "other_schema", rows |-> <<>>]

Subject(a, b, batches) == [types |-> [a |-> a, b |-> b], batches |-> batches]
Row(a, b) == [a |-> a, b |-> b]
Subjects ==
    {Subject("int", "int", batches) : batches \in
        {<<>>,
         <<Batch(<<Row(1, 2)>>), Batch(<<Row(1, 2), Row(2, 1)>>)>>,
         <<Batch(<<Row(3, Null), Row(3, 1)>>), Batch(<<Row(Null, 4), Row(2, 4)>>)>>,
         <<Batch(<<Row(1, 1)>>), Unreadable>>,
         <<Batch(<<Row(1, 1)>>), OtherSchema>>}}
    \cup {Subject("tenths", "int", <<Batch(<<Row(1, 1)>>)>>)}

X(type, batches) == [types |-> [id |-> type, alt |-> "int"], batches |-> batches]
XRow(id, alt) == [id |-> id, alt |-> alt]
Xs == {X("int", <<Batch(<<XRow(1, 2), XRow(Null, 1)>>), Batch(<<XRow(2, 1)>>)>>),
       X("int", <<>>),
       X("int", <<Batch(<<XRow(1, 1)>>), Unreadable>>),
       X("cents", <<Batch(<<XRow(1, 1)>>), OtherSchema>>),
       X("cents", <<Batch(<<XRow(1, 1)>>)>>)}
Y == [types |-> [id |-> "int"], batches |-> <<Batch(<<[id |-> 1], [id |-> 2]>>)>>]

To(name, dataset) == [name |-> name, dataset |-> dataset]
Bounds == UNION {{<<To("x", x)>>, <<To("x", x), To("y", Y)>>} : x \in Xs}
          \cup {<<>>, <<To("y", Y)>>, <<To("y", Y), To("y", Y)>>}

Rule(reference, columns, own, nulls) ==
    [reference |-> reference, columns |-> columns, local |-> own, nulls |-> nulls]
Rules == {Rule("x", <<"id">>, <<"a">>, "skip"), Rule("x", <<"id">>, <<"b">>, "reject"),
          Rule("x", <<"alt">>, <<"b">>, "skip"),
          Rule("x", <<"id", "alt">>, <<"a", "b">>, "reject"),
          Rule("y", <<"id">>, <<"a">>, "reject"), Rule("y", <<"other">>, <<"a">>, "skip")}
RuleLists == {<<>>} \cup {<<p>> : p \in Rules} \cup {<<p, q>> : p \in Rules, q \in Rules}

Ratio(reference) == [reference |-> reference, min |-> -50, max |-> 50]
DeltaLists == {<<>>, <<Ratio("x")>>, <<Ratio("y"), Ratio("y")>>}

MCJobs == {[plans |-> p, deltas |-> d, bound |-> b, subject |-> s] :
             p \in RuleLists, d \in DeltaLists, b \in Bounds, s \in Subjects}

\* Two rules on one bound dataset with different key columns.
DistinctColumns ==
    {[plans |-> <<Rule("x", <<"id">>, <<"a">>, "skip"), Rule("x", <<"alt">>, <<"b">>, "skip")>>,
      deltas |-> <<>>,
      bound |-> <<To("x", X("int", <<Batch(<<XRow(1, 2)>>)>>))>>,
      subject |-> Subject("int", "int", <<Batch(<<Row(1, 2)>>)>>)]}

\* One rule reads the tenths of column a as the cents of the dataset, through the
\* scan of a rule whose column has the right type.
SharedScan ==
    {[plans |-> <<Rule("x", <<"id">>, <<"b">>, "skip"), Rule("x", <<"id">>, <<"a">>, "skip")>>,
      deltas |-> <<>>,
      bound |-> <<To("x", X("cents", <<Batch(<<XRow(1, 1)>>)>>))>>,
      subject |-> Subject("tenths", "cents", <<Batch(<<Row(1, 1)>>)>>)]}
===============================================================================
