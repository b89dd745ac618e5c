----------------------------- MODULE MCExecution ------------------------------
(***************************************************************************)
(* Small instances of Execution: contracts with one or two rules, tables   *)
(* of up to five rows, each cut into batches in several ways.              *)
(***************************************************************************)
EXTENDS Execution

\* Five texts.
MCTextLength == (0 :> 0) @@ (1 :> 1) @@ (2 :> 1) @@ (3 :> 2) @@ (4 :> 4)

Batches(taken) == [kind |-> "ok", rows |-> taken]
Cuts(table) ==
    {<<Batches(table)>>, [n \in DOMAIN table |-> Batches(<<table[n]>>)]}
    \cup {<<Batches(SubSeq(table, 1, k)), Batches(<<>>), Batches(SubSeq(table, k + 1, Len(table)))>> :
            k \in {Len(table) \div 2}}

Column(c, rules) == [column |-> c, required |-> FALSE, expected |-> {}, rules |-> rules]
Contract(columnRules, rowRules, datasetRules) ==
    [status |-> "active", max_findings |-> 2, columns |-> columnRules, rows |-> rowRules,
     dataset |-> datasetRules]
ColumnRule(c, rules) == Contract(<<Column(c, rules)>>, <<>>, NoDatasetRules)
RowRule(rule) == Contract(<<>>, <<rule>>, NoDatasetRules)
DatasetRule(rules) == Contract(<<>>, <<>>, rules)
Job(contract, types, batches) ==
    [contract |-> contract, types |-> types, reader |-> types, batches |-> batches, cancellable |-> FALSE]
JobsOf(contracts, types, tables) ==
    {Job(contract, types, cut) : contract \in contracts, cut \in UNION {Cuts(t) : t \in tables}}

R == NoValueRules
D == NoDatasetRules
C(c) == [column |-> c]
L(v) == [literal |-> v]
P(left, op, right, nulls) == [left |-> left, op |-> op, right |-> right, nulls |-> nulls]
Named(rule) == [name |-> "r"] @@ rule
Every(min, max) == [exact |-> {}, min |-> min, max |-> max]
Exactly(n) == [exact |-> {n}, min |-> {}, max |-> {}]
Percent(min, max) == [min |-> min, max |-> max]
Key(columns, nulls) == [columns |-> columns, nulls |-> nulls]

-----------------------------------------------------------------------------
(* An integer and a float column *)

Numbers == <<"int", "float">>
NumberTables ==
    {<<>>,
     <<<<1, 1>>, <<3, NaN>>, <<Null, 2>>, <<2, Null>>>>,
     <<<<1, 3>>, <<1, 3>>, <<4, 3>>>>,
     <<<<5, Null>>, <<Null, Null>>, <<4, 0>>, <<9, -2>>, <<Null, 7>>>>,
     <<<<2, 2>>, <<2, 2>>, <<2, 2>>, <<2, 2>>, <<2, 2>>>>}

NumberColumns ==
    {ColumnRule(1, [R EXCEPT !.not_null = TRUE, !.min = {2}, !.max = {4}]),
     ColumnRule(2, [R EXCEPT !.min = {0}, !.unique = TRUE]),
     ColumnRule(2, [R EXCEPT !.nan = {"allow"}, !.max = {2}]),
     Contract(<<Column(1, [R EXCEPT !.unique = TRUE]), Column(2, [R EXCEPT !.not_null = TRUE, !.nan = {"reject"}])>>,
              <<>>, [D EXCEPT !.row_count = {Every({1}, {4})}])}

NumberRows ==
    {RowRule(Named([compare |-> P(C(1), "lt", L(3), "skip")])),
     RowRule(Named([compare |-> P(L(2), "eq", C(2), "fail")])),
     RowRule(Named([compare |-> P(C(2), "ne", C(2), "equal")])),
     RowRule(Named([compare |-> P(C(1), "gte", C(1), "equal")])),
     RowRule(Named([when |-> P(C(1), "lte", L(3), "skip"), column |-> 2,
                    rules |-> [R EXCEPT !.not_null = TRUE, !.min = {2}, !.max = {2}]])),
     RowRule(Named([when |-> P(C(2), "gt", L(0), "fail"), column |-> 1,
                    rules |-> [R EXCEPT !.min = {2}]]))}

NumberRules ==
    {DatasetRule([D EXCEPT !.null_ratio = (1 :> Percent({}, {25})) @@ (2 :> Percent({50}, {}))]),
     DatasetRule([D EXCEPT !.distinct_count = (2 :> Every({2}, {})), !.distinct_ratio = (2 :> Percent({}, {60})) @@ (1 :> Percent({100}, {}))]),
     DatasetRule([D EXCEPT !.distinct_count = (1 :> Every({1}, {4}))]),
     DatasetRule([D EXCEPT !.distinct_count = (1 :> Exactly(2)), !.distinct_ratio = (2 :> Percent({20}, {90}))]),
     DatasetRule([D EXCEPT !.monotonicity = <<[column |-> 1, direction |-> "increasing", nulls |-> "reject"],
                                              [column |-> 2, direction |-> "strictly_decreasing", nulls |-> "skip"]>>]),
     DatasetRule([D EXCEPT !.monotonicity = <<[column |-> 1, direction |-> "strictly_increasing", nulls |-> "skip"],
                                              [column |-> 2, direction |-> "decreasing", nulls |-> "reject"]>>]),
     DatasetRule([D EXCEPT !.gap = <<[column |-> 1, step |-> 1, tolerance |-> 1, max_gaps |-> 0, nulls |-> "reject"],
                                     [column |-> 2, step |-> 1, tolerance |-> 0, max_gaps |-> 1, nulls |-> "skip"]>>]),
     DatasetRule([D EXCEPT !.sum = <<[column |-> 1, min |-> {}, max |-> {9}], [column |-> 2, min |-> {6}, max |-> {}]>>]),
     DatasetRule([D EXCEPT !.mean = <<[column |-> 1, min |-> {2}, max |-> {}], [column |-> 2, min |-> {}, max |-> {2}]>>]),
     DatasetRule([D EXCEPT !.std_dev = <<[column |-> 1, min |-> {1}, max |-> {}], [column |-> 2, min |-> {}, max |-> {3}]>>]),
     DatasetRule([D EXCEPT !.balance = <<[left |-> 1, right |-> 2, tolerance |-> 1]>>]),
     DatasetRule([D EXCEPT !.dominant = <<[column |-> 1, max |-> 50]>>]),
     DatasetRule([D EXCEPT !.exclusive = <<[columns |-> <<1, 2>>, mode |-> "at_most_one"],
                                           [columns |-> <<1, 2>>, mode |-> "exactly_one"]>>]),
     DatasetRule([D EXCEPT !.composite = <<Key(<<1, 2>>, "equal"), Key(<<2, 1>>, "reject")>>]),
     DatasetRule([D EXCEPT !.conditional = <<[when |-> P(C(2), "gt", L(0), "skip"), columns |-> <<1>>, nulls |-> "reject"]>>])}

\* Totals beyond their range and values that are not finite.
ExtremeTables ==
    {<<<<100, 100>>, <<100, 100>>, <<100, -100>>, <<-100, 3>>>>,
     <<<<1, 2>>, <<2, Infinity>>>>, <<<<1, Infinity>>, <<3, 2>>>>, <<<<1, NaN>>, <<1, 2>>>>}
ExtremeRules ==
    {DatasetRule([D EXCEPT !.sum = <<[column |-> 1, min |-> {}, max |-> {9}], [column |-> 2, min |-> {0}, max |-> {50}]>>]),
     DatasetRule([D EXCEPT !.mean = <<[column |-> 2, min |-> {1}, max |-> {2}]>>, !.std_dev = <<[column |-> 2, min |-> {1}, max |-> {}]>>]),
     DatasetRule([D EXCEPT !.balance = <<[left |-> 2, right |-> 2, tolerance |-> 0]>>]),
     DatasetRule([D EXCEPT !.gap = <<[column |-> 2, step |-> 1, tolerance |-> 0, max_gaps |-> 0, nulls |-> "skip"]>>])}

\* Values that rise, by long steps and short ones.
RisingTables == {<<<<1, 1>>, <<5, Null>>, <<6, 4>>, <<9, 5>>>>}
RisingRules ==
    {DatasetRule([D EXCEPT !.gap = <<[column |-> c, step |-> 1, tolerance |-> 0, max_gaps |-> 1, nulls |-> "skip"]>>]) : c \in {1, 2}}
    \cup {DatasetRule([D EXCEPT !.sum = <<[column |-> c, min |-> {21}, max |-> {21}]>>]) : c \in {1, 2}}

\* More violations than the report keeps and than the memory holds.
Unlimited(contract) == [contract EXCEPT !.max_findings = 5]

NumberJobs ==
    JobsOf(NumberColumns \cup NumberRows \cup NumberRules, Numbers, NumberTables)
    \cup JobsOf(ExtremeRules, Numbers, ExtremeTables)
    \cup JobsOf(RisingRules, Numbers, RisingTables)
    \cup JobsOf({Unlimited(c) : c \in NumberColumns \cup NumberRows}, Numbers,
                {<<<<9, 9>>, <<9, 9>>, <<9, 9>>, <<9, 9>>, <<9, 9>>>>})

-----------------------------------------------------------------------------
(* Other types *)

Words == <<"text", "bool", "uint">>
WordTables == {<<<<1, 0, 1>>, <<Null, 1, 2>>, <<3, Null, 0>>, <<4, 1, Null>>>>, <<<<2, 1, 1>>, <<2, 1, 1>>, <<0, 1, 1>>>>}
WordContracts ==
    {ColumnRule(1, [R EXCEPT !.pattern = {{1, 3}}, !.allowed = {{1, 2}}, !.unique = TRUE]),
     ColumnRule(1, [R EXCEPT !.min_length = {1}, !.max_length = {2}]),
     ColumnRule(2, [R EXCEPT !.not_null = TRUE, !.unique = TRUE]),
     RowRule(Named([compare |-> P(C(2), "eq", L(1), "equal")])),
     RowRule(Named([compare |-> P(C(1), "lte", L(2), "skip")])),
     RowRule(Named([when |-> P(C(2), "ne", L(0), "equal"), column |-> 1,
                    rules |-> [R EXCEPT !.pattern = {{1, 3}}, !.allowed = {{4}}, !.not_null = TRUE]])),
     RowRule(Named([when |-> P(C(3), "gte", L(1), "skip"), column |-> 2, rules |-> [R EXCEPT !.not_null = TRUE]])),
     DatasetRule([D EXCEPT !.monotonicity = <<[column |-> 1, direction |-> "increasing", nulls |-> "skip"]>>,
                           !.exclusive = <<[columns |-> <<1, 2, 3>>, mode |-> "at_most_one"]>>]),
     DatasetRule([D EXCEPT !.dominant = <<[column |-> 2, max |-> 0]>>])}

Odd == <<"nested", "other", "binary", "decimal", "timestamp">>
OddTables == {<<<<Null, Null, Null, Null, Null>>, <<1, 1, 1, 1, 1>>>>, <<<<Null, Null, 1, 2, 3>>, <<Null, Null, Null, 1, 4>>>>}
OddContracts ==
    {ColumnRule(1, [R EXCEPT !.unique = TRUE, !.not_null = TRUE]),
     ColumnRule(2, [R EXCEPT !.not_null = TRUE]),
     ColumnRule(4, [R EXCEPT !.min = {2}]), ColumnRule(5, [R EXCEPT !.max = {3}]),
     ColumnRule(3, [R EXCEPT !.unique = TRUE, !.min_length = {2}]),
     DatasetRule([D EXCEPT !.distinct_count = (1 :> Every({1}, {}))]),
     DatasetRule([D EXCEPT !.monotonicity = <<[column |-> 3, direction |-> "increasing", nulls |-> "skip"]>>]),
     DatasetRule([D EXCEPT !.dominant = <<[column |-> 2, max |-> 40]>>]),
     DatasetRule([D EXCEPT !.composite = <<Key(<<2, 3>>, "reject")>>]),
     DatasetRule([D EXCEPT !.gap = <<[column |-> 5, step |-> 1, tolerance |-> 0, max_gaps |-> 0, nulls |-> "reject"]>>]),
     RowRule(Named([when |-> P(C(5), "lte", L(3), "skip"), column |-> 3, rules |-> [R EXCEPT !.not_null = TRUE]])),
     RowRule(Named([compare |-> P(C(4), "eq", C(4), "skip")]))}

OtherJobs == JobsOf(WordContracts, Words, WordTables) \cup JobsOf(OddContracts, Odd, OddTables)

-----------------------------------------------------------------------------
(* Contracts that are refused, or are not what they seem *)

Mixed == <<"int", "float", "text", "bool", "decimal", "nested">>
MixedTable == <<<<1, 1, 1, 1, 1, 1>>, <<0, 2, 2, 0, Null, Null>>>>
Twice(rule) == Contract(<<>>, <<Named(rule), Named(rule)>>, D)
Expecting(c, type) == Contract(<<[Column(c, R) EXCEPT !.expected = {type}]>>, <<>>, D)
Refusable ==
    {ColumnRule(c, rules) : c \in {1, 3, 4, 6, 7},
                            rules \in {R, [R EXCEPT !.min = {1}], [R EXCEPT !.pattern = {{1}}],
                                       [R EXCEPT !.nan = {"reject"}], [R EXCEPT !.unique = TRUE]}}
    \cup {ColumnRule(1, [R EXCEPT !.min = {101}]), ColumnRule(1, [R EXCEPT !.min = {3}, !.max = {2}]),
          ColumnRule(2, [R EXCEPT !.max = {Infinity}]), ColumnRule(3, [R EXCEPT !.pattern = {BadPattern}]),
          ColumnRule(3, [R EXCEPT !.min_length = {2}, !.max_length = {1}]),
          Expecting(1, "int"), Expecting(2, "int"), Expecting(7, "int"),
          Contract(<<[Column(7, R) EXCEPT !.required = TRUE]>>, <<>>, D),
          [ColumnRule(1, [R EXCEPT !.min = {1}]) EXCEPT !.status = "draft"],
          Twice([compare |-> P(C(1), "eq", L(1), "skip")])}
    \cup {RowRule(Named([compare |-> P(left, op, right, "skip")])) :
            left \in {C(1), C(2), C(4), L(1)}, right \in {C(1), C(3), C(6), C(7), L(1), L(101)}, op \in {"eq", "lt"}}
    \cup {RowRule(Named([when |-> P(C(1), "eq", L(1), "skip"), column |-> c, rules |-> [R EXCEPT !.min = {1}]])) : c \in {2, 3, 7}}
    \cup {DatasetRule([D EXCEPT !.sum = <<[column |-> c, min |-> {m}, max |-> {}]>>]) : c \in {1, 2, 3, 7}, m \in {0, Infinity}}
    \cup {DatasetRule([D EXCEPT !.mean = <<[column |-> c, min |-> {m}, max |-> {}]>>]) : c \in {1, 5}, m \in {0, NaN}}
    \cup {DatasetRule([D EXCEPT !.balance = <<[left |-> 1, right |-> c, tolerance |-> t]>>]) : c \in {2, 3, 7}, t \in {0, -1}}
    \cup {DatasetRule([D EXCEPT !.gap = <<[column |-> c, step |-> x, tolerance |-> t, max_gaps |-> 0, nulls |-> "skip"]>>]) :
            c \in {1, 5, 7}, x \in {0, 1}, t \in {0, NaN}}
    \cup {DatasetRule([D EXCEPT !.dominant = <<[column |-> c, max |-> m]>>]) : c \in {1, 7}, m \in {50, 101}}
    \cup {DatasetRule([D EXCEPT !.exclusive = <<[columns |-> columns, mode |-> "exactly_one"]>>]) : columns \in {<<1>>, <<1, 5>>, <<1, 7>>}}
    \cup {DatasetRule([D EXCEPT !.composite = <<Key(columns, "equal")>>]) : columns \in {<<1>>, <<1, 6>>, <<1, 7>>}}
    \cup {DatasetRule([D EXCEPT !.conditional = <<[when |-> P(C(c), "eq", L(1), "skip"), columns |-> columns, nulls |-> "equal"]>>]) :
            c \in {1, 7}, columns \in {<<>>, <<1>>, <<7>>}}
    \cup {DatasetRule([D EXCEPT !.null_ratio = (c :> Percent({low}, {high}))]) : c \in {1, 7}, low \in {0, 60}, high \in {50, 101}}
    \cup {DatasetRule([D EXCEPT !.distinct_count = (7 :> Every({}, {}))]),
          DatasetRule([D EXCEPT !.monotonicity = <<[column |-> 7, direction |-> "increasing", nulls |-> "skip"]>>])}

RefusableJobs == {Job(contract, Mixed, <<Batches(MixedTable)>>) : contract \in Refusable}

-----------------------------------------------------------------------------
(* Streams that fail or are cancelled *)

Rules == Contract(<<Column(1, [R EXCEPT !.min = {2}])>>, <<>>, [D EXCEPT !.composite = <<Key(<<1, 2>>, "equal")>>])
Good == Batches(<<<<1, 1>>, <<2, Null>>>>)
Streams == {<<Good, [kind |-> "unreadable", rows |-> <<>>]>>, <<Good, [kind |-> "schema_mismatch", rows |-> <<>>], Good>>, <<Good, Good>>}
StreamJobs ==
    {[Job(Rules, Numbers, stream) EXCEPT !.cancellable = TRUE] : stream \in Streams}
    \cup {[Job(Rules, Numbers, <<Good>>) EXCEPT !.reader = Words]}

MCJobs == NumberJobs \cup OtherJobs \cup RefusableJobs \cup StreamJobs

\* For the run about the documents: one table that keeps none of four rules, with an
\* infinite value, integers beyond the exact floats, values that fall and a column of
\* nulls.
DocumentRules ==
    DatasetRule([D EXCEPT
        !.sum = <<[column |-> 1, min |-> {}, max |-> {10}]>>,
        !.balance = <<[left |-> 2, right |-> 3, tolerance |-> 0]>>,
        !.gap = <<[column |-> 2, step |-> 1, tolerance |-> 0, max_gaps |-> 0, nulls |-> "skip"]>>,
        !.distinct_count = (4 :> Every({1}, {}))])
DocumentJobs ==
    JobsOf({DocumentRules}, <<"float", "int", "int", "int">>,
           {<<<<Infinity, 65, 64, Null>>, <<1, 0, 0, Null>>>>})
=============================================================================
