----------------------------- MODULE DatasetRules -----------------------------
(***************************************************************************)
(* The rules that look at the whole dataset: the state each one keeps from *)
(* row to row and its verdict at the end (execution/dataset_state.rs,      *)
(* execution/total.rs, execution/ordering.rs, execution/exclusive.rs), and *)
(* how they are checked against a schema first (contract/dataset.rs and    *)
(* validate_semantics of contract/v2.rs).  Reference and row-count-delta   *)
(* rules are the subject of References.                                    *)
(*                                                                         *)
(* The rules of one kind form a family.  Every family has a first state, a *)
(* Take that a row goes through, and a Close that gives the findings once  *)
(* the number of rows is known.  Ratios are percentages, compared exactly. *)
(* Float arithmetic is exact up to FloatMax and then infinite.  Integers   *)
(* are rounded where they become floats; the rounding of additions and     *)
(* divisions is abstracted, infinities and NaN are not.  Exact states are  *)
(* those of ExactState: here a sequence of keys with their rows, in order  *)
(* of row.                                                                 *)
(***************************************************************************)
EXTENDS RowRules, Functions

CONSTANTS
    TotalMax,       \* the largest i128
    FloatExact,     \* 2^53: up to here every integer is a float
    Budget,         \* different values the map of frequencies can hold
    SampleLimit     \* max_samples of the limits

ASSUME DatasetRulesAssumption ==
    /\ {TotalMax, FloatExact, Budget, SampleLimit} \subseteq Nat
    /\ TotalMax < 1000 /\ IntMax <= 2 * FloatExact

\* In the order of DatasetState::update, and of its finish.
UpdateOrder == <<"null_ratio", "distinct", "monotonicity", "gap", "sum", "statistic",
                 "balance", "dominant", "conditional", "exclusive", "composite">>
CloseOrder == <<"balance", "dominant", "statistic", "sum", "gap", "row_count", "null_ratio",
                "distinct", "composite", "conditional">>
Families == Range(UpdateOrder) \cup Range(CloseOrder)

Abs(x) == Max({x, -x})

-----------------------------------------------------------------------------
(* Float arithmetic on integers, Infinity, -Infinity and NaN *)

Infinite(x) == x \in {Infinity, -Infinity}
Rounded(x) == IF x > FloatMax THEN Infinity ELSE IF x < -FloatMax THEN -Infinity ELSE x

Plus(x, y) ==
    CASE NaN \in {x, y} -> NaN
      [] NaN \notin {x, y} /\ Infinite(x) -> IF y = -x THEN NaN ELSE x
      [] NaN \notin {x, y} /\ ~Infinite(x) /\ Infinite(y) -> y
      [] OTHER -> Rounded(x + y)
Minus(x, y) == Plus(x, IF y = NaN THEN NaN ELSE -y)
Above(x, y) == NaN \notin {x, y} /\ x > y
Below(x, y) == NaN \notin {x, y} /\ x < y

\* `as f64` of an integer: to the nearest float, and between two to the one with an
\* even mantissa.  A float is left as it is.
AsFloat(v) ==
    CASE ~Finite(v) \/ v \in -FloatExact..FloatExact \/ v % 2 = 0 -> v
      [] OTHER -> IF (v - 1) % 4 = 0 THEN v - 1 ELSE v + 1

-----------------------------------------------------------------------------
(* Accumulators *)

\* Neumaier summation.
NoFloats == [sum |-> 0, compensation |-> 0]
AddFloat(t, v) ==
    LET total == Plus(t.sum, v)
        lost == IF NaN \notin {t.sum, v} /\ Abs(t.sum) >= Abs(v)
                THEN Plus(Minus(t.sum, total), v) ELSE Plus(Minus(v, total), t.sum)
    IN [sum |-> total, compensation |-> Plus(t.compensation, lost)]
FloatTotal(t) == Plus(t.sum, t.compensation)

\* The moments of Welford's recurrence in exact arithmetic.  An infinite value
\* makes the mean infinite and the squares NaN; the value after it makes the mean
\* NaN as well.  `special` is 0 as long as everything is finite, else that mean.
NoMoments == [count |-> 0, sum |-> 0, squares |-> 0, special |-> 0]
Observe(m, v) ==
    IF m.special = 0 /\ Finite(v)
    THEN [m EXCEPT !.count = @ + 1, !.sum = @ + v, !.squares = @ + v * v]
    ELSE [m EXCEPT !.count = @ + 1, !.special = IF @ = 0 THEN v ELSE NaN]

\* The mean is sum / count, the deviation the root of Spread / count^2.
Spread(m) == m.count * m.squares - m.sum * m.sum
MeanBelow(m, b) == IF m.special = 0 THEN m.sum < b * m.count ELSE Below(m.special, b)
MeanAbove(m, b) == IF m.special = 0 THEN m.sum > b * m.count ELSE Above(m.special, b)
DeviationBelow(m, b) == m.special = 0 /\ b > 0 /\ Spread(m) < (b * m.count) * (b * m.count)
DeviationAbove(m, b) == m.special = 0 /\ (b < 0 \/ Spread(m) > (b * m.count) * (b * m.count))

NoFrequencies == [counts |-> <<>>, total |-> 0, used |-> 0, err |-> Ok]

\* Mutant: a key that is already there is charged again.
CountCharged(f, v) ==
    IF f.used + 1 > Budget THEN [f EXCEPT !.total = @ + 1, !.used = @ + 1, !.err = "dominant_value_map"]
    ELSE [f EXCEPT !.total = @ + 1, !.used = @ + 1,
                   !.counts = [w \in DOMAIN @ \cup {v} |->
                                IF w \notin DOMAIN @ THEN 1 ELSE @[w] + IF w = v THEN 1 ELSE 0]]

\* Frequencies::add charges for a new key before it stores it.
Count(f, v) ==
    IF v \in DOMAIN f.counts THEN [f EXCEPT !.total = @ + 1, !.counts[v] = @ + 1]
    ELSE IF f.used + 1 > Budget THEN [f EXCEPT !.total = @ + 1, !.used = @ + 1, !.err = "dominant_value_map"]
    ELSE [f EXCEPT !.total = @ + 1, !.used = @ + 1,
                   !.counts = [w \in DOMAIN @ \cup {v} |-> IF w = v THEN 1 ELSE @[w]]]
MostCommon(f) == CHOOSE n \in Range(f.counts) : \A k \in Range(f.counts) : k <= n

\* An exact state holds keys with their rows, in the order of the rows.  Every row
\* whose key an earlier row has is a duplicate; the samples are the first of them
\* in the order of key and row, findings of their own.
KeyBefore(k, l) == \E i \in DOMAIN k : k[i] < l[i] /\ \A j \in 1..i - 1 : k[j] = l[j]
EntryBefore(d, e) == KeyBefore(d.key, e.key) \/ (d.key = e.key /\ d.row < e.row)
Duplicates(entries) ==
    {entries[i] : i \in {i \in DOMAIN entries : \E j \in 1..i - 1 : entries[j].key = entries[i].key}}

Finding(rule, column, row) == [rule |-> rule, column |-> column, row |-> row]
Closing(found) == [found |-> found, unsampled |-> 0]
CloseExact(entries, rule, column) ==
    LET ordered == SetToSortSeq(Duplicates(entries), EntryBefore)
        sampled == Min({SampleLimit, Len(ordered)})
    IN [found |-> [i \in 1..sampled |-> Finding(rule, column, {ordered[i].row})],
        unsampled |-> Len(ordered) - sampled]

-----------------------------------------------------------------------------
(* Rows: each Take has the state after the row, the findings, the error *)

Step(s) == [state |-> s, found |-> <<>>, err |-> Ok]
Reporting(s, finding) == [state |-> s, found |-> <<finding>>, err |-> Ok]
Failing(s, code) == [state |-> s, found |-> <<>>, err |-> code]

TakeNull(rule, s, row) == Step(IF row[rule.column] = Null THEN s + 1 ELSE s)

\* insert_exact_scalar has no form for nested and other types.
TakeDistinct(rule, type, s, row) ==
    LET v == row[rule.column]
    IN CASE v = Null -> Step([s EXCEPT !.saw_null = TRUE])
         [] v # Null /\ type \notin ScalarTypes -> Failing(s, "unsupported_type")
         [] OTHER -> Step([s EXCEPT !.seen = @ \cup {v}])

Follows(direction, previous, next) ==
    CASE direction = "increasing" -> previous <= next
      [] direction = "strictly_increasing" -> previous < next
      [] direction = "decreasing" -> previous >= next
      [] direction = "strictly_decreasing" -> previous > next

\* A row out of order is reported and becomes the one to compare with.
TakeOrdering(rule, type, previous, row, n) ==
    LET v == row[rule.column]
        finding == Finding("monotonicity", rule.column, {n})
    IN CASE v = Null -> IF rule.nulls = "reject" THEN Reporting(previous, finding) ELSE Step(previous)
         [] v # Null /\ type \notin BoundTypes \cup {"bool", "text"} -> Failing(previous, "unsupported_type")
         [] v # Null /\ \E p \in previous : ~Follows(rule.direction, p, v) -> Reporting({v}, finding)
         [] OTHER -> Step({v})

\* distance: signed, a step back is never longer than the expected step.
StepTo(type, previous, next) ==
    IF type = "uint" THEN Minus(AsFloat(next), AsFloat(previous)) ELSE AsFloat(Minus(next, previous))
TakeGap(rule, type, s, row, n) ==
    LET v == row[rule.column]
        long == \E p \in s.previous : Above(StepTo(type, p, v), rule.step + rule.tolerance)
    IN CASE v = Null -> IF rule.nulls = "reject"
                        THEN Reporting(s, Finding("gap_detection", rule.column, {n})) ELSE Step(s)
         [] v # Null /\ long -> Step([previous |-> {v}, gaps |-> s.gaps + 1,
                                      first |-> IF s.first = {} THEN {n} ELSE s.first])
         [] OTHER -> Step([s EXCEPT !.previous = {v}])

\* Total::add_integer: integers are added in 128 bits, checked.
LeavesRange(total) == total \notin -TotalMax - 1..TotalMax

\* accumulate: every value that is not null, integers exactly, floats compensated.
TakeSum(rule, type, s, row) ==
    LET v == row[rule.column]
    IN CASE v = Null -> Step(s)
         [] v # Null /\ type = "float" -> Step(AddFloat(s, v))
         [] v # Null /\ type # "float" /\ LeavesRange(s + v) -> Failing(s, "overflow")
         [] OTHER -> Step(s + v)

TakeStatistic(rule, s, row) == Step(IF row[rule.column] = Null THEN s ELSE Observe(s, AsFloat(row[rule.column])))

\* Both totals are floats, whatever the columns are.
AddPresent(t, v) == IF v = Null THEN t ELSE AddFloat(t, AsFloat(v))
TakeBalance(rule, s, row) ==
    Step([left |-> AddPresent(s.left, row[rule.left]), right |-> AddPresent(s.right, row[rule.right])])

\* A null counts as the value the column held.
TakeDominant(rule, type, s, row) ==
    LET v == row[rule.column]
        counted == Count(s, v)
    IN IF v # Null /\ type \notin ScalarTypes THEN Failing(s, "unsupported_type")
       ELSE [state |-> counted, found |-> <<>>, err |-> counted.err]

\* The key of a composite or conditional rule; null components have a marker of
\* their own, so that nulls are equal to each other and to nothing else.
KeyOf(rule, row) == [i \in DOMAIN rule.columns |-> row[rule.columns[i]]]
TakeKey(name, rule, types, entries, row, n) ==
    LET key == KeyOf(rule, row)
    IN CASE \E c \in Range(rule.columns) : row[c] # Null /\ types[c] \notin ScalarTypes ->
              Failing(entries, "unsupported_type")
         [] Null \in Range(key) /\ rule.nulls = "reject" -> Reporting(entries, Finding(name, 0, {n}))
         [] OTHER -> Step(Append(entries, [key |-> key, row |-> n]))

TakeConditional(rule, types, entries, row, n) ==
    IF Outcome(rule.when, row) = "true" THEN TakeKey("conditional_unique", rule, types, entries, row, n)
    ELSE Step(entries)

\* The bitmap algebra of exclusive::violations, one row of it.
Presence(columns, row) ==
    FoldLeft(LAMBDA p, c : [once |-> p.once \/ row[c] # Null,
                            twice |-> p.twice \/ (p.once /\ row[c] # Null)],
             [once |-> FALSE, twice |-> FALSE], columns)
TakeExclusive(rule, s, row, n) ==
    LET p == Presence(rule.columns, row)
    IN IF p.twice \/ (rule.mode = "exactly_one" /\ ~p.once)
       THEN Reporting(s, Finding("mutually_exclusive", 0, {n})) ELSE Step(s)

FirstState(family, rule, types) ==
    CASE family = "null_ratio" -> 0
      [] family = "distinct" -> [seen |-> {}, saw_null |-> FALSE]
      [] family = "monotonicity" -> {}
      [] family = "gap" -> [previous |-> {}, gaps |-> 0, first |-> {}]
      [] family = "sum" -> IF types[rule.column] = "float" THEN NoFloats ELSE 0
      [] family = "statistic" -> NoMoments
      [] family = "balance" -> [left |-> NoFloats, right |-> NoFloats]
      [] family = "dominant" -> NoFrequencies
      [] OTHER -> <<>>

Take(family, rule, types, s, row, n) ==
    CASE family = "null_ratio" -> TakeNull(rule, s, row)
      [] family = "distinct" -> TakeDistinct(rule, types[rule.column], s, row)
      [] family = "monotonicity" -> TakeOrdering(rule, types[rule.column], s, row, n)
      [] family = "gap" -> TakeGap(rule, types[rule.column], s, row, n)
      [] family = "sum" -> TakeSum(rule, types[rule.column], s, row)
      [] family = "statistic" -> TakeStatistic(rule, s, row)
      [] family = "balance" -> TakeBalance(rule, s, row)
      [] family = "dominant" -> TakeDominant(rule, types[rule.column], s, row)
      [] family = "conditional" -> TakeConditional(rule, types, s, row, n)
      [] family = "exclusive" -> TakeExclusive(rule, s, row, n)
      [] family = "composite" -> TakeKey("composite_unique", rule, types, s, row, n)

\* Mutant: the state does not survive the batch.
TakeBatchAnew(family, rule, types, s, batch, offset) ==
    LET step(t, i) == LET u == Take(family, rule, types, t.state, batch[i], offset + i)
                      IN IF t.err # Ok THEN t ELSE [u EXCEPT !.found = t.found \o @]
    IN FoldLeft(step, Step(FirstState(family, rule, types)), [i \in DOMAIN batch |-> i])

\* One rule over the rows of a batch that starts at row `offset`.
TakeBatch(family, rule, types, s, batch, offset) ==
    LET step(t, i) == LET u == Take(family, rule, types, t.state, batch[i], offset + i)
                      IN IF t.err # Ok THEN t ELSE [u EXCEPT !.found = t.found \o @]
    IN FoldLeft(step, Step(s), [i \in DOMAIN batch |-> i])

-----------------------------------------------------------------------------
(* Verdicts *)

CountWithin(range, n) ==
    /\ \A e \in range.exact : n = e
    /\ \A m \in range.min : n >= m
    /\ \A m \in range.max : n <= m

\* compare_fraction_to_bound
FractionBelow(n, rows, percent) == IF rows = 0 THEN 0 < percent ELSE 100 * n < percent * rows
FractionAbove(n, rows, percent) == IF rows = 0 THEN 0 > percent ELSE 100 * n > percent * rows
RatioWithin(range, n, rows) ==
    /\ \A m \in range.min : ~FractionBelow(n, rows, m)
    /\ \A m \in range.max : ~FractionAbove(n, rows, m)

CloseDistinct(rule, s, rows) ==
    LET distinct == Cardinality(s.seen) + IF s.saw_null THEN 1 ELSE 0
    IN Closing(When(\E range \in rule.count : ~CountWithin(range, distinct),
                    Finding("distinct_count", rule.column, {}))
               \o When(\E range \in rule.ratio : ~RatioWithin(range, distinct, rows),
                       Finding("distinct_ratio", rule.column, {})))

\* outside: a total that is NaN is neither below nor above its bounds.
TotalOutside(rule, total) ==
    (\E m \in rule.min : Below(total, m)) \/ (\E m \in rule.max : Above(total, m))
CloseSum(rule, type, s) ==
    Closing(When(TotalOutside(rule, IF type = "float" THEN FloatTotal(s) ELSE s),
                 Finding("sum", rule.column, {})))

\* A statistic of nothing is not zero.
StatisticOutside(rule, m) ==
    IF rule.kind = "mean"
    THEN (\E b \in rule.min : MeanBelow(m, b)) \/ (\E b \in rule.max : MeanAbove(m, b))
    ELSE (\E b \in rule.min : DeviationBelow(m, b)) \/ (\E b \in rule.max : DeviationAbove(m, b))
CloseStatistic(rule, m) ==
    Closing(When(m.count = 0 \/ StatisticOutside(rule, m), Finding(rule.kind, rule.column, {})))

Distance(x, y) == LET d == Minus(x, y) IN IF d = NaN THEN NaN ELSE Abs(d)
CloseBalance(rule, s) ==
    Closing(When(Above(Distance(FloatTotal(s.left), FloatTotal(s.right)), rule.tolerance),
                 Finding("balance_equal", 0, {})))

CloseDominant(rule, f) ==
    Closing(When(f.total > 0 /\ 100 * MostCommon(f) > rule.max * f.total,
                 Finding("max_dominant_value_ratio", rule.column, {})))

\* The finding is at the first long step.
CloseGap(rule, s) == Closing(When(s.gaps > rule.max_gaps, Finding("gap_detection", rule.column, s.first)))

Close(family, rule, types, s, rows) ==
    CASE family = "balance" -> CloseBalance(rule, s)
      [] family = "dominant" -> CloseDominant(rule, s)
      [] family = "statistic" -> CloseStatistic(rule, s)
      [] family = "sum" -> CloseSum(rule, types[rule.column], s)
      [] family = "gap" -> CloseGap(rule, s)
      [] family = "row_count" -> Closing(When(~CountWithin(rule, rows), Finding("row_count", 0, {})))
      [] family = "null_ratio" -> Closing(When(~RatioWithin(rule.range, s, rows), Finding("null_ratio", rule.column, {})))
      [] family = "distinct" -> CloseDistinct(rule, s, rows)
      [] family = "composite" -> CloseExact(s, "composite_unique", 0)
      [] family = "conditional" -> CloseExact(s, "conditional_unique", 0)

-----------------------------------------------------------------------------
(* Compilation *)

\* The dataset rules of a contract.  Rules that a contract keys by column are
\* functions of the column, the others sequences; a row-count rule is an option.
NoDatasetRules ==
    [row_count |-> {}, null_ratio |-> <<>>, distinct_count |-> <<>>, distinct_ratio |-> <<>>,
     composite |-> <<>>, monotonicity |-> <<>>, gap |-> <<>>, exclusive |-> <<>>, sum |-> <<>>,
     mean |-> <<>>, std_dev |-> <<>>, conditional |-> <<>>, balance |-> <<>>, dominant |-> <<>>]

InOrder(columns) == SetToSortSeq(columns, <)
OfColumn(f, c) == IF c \in DOMAIN f THEN {f[c]} ELSE {}

\* DatasetState::new: the rules about distinct values of a column share a state.
DistinctSpecs(rules) ==
    LET columns == InOrder(DOMAIN rules.distinct_count \cup DOMAIN rules.distinct_ratio)
    IN [i \in DOMAIN columns |-> [column |-> columns[i],
                                  count |-> OfColumn(rules.distinct_count, columns[i]),
                                  ratio |-> OfColumn(rules.distinct_ratio, columns[i])]]

NullRatios(rules) ==
    LET columns == InOrder(DOMAIN rules.null_ratio)
    IN [i \in DOMAIN columns |-> [column |-> columns[i], range |-> rules.null_ratio[columns[i]]]]

Statistics(kind, rules) ==
    [i \in DOMAIN rules |-> [kind |-> kind, column |-> rules[i].column, min |-> rules[i].min, max |-> rules[i].max]]

DatasetPlan(rules) ==
    [family \in Families |->
        CASE family = "row_count" -> SetToSeq(rules.row_count)
          [] family = "null_ratio" -> NullRatios(rules)
          [] family = "distinct" -> DistinctSpecs(rules)
          [] family = "statistic" -> Statistics("mean", rules.mean) \o Statistics("std_dev", rules.std_dev)
          [] OTHER -> rules[family]]

CompileKeyed(f, types) == AllPresent(types, InOrder(DOMAIN f))
CompileKey(rule, types) == AllPresent(types, rule.columns)
CompileOrdering(rule, types) == AllPresent(types, <<rule.column>>)
Numeric(c, types) ==
    FirstError(<<AllPresent(types, <<c>>), Refuse(TypeOf(types, c) \notin NumericTypes, "unsupported_type")>>)
AllFinite(bounds) == Refuse(\E b \in bounds : ~Finite(b), "invalid_bound")

CompileGap(rule, types) ==
    FirstError(<<
        Refuse(~(Finite(rule.step) /\ rule.step > 0), "invalid_bound"),
        Refuse(~(Finite(rule.tolerance) /\ rule.tolerance >= 0), "invalid_bound"),
        AllPresent(types, <<rule.column>>),
        Refuse(TypeOf(types, rule.column) \notin BoundTypes \ {"decimal"}, "unsupported_type")>>)

CompileExclusive(rule, types) ==
    FirstError(<<Refuse(Len(rule.columns) < 2, "invalid_bound"), AllPresent(types, rule.columns)>>)

\* sum_bounds reads the bounds in the arithmetic of the column.
SumBoundFits(type, b) == IF type = "float" THEN Finite(b) ELSE b \in -TotalMax - 1..TotalMax
CompileSum(rule, types) ==
    FirstError(<<
        Numeric(rule.column, types),
        Refuse(\E b \in rule.min \cup rule.max : ~SumBoundFits(TypeOf(types, rule.column), b), "invalid_bound")>>)

CompileStatistic(rule, types) ==
    FirstError(<<AllFinite(rule.min \cup rule.max), Numeric(rule.column, types)>>)

CompileConditional(rule, types) ==
    FirstError(<<Refuse(rule.columns = <<>>, "invalid_bound"), AllPresent(types, rule.columns),
                 CompileCompare(rule.when, types)>>)

CompileBalance(rule, types) ==
    FirstError(<<Refuse(~(Finite(rule.tolerance) /\ rule.tolerance >= 0), "invalid_bound"),
                 Numeric(rule.left, types), Numeric(rule.right, types)>>)

CompileDominant(rule, types) ==
    FirstError(<<Refuse(rule.max \notin 0..100, "invalid_bound"), AllPresent(types, <<rule.column>>)>>)

Each(rules, check(_)) == [i \in DOMAIN rules |-> check(rules[i])]
CompileDataset(rules, types) ==
    FirstError(
        <<CompileKeyed(rules.null_ratio, types), CompileKeyed(rules.distinct_count, types),
          CompileKeyed(rules.distinct_ratio, types)>>
        \o Each(rules.composite, LAMBDA r : CompileKey(r, types))
        \o Each(rules.monotonicity, LAMBDA r : CompileOrdering(r, types))
        \o Each(rules.gap, LAMBDA r : CompileGap(r, types))
        \o Each(rules.exclusive, LAMBDA r : CompileExclusive(r, types))
        \o Each(rules.sum, LAMBDA r : CompileSum(r, types))
        \o Each(rules.mean \o rules.std_dev, LAMBDA r : CompileStatistic(r, types))
        \o Each(rules.conditional, LAMBDA r : CompileConditional(r, types))
        \o Each(rules.balance, LAMBDA r : CompileBalance(r, types))
        \o Each(rules.dominant, LAMBDA r : CompileDominant(r, types)))

\* validate_ratio
RatioValid(range) ==
    /\ range.min \cup range.max \subseteq 0..100
    /\ \A low \in range.min, high \in range.max : low <= high

\* validate_semantics, when the contract is read.
CheckSemantics(contract) ==
    LET rules == contract.dataset
        names == [i \in DOMAIN contract.rows |-> contract.rows[i].name]
    IN FirstError(<<
        Refuse("" \in Range(names) \/ ~IsInjective(names), "duplicate_rule"),
        Refuse(\E range \in Range(rules.null_ratio) \cup Range(rules.distinct_ratio) : ~RatioValid(range),
               "invalid_ratio"),
        Refuse(\E rule \in Range(rules.composite) : Len(rule.columns) < 2, "invalid_json")>>)
=============================================================================
