----------------------------- MODULE RuleMeaning ------------------------------
(***************************************************************************)
(* What the rules of a contract say of a table, without batches and        *)
(* without state: the set of their violations, as docs/contracts.md, the   *)
(* change log and the comments of contract/v2.rs describe the rules.       *)
(* Execution shows that the code reports these violations, and only these, *)
(* however the table is cut into batches.  Where the code is known to give *)
(* another verdict than the documents, the verdict is Disputed.            *)
(*                                                                         *)
(* A violation is a finding and what it is of: the rule, and for a         *)
(* conditional rule the part of its assertion that failed.                 *)
(***************************************************************************)
EXTENDS DatasetRules

Violation(of, finding) == [of |-> of, finding |-> finding]
Value(table, n, c) == table[n][c]
Present(table, c) == {n \in DOMAIN table : table[n][c] # Null}
Absent(table, c) == DOMAIN table \ Present(table, c)
Values(table, c) == {table[n][c] : n \in Present(table, c)}
\* The row with the last value before row n; the values with their rows in order.
Before(table, c, n) == {m \in Present(table, c) : m < n}
PresentValues(table, c) == SelectSeq([n \in DOMAIN table |-> table[n][c]], LAMBDA v : v # Null)
Sum(values) == FoldLeft(+, 0, values)

-----------------------------------------------------------------------------
(* Column and row rules *)

IsNumber(v) == v \notin {Null, NaN}
\* The value rules that value v breaks.
Broken(type, r, v) ==
    LET breaks ==
        [not_null |-> r.not_null /\ v = Null,
         min |-> type \in BoundTypes /\ IsNumber(v) /\ \E m \in r.min : v < m,
         max |-> type \in BoundTypes /\ IsNumber(v) /\ \E m \in r.max : v > m,
         nan |-> v = NaN /\ "allow" \notin r.nan /\ (r.nan # {} \/ r.min # {} \/ r.max # {}),
         pattern |-> type = "text" /\ v # Null /\ r.pattern # {} /\ v \notin UNION r.pattern,
         allowed |-> type = "text" /\ v # Null /\ r.allowed # {} /\ v \notin UNION r.allowed,
         min_length |-> type = "text" /\ v # Null /\ \E m \in r.min_length : TextLength[v] < m,
         max_length |-> type = "text" /\ v # Null /\ \E m \in r.max_length : TextLength[v] > m]
    IN {name \in DOMAIN breaks : breaks[name]}
\* The conditional assertion has no lengths (docs/contracts.md:95).
Lengths == {"min_length", "max_length"}

Repeated(table, c) ==
    {n \in Present(table, c) : \E m \in Before(table, c, n) : table[m][c] = table[n][c]}

ColumnViolations(i, entry, types, table) ==
    LET c == entry.column
        broken(n) == Broken(types[c], entry.rules, table[n][c])
    IN UNION {{Violation(<<"column", i>>, Finding(name, c, {n})) : name \in broken(n)} : n \in DOMAIN table}
       \cup {Violation(<<"unique", i>>, Finding("unique", c, {n})) : n \in
            IF entry.rules.unique THEN Repeated(table, c) ELSE {}}

RowViolations(i, rule, types, table) ==
    IF IsCompare(rule)
    THEN {Violation(<<"row", i>>, Finding("compare", FindingColumn(rule.compare), {n})) :
            n \in {n \in DOMAIN table : Outcome(rule.compare, table[n]) = "false"}}
    ELSE UNION {{Violation(<<"row", i, name>>, Finding("conditional", rule.column, {n})) :
                    name \in Broken(types[rule.column], rule.rules, table[n][rule.column]) \ Lengths} :
                n \in {n \in DOMAIN table : Outcome(rule.when, table[n]) = "true"}}

-----------------------------------------------------------------------------
(* Dataset rules: the findings of each family *)

Dataset(name, column, broken) == IF broken THEN {Finding(name, column, {})} ELSE {}
At(name, column, rows) == {Finding(name, column, {n}) : n \in rows}
Rejected(rule, table) == IF rule.nulls = "reject" THEN Absent(table, rule.column) ELSE {}

\* Each row against the last value before it.
PairsOf(table, c) == {p \in Present(table, c) \X Present(table, c) : p[1] < p[2] /\ p[1] = Max(Before(table, c, p[2]))}
OutOfOrder(rule, table) ==
    {p[2] : p \in {p \in PairsOf(table, rule.column) :
                   LET a == Value(table, p[1], rule.column)
                       b == Value(table, p[2], rule.column)
                   IN CASE rule.direction = "increasing" -> a > b
                        [] rule.direction = "strictly_increasing" -> a >= b
                        [] rule.direction = "decreasing" -> a < b
                        [] rule.direction = "strictly_decreasing" -> a <= b}}

\* "Require consecutive values to stay within one step of each other" (v2.rs:240).
Near(a, b, reach) == NaN \notin {a, b} /\ (a = b \/ (Finite(a) /\ Finite(b) /\ Abs(b - a) <= reach))
LongSteps(rule, table) ==
    {p \in PairsOf(table, rule.column) :
        ~Near(Value(table, p[1], rule.column), Value(table, p[2], rule.column), rule.step + rule.tolerance)}
\* The finding is at the first of the long steps.
TooManySteps(rule, steps) ==
    IF Cardinality(steps) > rule.max_gaps
    THEN At("gap_detection", rule.column, {Min({p[2] : p \in steps})}) ELSE {}

\* A total of real numbers; one infinite value makes it infinite.
Total(values) ==
    CASE NaN \in Range(values) \/ {Infinity, -Infinity} \subseteq Range(values) -> NaN
      [] {v \in Range(values) : ~Finite(v)} = {Infinity} -> Infinity
      [] {v \in Range(values) : ~Finite(v)} = {-Infinity} -> -Infinity
      [] OTHER -> Sum(values)
\* "Must stay inside declared bounds" (CHANGELOG.md:115): the total of n values with
\* bounds for a single one.  What is not a number is inside no bounds.
Inside(total, n, rule) ==
    rule.min \cup rule.max # {} =>
        total # NaN /\ (\A m \in rule.min : total >= n * m) /\ (\A m \in rule.max : total <= n * m)
SumBroken(rule, table) == ~Inside(Total(PresentValues(table, rule.column)), 1, rule)

Variance(values) ==     \* times the square of the number of values
    Len(values) * Sum([i \in DOMAIN values |-> values[i] * values[i]]) - Sum(values) * Sum(values)
AllFiniteIn(values) == \A v \in Range(values) : Finite(v)
StatisticBroken(rule, table) ==
    LET values == PresentValues(table, rule.column)
        n == Len(values)
    IN CASE n = 0 -> TRUE
         [] n > 0 /\ rule.kind = "mean" -> ~Inside(Total(values), n, rule)
         [] n > 0 /\ rule.kind = "std_dev" /\ AllFiniteIn(values) ->
              \/ \E b \in rule.min : b > 0 /\ Variance(values) < n * n * b * b
              \/ \E b \in rule.max : b < 0 \/ Variance(values) > n * n * b * b
         [] OTHER -> rule.min \cup rule.max # {}

\* "Require two numeric columns to total the same amount" (v2.rs:329).
Unequal(left, right, tolerance) ==
    LET l == Total(left)
        r == Total(right)
    IN NaN \in {l, r} \/ Abs(l - r) > tolerance
BalanceBroken(rule, table) ==
    Unequal(PresentValues(table, rule.left), PresentValues(table, rule.right), rule.tolerance)

DominantBroken(rule, table) ==
    \E v \in {Value(table, n, rule.column) : n \in DOMAIN table} :
        100 * Cardinality({n \in DOMAIN table : Value(table, n, rule.column) = v}) > rule.max * Len(table)

\* Among the rows that a rule is about.
KeyFindings(name, rule, table, about) ==
    LET key(n) == KeyOf(rule, table[n])
        rejected == {n \in about : rule.nulls = "reject" /\ Null \in Range(key(n))}
    IN At(name, 0, rejected \cup {n \in about \ rejected : \E m \in about \ rejected : m < n /\ key(m) = key(n)})

Filled(rule, row) == {c \in Range(rule.columns) : row[c] # Null}
ExclusiveBroken(rule, row) ==
    Cardinality(Filled(rule, row)) \notin (IF rule.mode = "exactly_one" THEN {1} ELSE {0, 1})

\* "Exact distinct non-null count" (docs/contracts.md:106).
DistinctValues(table, c) == Cardinality(Values(table, c))
RatioBroken(range, n, rows) ==
    IF rows = 0 THEN \E m \in range.min : m > 0
    ELSE (\E m \in range.min : 100 * n < m * rows) \/ (\E m \in range.max : 100 * n > m * rows)
CountBroken(range, n) ==
    (\E e \in range.exact : n # e) \/ (\E m \in range.min : n < m) \/ (\E m \in range.max : n > m)

FamilyFindings(family, rule, types, table) ==
    CASE family = "row_count" -> Dataset("row_count", 0, CountBroken(rule, Len(table)))
      [] family = "null_ratio" -> Dataset("null_ratio", rule.column,
            RatioBroken(rule.range, Cardinality(Absent(table, rule.column)), Len(table)))
      [] family = "distinct" ->
            Dataset("distinct_count", rule.column,
                \E range \in rule.count : CountBroken(range, DistinctValues(table, rule.column)))
            \cup Dataset("distinct_ratio", rule.column,
                \E range \in rule.ratio : RatioBroken(range, DistinctValues(table, rule.column), Len(table)))
      [] family = "monotonicity" ->
            At("monotonicity", rule.column, Rejected(rule, table) \cup OutOfOrder(rule, table))
      [] family = "gap" ->
            At("gap_detection", rule.column, Rejected(rule, table))
            \cup TooManySteps(rule, LongSteps(rule, table))
      [] family = "sum" -> Dataset("sum", rule.column, SumBroken(rule, table))
      [] family = "statistic" -> Dataset(rule.kind, rule.column, StatisticBroken(rule, table))
      [] family = "balance" -> Dataset("balance_equal", 0, BalanceBroken(rule, table))
      [] family = "dominant" -> Dataset("max_dominant_value_ratio", rule.column, DominantBroken(rule, table))
      [] family = "conditional" -> KeyFindings("conditional_unique", rule, table,
            {n \in DOMAIN table : Outcome(rule.when, table[n]) = "true"})
      [] family = "composite" -> KeyFindings("composite_unique", rule, table, DOMAIN table)
      [] family = "exclusive" ->
            At("mutually_exclusive", 0, {n \in DOMAIN table : ExclusiveBroken(rule, table[n])})

Violations(plan, types, table) ==
    UNION {ColumnViolations(i, plan.columns[i], types, table) : i \in DOMAIN plan.columns}
    \cup UNION {RowViolations(i, plan.rows[i], types, table) : i \in DOMAIN plan.rows}
    \cup UNION {UNION {{Violation(<<family, i>>, f) : f \in FamilyFindings(family, plan.dataset[family][i], types, table)} :
                       i \in DOMAIN plan.dataset[family]} : family \in Families}

-----------------------------------------------------------------------------
(* Where the code departs from the documents.  A verdict is disputed only  *)
(* if the two readings of the rule differ on this very table; Execution    *)
(* states the documents' one as ValidMeansHeld.                            *)

\* Null counts as one more value (dataset_state.rs:660).
NullDecides(table, c, broken(_)) ==
    Absent(table, c) # {} /\ broken(DistinctValues(table, c)) # broken(DistinctValues(table, c) + 1)

\* Only steps up have a length, and only between numbers (distance, ordering.rs).
StepsUp(rule, table) ==
    {p \in LongSteps(rule, table) :
        LET a == Value(table, p[1], rule.column)
            b == Value(table, p[2], rule.column)
        IN NaN \notin {a, b} /\ a < b}

\* A float total is NaN once a value or a partial sum is not finite, a mean from the
\* value after it on, and what is NaN breaks no bound (total.rs:168).
BecomesNaN(values) == \E p \in Prefixes(values) : ~Finite(Total(p))
LosesMean(values) == ~AllFiniteIn(values) /\ ~(AllFiniteIn(Front(values)) /\ Last(values) # NaN)

\* balance_equal adds integers as floats (dataset_state.rs:220).
Floats(values) == [i \in DOMAIN values |-> AsFloat(values[i])]

\* The disputed verdicts of a table, by the rule and the column of their findings.
Disputed(plan, types, table) ==
    LET of(family) == Range(plan.dataset[family])
        values(c) == PresentValues(table, c)
    IN {<<"distinct_count", r.column>> : r \in {r \in of("distinct") : \E range \in r.count :
            NullDecides(table, r.column, LAMBDA n : CountBroken(range, n))}}
       \cup {<<"distinct_ratio", r.column>> : r \in {r \in of("distinct") : \E range \in r.ratio :
            NullDecides(table, r.column, LAMBDA n : RatioBroken(range, n, Len(table)))}}
       \cup {<<"gap_detection", r.column>> : r \in {r \in of("gap") :
            TooManySteps(r, LongSteps(r, table)) # TooManySteps(r, StepsUp(r, table))}}
       \cup {<<"sum", r.column>> : r \in {r \in of("sum") :
            types[r.column] = "float" /\ SumBroken(r, table) /\ BecomesNaN(values(r.column))}}
       \cup {<<r.kind, r.column>> : r \in {r \in of("statistic") : values(r.column) # <<>>
            /\ StatisticBroken(r, table)
            /\ IF r.kind = "mean" THEN LosesMean(values(r.column)) ELSE ~AllFiniteIn(values(r.column))}}
       \cup {<<"balance_equal", 0>> : r \in {r \in of("balance") :
            LET left == Floats(values(r.left))
                right == Floats(values(r.right))
            IN BalanceBroken(r, table) # (/\ Unequal(left, right, r.tolerance)
                                         /\ ~BecomesNaN(left) /\ ~BecomesNaN(right))}}
=============================================================================
