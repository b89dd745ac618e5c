------------------------------- MODULE RowRules -------------------------------
(***************************************************************************)
(* The rules that look at one row at a time: column rules                  *)
(* (execution/kernels.rs) and row rules (execution/row_kernels.rs), and    *)
(* how a contract with such rules is checked against a schema before any   *)
(* row is read (contract/compile.rs, contract/row.rs, contract/bounds.rs). *)
(*                                                                         *)
(* Columns are numbered in the order of the schema; a contract may name a  *)
(* column the schema does not have.  A type stands for all its widths and  *)
(* units.  A value is an integer in units of its column, in the order of   *)
(* the values; a text is the number of a text.  An option is a set of at   *)
(* most one member, a regular expression the set of texts it matches.      *)
(***************************************************************************)
EXTENDS Integers, Sequences, SequencesExt, FiniteSetsExt

CONSTANTS
    TextLength,     \* the characters of each text
    IntMax,         \* the largest integer that a column or a bound holds
    FloatMax        \* the largest finite float

ASSUME RowRulesAssumption ==
    /\ DOMAIN TextLength \subseteq 0..IntMax
    /\ 0 < IntMax /\ IntMax <= FloatMax /\ FloatMax < 1000

\* Outside the range of the values; NaN is the greatest float, as in total_cmp.
Null == -1000
Infinity == 1000
NaN == 1001

NumericTypes == {"int", "uint", "float"}
\* supports_bounds: the types that have a range.
BoundTypes == NumericTypes \cup {"decimal", "date", "timestamp"}
\* The types that append_scalar can encode into a key.
ScalarTypes == BoundTypes \cup {"bool", "text", "binary"}
\* from_data_type: "nested" is a list, struct or map, "other" every other type.
Types == ScalarTypes \cup {"nested", "other"}

Finite(x) == x \in -FloatMax..FloatMax
When(condition, name) == IF condition THEN <<name>> ELSE <<>>

-----------------------------------------------------------------------------
(* Column rules *)

NoValueRules == [not_null |-> FALSE, unique |-> FALSE, min |-> {}, max |-> {}, nan |-> {},
                 pattern |-> {}, allowed |-> {}, min_length |-> {}, max_length |-> {}]

\* record_range: both bounds are inclusive.
RangeBreaks(r, v) == When(\E m \in r.min : v < m, "min") \o When(\E m \in r.max : v > m, "max")

IntegerKernel(r, v) == RangeBreaks(r, v)
TimestampKernel(r, v) == RangeBreaks(r, v)
ScalarKernel(type, r, v) == IF type = "decimal" THEN RangeBreaks(r, v) ELSE <<>>

\* Naming a bound or a policy makes NaN a violation unless the policy allows it.
RejectsNaN(r) == (r.nan # {} \/ r.min \cup r.max # {}) /\ r.nan # {"allow"}

FloatKernel(r, v) == IF v = NaN THEN When(RejectsNaN(r), "nan") ELSE RangeBreaks(r, v)

TextBreaks(r, v) ==
    When(\E p \in r.pattern : v \notin p, "pattern") \o When(\E a \in r.allowed : v \notin a, "allowed")

\* check_length: characters, not bytes.
LengthBreaks(r, v) ==
    When(\E m \in r.min_length : TextLength[v] < m, "min_length")
        \o When(\E m \in r.max_length : TextLength[v] > m, "max_length")

TextKernel(r, v) == TextBreaks(r, v) \o LengthBreaks(r, v)

\* The rules that one value of a column breaks, in the order they are recorded.
ColumnKernel(type, r, v) ==
    CASE v = Null -> When(r.not_null, "not_null")
      [] v # Null /\ type \in {"int", "uint", "date"} -> IntegerKernel(r, v)
      [] v # Null /\ type = "float" -> FloatKernel(r, v)
      [] v # Null /\ type = "timestamp" -> TimestampKernel(r, v)
      [] v # Null /\ type \in {"decimal", "bool"} -> ScalarKernel(type, r, v)
      [] v # Null /\ type = "text" -> TextKernel(r, v)
      [] OTHER -> <<>>

\* The values of a column that enter the exact state of `unique`.
EntersUnique(r, v) == r.unique /\ v # Null

-----------------------------------------------------------------------------
(* Row rules.  An operand is [column |-> c] or [literal |-> v], a predicate *)
(* has two operands, an operator and a policy for nulls.                    *)

IsColumn(operand) == "column" \in DOMAIN operand
Operand(operand, row) == IF IsColumn(operand) THEN row[operand.column] ELSE operand.literal
Truth(b) == IF b THEN "true" ELSE "false"

\* The operators on floats are those of IEEE 754: only `ne` holds of NaN.
Compare(op, left, right) ==
    IF NaN \in {left, right} THEN op = "ne"
    ELSE CASE op = "eq" -> left = right
           [] op = "ne" -> left # right
           [] op = "lt" -> left < right
           [] op = "lte" -> left <= right
           [] op = "gt" -> left > right
           [] op = "gte" -> left >= right

NullOutcome(predicate, left, right) ==
    CASE predicate.nulls = "skip" -> "unknown"
      [] predicate.nulls = "fail" -> "false"
      [] predicate.nulls = "equal" /\ predicate.op = "eq" -> Truth(left = right)
      [] predicate.nulls = "equal" /\ predicate.op = "ne" -> Truth(left # right)
      [] OTHER -> "false"

Outcome(predicate, row) ==
    LET left == Operand(predicate.left, row)
        right == Operand(predicate.right, row)
    IN IF Null \in {left, right} THEN NullOutcome(predicate, left, right)
       ELSE Truth(Compare(predicate.op, left, right))

\* scan_assertion_row: as the column kernels, but without lengths.
AssertionBreaks(type, r, v) ==
    CASE v = Null -> When(r.not_null, "not_null")
      [] v # Null /\ type = "float" -> FloatKernel(r, v)
      [] v # Null /\ type \in BoundTypes \ {"float"} -> RangeBreaks(r, v)
      [] v # Null /\ type = "text" -> TextBreaks(r, v)
      [] OTHER -> <<>>

\* The last arm of scan_assertion_row.
AssertionUnsupported(type, v) == v # Null /\ type \in {"binary", "nested", "other"}

FindingColumn(predicate) ==
    IF IsColumn(predicate.left) THEN predicate.left.column ELSE predicate.right.column

\* A row rule is [compare |-> predicate] or [when |-> predicate, column, rules].
CompareBreaks(rule, row) == When(Outcome(rule.compare, row) = "false", "compare")
ConditionalBreaks(rule, types, row) ==
    IF Outcome(rule.when, row) # "true" THEN <<>>
    ELSE AssertionBreaks(types[rule.column], rule.rules, row[rule.column])

IsCompare(rule) == "compare" \in DOMAIN rule
RowBreaks(rule, types, row) ==
    IF IsCompare(rule) THEN CompareBreaks(rule, row) ELSE ConditionalBreaks(rule, types, row)
RowUnsupported(rule, types, row) ==
    /\ ~IsCompare(rule)
    /\ Outcome(rule.when, row) = "true"
    /\ AssertionUnsupported(types[rule.column], row[rule.column])

-----------------------------------------------------------------------------
(* Compilation: the first error, or Ok. *)

Ok == "ok"
Refuse(condition, code) == IF condition THEN code ELSE Ok
FirstError(checks) ==
    LET errors == SelectSeq(checks, LAMBDA c : c # Ok)
    IN IF errors = <<>> THEN Ok ELSE Head(errors)

TypeOf(types, c) == IF c \in DOMAIN types THEN types[c] ELSE "missing"
AllPresent(types, columns) == Refuse(\E c \in Range(columns) : c \notin DOMAIN types, "missing_column")

\* parse_bound: the text of a bound is read in the column's own type.
Representable(type, b) ==
    CASE type = "uint" -> b \in 0..IntMax
      [] type = "float" -> Finite(b)
      [] OTHER -> b \in -IntMax..IntMax

\* A pattern that no regular expression stands for.
BadPattern == {Null}

\* compile_rules, for a column and for the assertion of a conditional rule.
CompileRules(type, r) ==
    FirstError(<<
        Refuse(r.min \cup r.max # {} /\ type \notin BoundTypes, "type_mismatch"),
        Refuse(r.pattern \cup r.allowed # {} /\ type # "text", "type_mismatch"),
        Refuse(r.nan # {} /\ type # "float", "type_mismatch"),
        Refuse(r.unique /\ type = "other", "type_mismatch"),
        Refuse(\E b \in r.min \cup r.max : ~Representable(type, b), "invalid_bound"),
        Refuse(\E low \in r.min, high \in r.max : low > high, "invalid_bound"),
        Refuse(BadPattern \in r.pattern, "invalid_bound"),
        Refuse(\E low \in r.min_length, high \in r.max_length : low > high, "invalid_bound")>>)

\* has_v2_value_rules beside the expected type; also the rules that run.
HasValueRules(r) == r # NoValueRules

\* A column entry is [column, required, expected, rules].
CheckColumn(types, entry) ==
    LET type == TypeOf(types, entry.column)
        asked == entry.required \/ entry.expected # {} \/ HasValueRules(entry.rules)
    IN IF type = "missing" THEN Refuse(asked, "missing_column")
       ELSE Refuse(\E e \in entry.expected : e # type, "type_mismatch")

\* Columns without a rule to run get no plan.
ColumnPlans(columns, types) ==
    SelectSeq(columns, LAMBDA entry : entry.column \in DOMAIN types /\ HasValueRules(entry.rules))

CompileColumns(columns, types) ==
    FirstError([i \in DOMAIN columns |-> CheckColumn(types, columns[i])]
        \o LET plans == ColumnPlans(columns, types)
           IN [i \in DOMAIN plans |-> CompileRules(types[plans[i].column], plans[i].rules)])

CompileColumn(types, operand) ==
    Refuse(IsColumn(operand) /\ TypeOf(types, operand.column) = "missing", "missing_column")

LiteralFits(type, v) ==
    CASE type = "bool" -> v \in {0, 1}
      [] type = "text" -> v \in DOMAIN TextLength
      [] type \in BoundTypes \ {"decimal"} -> Representable(type, v)
      [] OTHER -> FALSE

\* The literal of a predicate is read in the type of its column.
CompileLiteral(types, literal, column) ==
    Refuse(TypeOf(types, column.column) # "missing" /\ ~LiteralFits(TypeOf(types, column.column), literal.literal),
           "type_mismatch")

OperandType(types, operand) ==
    IF IsColumn(operand) THEN {TypeOf(types, operand.column)} ELSE {}

\* Mutant: the types of two columns are not compared.
CompileCompareUntyped(p, types) ==
    FirstError(<<
        Refuse(~IsColumn(p.left) /\ ~IsColumn(p.right), "invalid_json"),
        CompileColumn(types, p.left), CompileColumn(types, p.right)>>)

\* compile_compare
CompileCompare(p, types) ==
    LET operandTypes == OperandType(types, p.left) \cup OperandType(types, p.right)
    IN FirstError(<<
        Refuse(~IsColumn(p.left) /\ ~IsColumn(p.right), "invalid_json"),
        CompileColumn(types, p.left),
        CompileColumn(types, p.right),
        IF IsColumn(p.left) /\ ~IsColumn(p.right) THEN CompileLiteral(types, p.right, p.left) ELSE Ok,
        IF ~IsColumn(p.left) /\ IsColumn(p.right) THEN CompileLiteral(types, p.left, p.right) ELSE Ok,
        Refuse(Cardinality(operandTypes) > 1, "type_mismatch"),
        Refuse(operandTypes = {"bool"} /\ p.op \notin {"eq", "ne"}, "type_mismatch"),
        Refuse(operandTypes \cap {"binary", "nested", "other"} # {}, "type_mismatch")>>)

\* RowPlan::compile
CompileRow(rule, types) ==
    IF IsCompare(rule) THEN CompileCompare(rule.compare, types)
    ELSE FirstError(<<
            AllPresent(types, <<rule.column>>),
            IF rule.column \in DOMAIN types THEN CompileRules(types[rule.column], rule.rules) ELSE Ok,
            CompileCompare(rule.when, types)>>)
=============================================================================
