--------------------------- MODULE QueryPredicate ---------------------------
(***************************************************************************)
(* The WHERE clause of a cached query, twice: as the predicate that        *)
(* internal/cache parses (query_predicate.go) and evaluates on a model     *)
(* (query_match.go), and as the SQL that sqlbuilder.ExpandInClauses sends  *)
(* to the database.                                                        *)
(*                                                                         *)
(* A clause is a sequence of tokens. Operators, keywords and punctuation   *)
(* stand for themselves, every other token is a literal or an identifier.  *)
(* An argument is a scalar or a slice of scalars; it has the Go type of    *)
(* the column it is compared with (int, *int or string, a string being the *)
(* sequence of its characters).                                            *)
(***************************************************************************)
EXTENDS Integers, Sequences, FiniteSets, SequencesExt

CONSTANTS
    Columns,     \* the columns of the model (columnToFieldMap)
    Strings,     \* those of type string or *string
    Pointers,    \* those whose Go field is a pointer, nil for NULL
    Literals,    \* the value of each literal token
    Qualified,   \* the column name in each quoted or qualified identifier
    Null

Scalar(v) == [slice |-> FALSE, vals |-> <<v>>]

Slice(vals) == [slice |-> TRUE, vals |-> vals]

-----------------------------------------------------------------------------
(* Parsing.                                                                *)

Operators == {"=", "!=", "<>", ">", "<", ">=", "<=", "LIKE", "IN"}

Marks == {"AND", "OR", "NOT", "(", ")", ",", "?"}

\* The kind of a token: classifyWordToken and the cases of tokenizeWhere.
kind(tok) ==
    CASE tok \in Marks            -> tok
      [] tok \in Operators        -> "operator"
      [] tok \in DOMAIN Literals  -> "literal"
      [] OTHER                    -> "identifier"

normalizeWhereIdentifier(id) == IF id \in DOMAIN Qualified THEN Qualified[id] ELSE id

\* A parser p is at the token pos, has used argIndex of the n arguments, and has
\* just parsed node, unless it has failed.
NewParser(tokens, n) ==
    [tokens |-> tokens, n |-> n, pos |-> 1, argIndex |-> 0, failed |-> FALSE, node |-> <<>>]

Fail(p) == [p EXCEPT !.failed = TRUE]

current(p) == IF p.pos > Len(p.tokens) THEN "EOF" ELSE p.tokens[p.pos]

At(p, k) == ~p.failed /\ p.pos <= Len(p.tokens) /\ kind(current(p)) = k

Advance(p) == [p EXCEPT !.pos = @ + 1]

With(p, node) == [p EXCEPT !.node = node]

\* An operand is the index of an argument or a literal value.
parseOperand(p) ==
    CASE At(p, "?") /\ p.argIndex < p.n ->
           With([Advance(p) EXCEPT !.argIndex = @ + 1], [literal |-> FALSE, arg |-> p.argIndex + 1])
      [] At(p, "literal") ->
           With(Advance(p), [literal |-> TRUE, value |-> Literals[current(p)]])
      [] OTHER -> Fail(p)

\* The loop of parseOperands for IN and NOT IN, after the opening parenthesis.
RECURSIVE OperandList(_, _)
OperandList(p, operands) ==
    LET q == parseOperand(p)
        all == Append(operands, q.node)
    IN  CASE q.failed   -> q
          [] At(q, ",") -> OperandList(Advance(q), all)
          [] At(q, ")") -> With(Advance(q), all)
          [] OTHER      -> Fail(q)

parseOperands(p, operator) ==
    IF operator \in {"IN", "NOT IN"}
    THEN IF At(p, "(") THEN OperandList(Advance(p), <<>>) ELSE Fail(p)
    ELSE LET q == parseOperand(p) IN IF q.failed THEN q ELSE With(q, <<q.node>>)

parseOperator(p) ==
    CASE At(p, "NOT") ->
           LET q == Advance(p)
           IN  CASE At(q, "operator") /\ current(q) = "IN"   -> With(Advance(q), "NOT IN")
                 [] At(q, "operator") /\ current(q) = "LIKE" -> With(Advance(q), "NOT LIKE")
                 [] OTHER                                    -> Fail(q)
      [] At(p, "operator") -> With(Advance(p), current(p))
      [] OTHER -> Fail(p)

parseCondition(p) ==
    IF ~At(p, "identifier") THEN Fail(p)
    ELSE LET operator == parseOperator(Advance(p))
             operands == parseOperands(operator, operator.node)
         IN  IF operator.failed \/ operands.failed THEN Fail(p)
             ELSE With(operands, [op |-> "cond", field |-> normalizeWhereIdentifier(current(p)),
                                  operator |-> operator.node, operands |-> operands.node])

RECURSIVE parseOr(_), parseAnd(_), parsePrimary(_), OrLoop(_), AndLoop(_)

Logical(op, left, right) == [op |-> op, left |-> left, right |-> right]

parsePrimary(p) ==
    IF At(p, "(")
    THEN LET q == parseOr(Advance(p)) IN IF At(q, ")") THEN Advance(q) ELSE Fail(q)
    ELSE parseCondition(p)

AndLoop(p) ==
    IF ~At(p, "AND") THEN p
    ELSE LET q == parsePrimary(Advance(p)) IN AndLoop(With(q, Logical("AND", p.node, q.node)))

parseAnd(p) == AndLoop(parsePrimary(p))

\* Mutant: the right side of an OR is one condition, and AND goes on after it.
OrLoop_Flat(p) ==
    IF ~At(p, "OR") THEN p
    ELSE LET q == parsePrimary(Advance(p))
         IN  OrLoop(AndLoop(With(q, Logical("OR", p.node, q.node))))

OrLoop(p) ==
    IF ~At(p, "OR") THEN p
    ELSE LET q == parseAnd(Advance(p)) IN OrLoop(With(q, Logical("OR", p.node, q.node)))

parseOr(p) == OrLoop(parseAnd(p))

\* Mutant: surplus arguments are not noticed.
parseQueryPredicate_Surplus(tokens, args) ==
    IF tokens = <<>> THEN [failed |-> FALSE, node |-> [op |-> "none"]]
    ELSE LET p == parseOr(NewParser(tokens, Len(args)))
         IN  [failed |-> p.failed \/ current(p) # "EOF", node |-> p.node]

\* The root of the predicate, "none" for an empty clause, or a failure.
parseQueryPredicate(tokens, args) ==
    IF tokens = <<>> THEN [failed |-> FALSE, node |-> [op |-> "none"]]
    ELSE LET p == parseOr(NewParser(tokens, Len(args)))
         IN  [failed |-> p.failed \/ current(p) # "EOF" \/ p.argIndex # Len(args),
              node |-> p.node]

-----------------------------------------------------------------------------
(* The columns a predicate names, and the values it pins them to.          *)

\* The condition nodes of a predicate, from left to right.
RECURSIVE Conditions(_)
Conditions(node) ==
    CASE node.op = "none" -> <<>>
      [] node.op = "cond" -> <<node>>
      [] OTHER            -> Conditions(node.left) \o Conditions(node.right)

\* Mutant: the columns of the first condition only.
Fields_First(node) == {Conditions(node)[i].field : i \in (1..Len(Conditions(node))) \cap {1}}

Fields(node) == {c.field : c \in ToSet(Conditions(node))}

resolveOperands(c, args) ==
    [i \in 1..Len(c.operands) |->
        LET o == c.operands[i] IN IF o.literal THEN Scalar(o.value) ELSE args[o.arg]]

\* IN (?): the one operand is an argument.
SinglePlaceholder(c) == Len(c.operands) = 1 /\ ~c.operands[1].literal

\* Mutant: only the first operand of a list is taken.
ExactMatches_First(node, args) ==
    LET pins(c) == IF c.operator \in {"=", "IN"} THEN ToSet(resolveOperands(c, args)[1].vals) ELSE {}
        all == Conditions(node)
    IN  [f \in Fields(node) |-> UNION {pins(all[i]) : i \in {j \in 1..Len(all) : all[j].field = f}}]

\* The values of the = and IN conditions on each column, {} if there are none.
ExactMatches(node, args) ==
    LET pins(c) == IF c.operator \in {"=", "IN"}
                   THEN UNION {ToSet(v.vals) : v \in ToSet(resolveOperands(c, args))} ELSE {}
        all == Conditions(node)
    IN  [f \in Fields(node) |-> UNION {pins(all[i]) : i \in {j \in 1..Len(all) : all[j].field = f}}]

-----------------------------------------------------------------------------
(* Matching a row: "match", "nomatch", "error", or "panic" where the code  *)
(* calls Interface on the reflect.Value of an untyped nil.                 *)

Outcome(b) == IF b THEN "match" ELSE "nomatch"

Negate(outcome) ==
    CASE outcome = "match" -> "nomatch" [] outcome = "nomatch" -> "match" [] OTHER -> outcome

\* The characters '%', '_' and ' '; every other character is greater.
Percent == 0
Underscore == 1
Blank == 2

\* s without the characters ch at its ends (strings.Trim, strings.TrimSpace).
Trim(s, ch) ==
    LET kept == {i \in 1..Len(s) : s[i] # ch}
    IN  IF kept = {} THEN <<>>
        ELSE SubSeq(s, CHOOSE i \in kept : \A j \in kept : i <= j,
                       CHOOSE i \in kept : \A j \in kept : i >= j)

ContainsTerm(s, term) == \E i \in 0..Len(s) : IsPrefix(term, SubSeq(s, i + 1, Len(s)))

matchLike(s, pattern) ==
    LET p == Trim(pattern, Blank)
        starts == p # <<>> /\ Head(p) = Percent
        ends == p # <<>> /\ Last(p) = Percent
    IN  IF Contains(pattern, Underscore) THEN "error"
        ELSE Outcome(CASE starts /\ ends -> ContainsTerm(s, Trim(p, Percent))
                       [] starts         -> IsSuffix(Tail(p), s)
                       [] ends           -> IsPrefix(Front(p), s)
                       [] OTHER          -> s = p)

\* The order of two values of a column: of integers, or of strings by their bytes.
Less(column, x, y) ==
    IF column \notin Strings THEN x < y
    ELSE \/ IsStrictPrefix(x, y)
         \/ \E i \in 1..Len(x) : /\ i <= Len(y) /\ x[i] < y[i]
                                 /\ SubSeq(x, 1, i - 1) = SubSeq(y, 1, i - 1)

Compare(column, operator, x, y) ==
    CASE operator = ">"  -> Less(column, y, x)
      [] operator = "<"  -> Less(column, x, y)
      [] operator = ">=" -> ~Less(column, x, y)
      [] operator = "<=" -> ~Less(column, y, x)

compareValues(column, operator, x, arg) ==
    CASE x = Null                  -> "error"
      [] arg.slice                 -> "error"
      [] arg.vals[1] = Null        -> "panic"
      [] OTHER                     -> Outcome(Compare(column, operator, x, arg.vals[1]))

\* A pointer field does not convert to the element type of the slice.
checkInOperator(column, x, arg) ==
    CASE ~arg.slice           -> "error"
      [] arg.vals = <<>>      -> "nomatch"
      [] column \in Pointers  -> "error"
      [] OTHER                -> Outcome(x \in ToSet(arg.vals))

\* A slice argument equals no field; a nil argument equals a nil field.
Equals(x, arg) == ~arg.slice /\ x = arg.vals[1]

\* The cases LIKE and NOT LIKE share: an operand that is no string, and a nil field.
LikeOutcome(column, operator, x, arg) ==
    CASE column \notin Strings \/ arg.slice \/ arg.vals[1] = Null -> "error"
      [] x = Null -> "nomatch"
      [] operator = "LIKE"     -> matchLike(x, arg.vals[1])
      [] operator = "NOT LIKE" -> Negate(matchLike(x, arg.vals[1]))

matchPredicateCondition(row, column, operator, arg) ==
    CASE column \notin Columns           -> "error"
      [] operator = "="                  -> Outcome(Equals(row[column], arg))
      [] operator \in {"!=", "<>"}       -> Outcome(~Equals(row[column], arg))
      [] operator \in {"LIKE", "NOT LIKE"} -> LikeOutcome(column, operator, row[column], arg)
      [] operator \in {">", "<", ">=", "<="} -> compareValues(column, operator, row[column], arg)
      [] operator = "IN"                 -> checkInOperator(column, row[column], arg)
      [] operator = "NOT IN"             -> Negate(checkInOperator(column, row[column], arg))

matchAnyPredicateValue(row, column, values) ==
    IF column \notin Columns THEN "error"
    ELSE Outcome(\E i \in 1..Len(values) : matchPredicateCondition(row, column, "=", values[i]) = "match")

MatchCondition(c, args, row) ==
    LET values == resolveOperands(c, args)
    IN  CASE c.operator \notin {"IN", "NOT IN"} \/ SinglePlaceholder(c) ->
               matchPredicateCondition(row, c.field, c.operator, values[1])
          [] c.operator = "IN"     -> matchAnyPredicateValue(row, c.field, values)
          [] c.operator = "NOT IN" -> Negate(matchAnyPredicateValue(row, c.field, values))

RECURSIVE MatchNode(_, _, _)
MatchNode(node, args, row) ==
    IF node.op = "none" THEN "match"
    ELSE IF node.op = "cond" THEN MatchCondition(node, args, row)
    ELSE LET left == MatchNode(node.left, args, row)
             settled == {"error", "panic", IF node.op = "AND" THEN "nomatch" ELSE "match"}
         IN  IF left \in settled THEN left ELSE MatchNode(node.right, args, row)

\* A query registered with a parsed predicate is matched without parsing it again.
CheckQueryMatchWithPredicate(p, args, row) ==
    IF p.failed THEN "error" ELSE MatchNode(p.node, args, row)

CheckQueryMatch(tokens, args, row) ==
    CheckQueryMatchWithPredicate(parseQueryPredicate(tokens, args), args, row)

-----------------------------------------------------------------------------
(* The statement the database runs.                                        *)

Placeholders(tokens) == Cardinality({i \in 1..Len(tokens) : tokens[i] = "?"})

\* Mutant: the argument of an IN (?) is not flattened into its elements.
ExpandInClauses_Nested(tokens, args) ==
    LET index(i) == Placeholders(SubSeq(tokens, 1, i))
        bound(i) == tokens[i] = "?" /\ index(i) <= Len(args)
        inClause(i) == /\ i \in 3..(Len(tokens) - 1)
                       /\ SubSeq(tokens, i - 2, i + 1) = <<"IN", "(", "?", ")">>
        expands(i) == bound(i) /\ inClause(i) /\ args[index(i)].slice
        places(n) == [j \in 1..(2 * n - 1) |-> IF j % 2 = 1 THEN "?" ELSE ","]
    IN  [tokens |-> FlattenSeq([i \in 1..Len(tokens) |->
                        IF expands(i) THEN places(Len(args[index(i)].vals)) ELSE <<tokens[i]>>]),
         args |-> args]

\* IN (?) with a slice becomes one placeholder per element, or NULL if there is
\* none; every other placeholder keeps its argument.
ExpandInClauses(tokens, args) ==
    LET index(i) == Placeholders(SubSeq(tokens, 1, i))
        bound(i) == tokens[i] = "?" /\ index(i) <= Len(args)
        inClause(i) == /\ i \in 3..(Len(tokens) - 1)
                       /\ SubSeq(tokens, i - 2, i + 1) = <<"IN", "(", "?", ")">>
        expands(i) == bound(i) /\ inClause(i) /\ args[index(i)].slice
        places(n) == IF n = 0 THEN <<"NULL">>
                     ELSE [j \in 1..(2 * n - 1) |-> IF j % 2 = 1 THEN "?" ELSE ","]
        flat(arg) == [j \in 1..Len(arg.vals) |-> Scalar(arg.vals[j])]
    IN  [tokens |-> FlattenSeq([i \in 1..Len(tokens) |->
                        IF expands(i) THEN places(Len(args[index(i)].vals)) ELSE <<tokens[i]>>]),
         args |-> FlattenSeq([i \in 1..Len(tokens) |->
                        CASE ~bound(i)  -> <<>>
                          [] expands(i) -> flat(args[index(i)])
                          [] OTHER      -> <<args[index(i)]>>])]

-----------------------------------------------------------------------------
(* The language of WHERE clauses and their meaning in SQL, defined by how  *)
(* a clause splits and without the parser.                                 *)

IsOperand(t) == t = "?" \/ t \in DOMAIN Literals

IsOperandList(ts) ==
    /\ Len(ts) % 2 = 1
    /\ \A i \in 1..Len(ts) : IF i % 2 = 1 THEN IsOperand(ts[i]) ELSE ts[i] = ","

IsCondition(ts) ==
    /\ Len(ts) >= 3 /\ kind(ts[1]) = "identifier"
    /\ LET rest == SubSeq(ts, IF ts[2] = "NOT" THEN 3 ELSE 2, Len(ts))
           list == SubSeq(rest, 3, Len(rest) - 1)
       IN  \/ /\ Len(rest) = 2 /\ IsOperand(rest[2])
              /\ rest[1] \in (IF ts[2] = "NOT" THEN {"LIKE"} ELSE Operators \ {"IN"})
           \/ /\ Len(rest) >= 4 /\ rest[1] = "IN" /\ rest[2] = "(" /\ Last(rest) = ")"
              /\ IsOperandList(list)

RECURSIVE IsClause(_)
IsClause(ts) ==
    \/ IsCondition(ts)
    \/ Len(ts) > 2 /\ Head(ts) = "(" /\ Last(ts) = ")" /\ IsClause(SubSeq(ts, 2, Len(ts) - 1))
    \/ \E i \in 2..(Len(ts) - 1) : /\ ts[i] \in {"AND", "OR"}
                                   /\ IsClause(SubSeq(ts, 1, i - 1))
                                   /\ IsClause(SubSeq(ts, i + 1, Len(ts)))

\* LIKE with both wildcards.
RECURSIVE SqlLike(_, _)
SqlLike(s, p) ==
    CASE p = <<>> -> s = <<>>
      [] p # <<>> /\ Head(p) = Percent -> \E i \in 0..Len(s) : SqlLike(SubSeq(s, i + 1, Len(s)), Tail(p))
      [] OTHER -> /\ s # <<>> /\ p[1] \in {Underscore, s[1]}
                  /\ SqlLike(Tail(s), Tail(p))

\* SQL's truth values in their order, so that AND is the least and OR the greatest.
SqlFalse == 0
SqlUnknown == 1
SqlTrue == 2

SqlBool(b) == IF b THEN SqlTrue ELSE SqlFalse

SqlEquals(x, v) == IF Null \in {x, v} THEN SqlUnknown ELSE SqlBool(x = v)

SqlIn(x, vals) ==
    LET truths == {SqlEquals(x, vals[i]) : i \in 1..Len(vals)}
    IN  CHOOSE t \in truths : \A u \in truths : u <= t

SqlCondition(column, operator, x, vals) ==
    CASE operator = "="            -> SqlEquals(x, vals[1])
      [] operator \in {"!=", "<>"} -> SqlTrue - SqlEquals(x, vals[1])
      [] operator = "IN"           -> SqlIn(x, vals)
      [] operator = "NOT IN"       -> SqlTrue - SqlIn(x, vals)
      [] Null \in {x, vals[1]}     -> SqlUnknown
      [] operator = "LIKE"         -> SqlBool(SqlLike(x, vals[1]))
      [] operator = "NOT LIKE"     -> SqlBool(~SqlLike(x, vals[1]))
      [] OTHER                     -> SqlBool(Compare(column, operator, x, vals[1]))

\* The truth of the clause ts for a row, the arguments being scalars.
RECURSIVE Truth(_, _, _)
Truth(ts, args, row) ==
    LET count(i, t) == Cardinality({j \in 1..i : ts[j] = t})
        splits(t) == {i \in 1..Len(ts) : ts[i] = t /\ count(i, "(") = count(i, ")")}
        left(i) == Truth(SubSeq(ts, 1, i - 1), SubSeq(args, 1, count(i, "?")), row)
        right(i) == Truth(SubSeq(ts, i + 1, Len(ts)), SubSeq(args, count(i, "?") + 1, Len(args)), row)
        column == normalizeWhereIdentifier(ts[1])
        operator == IF ts[2] = "NOT" THEN IF ts[3] = "IN" THEN "NOT IN" ELSE "NOT LIKE" ELSE ts[2]
        operands == SelectSeq(Tail(ts), IsOperand)
        value(i) == IF operands[i] = "?" THEN args[Placeholders(SubSeq(operands, 1, i))].vals[1]
                    ELSE Literals[operands[i]]
    IN  CASE splits("OR") # {} ->
               LET i == CHOOSE i \in splits("OR") : TRUE IN IF left(i) > right(i) THEN left(i) ELSE right(i)
          [] splits("OR") = {} /\ splits("AND") # {} ->
               LET i == CHOOSE i \in splits("AND") : TRUE IN IF left(i) < right(i) THEN left(i) ELSE right(i)
          [] splits("OR") \cup splits("AND") = {} /\ ts[1] = "(" ->
               Truth(SubSeq(ts, 2, Len(ts) - 1), args, row)
          [] OTHER -> SqlCondition(column, operator, row[column], [i \in 1..Len(operands) |-> value(i)])

\* Whether the database selects the row by an expanded clause, and whether it
\* accepts the clause at all.
Selects(sql, row) == sql.tokens = <<>> \/ Truth(sql.tokens, sql.args, row) = SqlTrue

Executable(sql) ==
    /\ sql.tokens = <<>> \/ IsClause(sql.tokens)
    /\ Placeholders(sql.tokens) = Len(sql.args)
    /\ \A i \in 1..Len(sql.args) : ~sql.args[i].slice

=============================================================================
