-------------------------- MODULE MCQueryPredicate --------------------------
(***************************************************************************)
(* Grows WHERE clauses out of conditions, and compares what internal/cache *)
(* makes of each with what the database makes of it.                       *)
(*                                                                         *)
(* The columns are n, an int, and the pointers p to an int and s to a      *)
(* string. A clause starts as one of FirstConditions; conditions of        *)
(* MoreConditions join it by AND or OR, on the left or on the right, up to *)
(* MaxConditions, with parentheses around any stage but the last. One slip *)
(* of the caller's hand may lose or add a token or an argument.            *)
(***************************************************************************)
EXTENDS QueryPredicate

CONSTANT MaxConditions

VARIABLES
    where, args,          \* the clause and its arguments
    conditions, slipped,  \* how it was made
    pred, sql             \* the parsed predicate and the expanded statement

vars == <<where, args, conditions, slipped, pred, sql>>

a == 3
b == 4

MCColumns == {"n", "p", "s"}
MCStrings == {"s"}
MCPointers == {"p", "s"}
MCLiterals == ("1" :> 1) @@ ("NULL" :> Null)
MCQualified == ("t.n" :> "n")

Rows == [n : {0, 1}, p : {Null, 0, 1}, s : {Null, <<>>, <<a>>, <<a, b>>, <<a, Blank>>}]

\* A row, and the rows that differ from it at most in the given columns.
Somewhere == [n |-> 0, p |-> Null, s |-> Null]

RowsOver(fields) == {row \in Rows : \A c \in Columns \ fields : row[c] = Somewhere[c]}

\* Rows that differ from it in every column.
Elsewhere == {[n |-> 1, p |-> 0, s |-> <<a>>], [n |-> 1, p |-> 1, s |-> <<a, b>>]}

Cond(tokens, as) == [tokens |-> tokens, args |-> as]

Compared(column, operator, v) == Cond(<<column, operator, "?">>, <<Scalar(v)>>)

\* Sequences, not sets: the arguments of two conditions may have different types.
FirstConditions ==
    <<Cond(<<>>, <<>>), Compared("n", "=", 0), Compared("n", "!=", 0), Compared("n", "<>", 0), Compared("n", "<=", 0),
      Compared("p", "=", 1), Compared("p", "!=", 1), Compared("p", "<", 1), Compared("p", ">=", 1),
      Compared("s", "=", <<a>>), Compared("s", "<", <<a, b>>), Compared("s", ">=", <<a, b>>),
      Compared("s", "LIKE", <<a, Percent>>), Compared("s", "LIKE", <<Percent, a>>),
      Compared("s", "LIKE", <<Percent, b, Percent>>), Compared("s", "LIKE", <<Percent>>),
      Compared("s", "LIKE", <<a, b>>), Compared("s", "LIKE", <<a, Underscore>>),
      Compared("s", "LIKE", <<a, Percent, b>>), Compared("s", "LIKE", <<a, Blank>>),
      Cond(<<"n", "IN", "(", "?", ")">>, <<Slice(<<>>)>>),
      Cond(<<"n", "IN", "(", "?", ")">>, <<Slice(<<1>>)>>),
      Cond(<<"n", "IN", "(", "?", ")">>, <<Scalar(0)>>),
      Cond(<<"n", "NOT", "IN", "(", "?", ")">>, <<Slice(<<>>)>>),
      Cond(<<"n", "NOT", "IN", "(", "?", ")">>, <<Slice(<<1>>)>>),
      Cond(<<"p", "IN", "(", "?", ")">>, <<Slice(<<0, 1>>)>>),
      Cond(<<"p", "IN", "(", "?", ",", "?", ")">>, <<Scalar(0), Scalar(1)>>),
      Cond(<<"p", "NOT", "IN", "(", "?", ",", "NULL", ")">>, <<Scalar(0)>>),
      Cond(<<"p", "IN", "(", "1", ")">>, <<>>),
      Cond(<<"p", "=", "NULL">>, <<>>),
      Cond(<<"p", ">", "NULL">>, <<>>)>>

MoreConditions ==
    <<Cond(<<"t.n", "=", "1">>, <<>>),
      Compared("p", ">", 0),
      Cond(<<"n", "IN", "(", "?", ")">>, <<Slice(<<0, 1>>)>>),
      Cond(<<"s", "NOT", "LIKE", "?">>, <<Scalar(<<Percent, a>>)>>)>>

Init ==
    /\ \E i \in 1..Len(FirstConditions) :
         where = FirstConditions[i].tokens /\ args = FirstConditions[i].args
    /\ conditions = 1
    /\ slipped = FALSE
    /\ pred = parseQueryPredicate(where, args)
    /\ sql = ExpandInClauses(where, args)

JoinRight(c, o) == where' = where \o <<o>> \o c.tokens /\ args' = args \o c.args

JoinLeft(c, o) == where' = c.tokens \o <<o>> \o where /\ args' = c.args \o args

Extend ==
    /\ ~slipped /\ where # <<>> /\ conditions < MaxConditions
    /\ \E i \in 1..(IF conditions = 1 THEN Len(MoreConditions) ELSE 2), o \in {"AND", "OR"} :
         JoinLeft(MoreConditions[i], o) \/ JoinRight(MoreConditions[i], o)
    /\ conditions' = conditions + 1
    /\ UNCHANGED slipped

Parenthesise ==
    /\ ~slipped /\ where # <<>> /\ where[1] # "(" /\ conditions < MaxConditions
    /\ where' = <<"(">> \o where \o <<")">>
    /\ UNCHANGED <<args, conditions, slipped>>

\* The tokens a slip may add: any kind to a single condition, else a parenthesis.
Slips == IF conditions = 1 THEN {"(", ")", ",", "NOT", "OR", "?", "n"} ELSE {"(", ")"}

Slip ==
    /\ ~slipped /\ conditions < MaxConditions
    /\ slipped' = TRUE
    /\ \/ \E i \in 1..Len(where) : where' = RemoveAt(where, i) /\ args' = args
       \/ \E i \in 1..(Len(where) + 1), t \in Slips :
            where' = InsertAt(where, i, t) /\ args' = args
       \/ args # <<>> /\ where' = where /\ args' = Front(args)
       \/ where' = where /\ args' = Append(args, Scalar(0))
    /\ UNCHANGED conditions

Next ==
    /\ Extend \/ Parenthesise \/ Slip
    /\ pred' = parseQueryPredicate(where', args')
    /\ sql' = ExpandInClauses(where', args')

Spec == Init /\ [][Next]_vars

-----------------------------------------------------------------------------

\* The parser accepts a clause exactly when it splits into conditions joined by
\* AND, OR and parentheses and has one placeholder per argument (query_predicate.go,
\* parseQueryPredicate): the recursive descent neither stops early nor rejects or
\* misplaces a parenthesis, a comma or an argument.
ParserAccepts == ~pred.failed <=> where = <<>> \/ (IsClause(where) /\ Placeholders(where) = Len(args))

\* If every slice of an accepted clause is the only operand of an IN, the expanded
\* statement is one the database accepts, with one scalar for each placeholder.
ExpansionExecutes ==
    (~pred.failed /\
       \A c \in ToSet(Conditions(pred.node)) : \A v \in ToSet(resolveOperands(c, args)) :
            v.slice => c.operator \in {"IN", "NOT IN"} /\ SinglePlaceholder(c))
    => Executable(sql)

\* Where matching a condition and SQL part: an absent value on either side of an
\* operator that Go's equality decides, NOT IN an empty slice, and an ordering
\* against nil.
NullMatters(c, row) ==
    LET vals == UNION {ToSet(v.vals) : v \in ToSet(resolveOperands(c, args))}
        x == row[c.field]
    IN  CASE c.operator \in {"=", "IN"} -> x = Null /\ Null \in vals
          [] c.operator \in {"!=", "<>"} -> Null \in vals \cup {x}
          [] c.operator = "NOT IN" -> vals = {} \/ Null \in vals \cup {x}
          [] OTHER -> Null \in vals

\* Where LIKE patterns and SQL part: a wildcard that is not alone at an end of the
\* pattern, and blanks at the ends, which matchLike removes.
PatternMatters(c) ==
    /\ c.operator \in {"LIKE", "NOT LIKE"}
    /\ LET pattern == resolveOperands(c, args)[1].vals[1]
           core == Trim(pattern, Percent)
       IN  Contains(core, Percent) \/ Trim(pattern, Blank) # pattern

\* On a row where no condition turns on an absent value, a match that does not fail
\* agrees with the database: the row matches (CheckQueryMatch) exactly if the
\* expanded WHERE clause selects it, whatever the nesting, the precedence and the
\* short cuts of AND and OR. This is what QueryInvalidation assumes of a predicate
\* (Exact).
MatchesLikeSql ==
    LET nodes == ToSet(Conditions(pred.node))
    IN  (~pred.failed /\ Executable(sql)) =>
        \A row \in RowsOver({c.field : c \in nodes}) :
            \/ \E c \in nodes : NullMatters(c, row) \/ PatternMatters(c)
            \/ LET outcome == CheckQueryMatchWithPredicate(pred, args, row)
               IN  outcome \in {"error", Outcome(Selects(sql, row))}

\* What an accepted clause selects, and what matching it gives, depends on no column
\* but its Fields, and there is at least one: the column dependencies the index keeps
\* for it (buildQueryDependencies) miss no column. CacheIndex assumes it (ParamsAssumption).
FieldsSuffice ==
    (~pred.failed /\ where # <<>> /\ Executable(sql)) =>
        LET fields == Fields(pred.node)
        IN  /\ fields # {}
            /\ \A row \in RowsOver(fields), other \in Elsewhere :
                 LET twin == [c \in Columns |-> IF c \in fields THEN row[c] ELSE other[c]]
                 IN  row # twin =>
                       /\ CheckQueryMatchWithPredicate(pred, args, row)
                            = CheckQueryMatchWithPredicate(pred, args, twin)
                       /\ Selects(sql, row) = Selects(sql, twin)

\* Without OR, a row the database selects has in every column that = or IN conditions
\* pin one of the values they list (ExactMatches): the value index, keyed by the
\* values a row has, leads to every such query.
PinnedValues ==
    (~pred.failed /\ Executable(sql) /\ ~Contains(where, "OR")) =>
        LET exact == ExactMatches(pred.node, args)
        IN  \A row \in RowsOver(Fields(pred.node)), f \in Fields(pred.node) :
              Selects(sql, row) /\ exact[f] # {} => row[f] \in exact[f]
=============================================================================
