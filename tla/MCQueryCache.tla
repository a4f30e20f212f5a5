---------------------------- MODULE MCQueryCache ----------------------------
(* A model with the column "deleted" and, in some instances, "name"; a query *)
(* over "name" that cannot be matched against every row, and one over the    *)
(* whole table, ordered by "name" where there is one.                        *)
EXTENDS QueryCache, SequencesExt

CONSTANTS QueryName   \* the query of the instance

MCRow == [Columns -> {0, 1}]
MCKept == {r \in MCRow : r["deleted"] = 0}
NoExact == [c \in Columns |-> {}]

\* name > 0, where a name of 0 cannot be compared.
Above ==
    [where |-> "parsed", fields |-> {"name"}, exact |-> NoExact,
     sat |-> {r \in MCRow : r["name"] = 1}, match |-> {r \in MCRow : r["name"] = 1},
     fails |-> {r \in MCRow : r["name"] = 0}, order |-> {}, uncertainOrder |-> FALSE,
     includeDeleted |-> FALSE]
AllRows ==
    [where |-> "empty", fields |-> {}, exact |-> NoExact, sat |-> MCRow, match |-> MCRow,
     fails |-> {}, order |-> Columns \cap {"name"}, uncertainOrder |-> FALSE,
     includeDeleted |-> FALSE]

MCOrderBy(view) ==
    LET rank(i) == IF "name" \in DOMAIN view[i] THEN view[i]["name"] ELSE 0
        before(i, j) == rank(i) < rank(j) \/ (rank(i) = rank(j) /\ i < j)
    IN  SetToSortSeq(DOMAIN view, before)

MCQuery ==
    CASE QueryName = "above" -> Above
      [] QueryName = "all" -> AllRows

MCQueries == {QueryName}
MCParams == {MCQuery}
MCKeys == {"list", "count"}
MCListKey == [q \in MCQueries |-> "list"]
MCCountKey == [q \in MCQueries |-> "count"]
MCTableOf == [k \in MCKeys |-> "users"]
MCKeyKind == [k \in MCKeys |-> k]
MCParamsOf == [k \in MCKeys |-> MCQuery]

=============================================================================
