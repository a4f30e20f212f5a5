------------------------ MODULE MCQueryInvalidation -------------------------
(* A model with a custom KeepItem over the column "hidden", and queries of  *)
(* every kind that invalidation tells apart.                                *)
EXTENDS QueryInvalidation

MCColumns == {"name", "hidden", "deleted", "note"}
MCTracked == {"name", "hidden", "deleted"}
MCRow == [MCColumns -> {0, 1}]
MCKept == {r \in MCRow : r["hidden"] = 0 /\ r["deleted"] = 0}

NoExact == [c \in MCColumns |-> {}]
Query(where, fields, sat, order, uncertain, incl) ==
    [where |-> where, fields |-> fields, exact |-> NoExact,
     sat |-> sat, match |-> sat, fails |-> {}, order |-> order, uncertainOrder |-> uncertain, includeDeleted |-> incl]

AllRows == Query("empty", {}, MCRow, {}, FALSE, FALSE)
WithDeleted == Query("empty", {}, MCRow, {}, TRUE, TRUE)   \* ORDER BY an expression
ByName == [Query("parsed", {"name"}, {r \in MCRow : r["name"] = 1}, {}, FALSE, FALSE)
              EXCEPT !.exact["name"] = {1}]
ByHidden == Query("parsed", {"hidden"}, {r \in MCRow : r["hidden"] # 1}, {"name"}, FALSE, FALSE)
\* name > ?, which cannot be evaluated if the name is NULL
Above == [ByName EXCEPT !.fails = {r \in MCRow : r["name"] = 0}, !.exact = NoExact]
Unparsed == Query("unparsed", {"hidden"}, {r \in MCRow : r["name"] = 1}, {}, FALSE, FALSE)

MCParamsOf ==
    [listAll |-> AllRows, countAll |-> AllRows, listDel |-> WithDeleted,
     listName |-> ByName, preciseName |-> ByName, listHidden |-> ByHidden,
     listAbove |-> Above, countUnparsed |-> Unparsed, otherAll |-> AllRows]
MCKeys == DOMAIN MCParamsOf
MCTableOf == [k \in MCKeys |-> "posts"]
MCKeyKind ==
    [k \in MCKeys |->
        CASE k \in {"listAll", "listDel", "listName", "listHidden", "listAbove"} -> "list"
          [] k \in {"countAll", "countUnparsed"} -> "count"
          [] k = "preciseName" -> "count_precise"
          [] OTHER -> "other"]
MCParams == {MCParamsOf[k] : k \in MCKeys}

=============================================================================
