----------------------------- MODULE MCMigration ----------------------------
(* Two tables, t and u, and releases between which columns appear, change    *)
(* their type and disappear, and indexes change in every way the code tells  *)
(* apart.                                                                    *)
EXTENDS Migration

Field(c, kind, tags) == [col |-> c, kind |-> kind, default |-> c = "b", tags |-> tags]
Tag(n) == <<[unique |-> FALSE, name |-> n]>>
UniqueTag(n) == <<[unique |-> TRUE, name |-> n]>>
Index(n, cols, unique, where) == [name |-> n, cols |-> cols, unique |-> unique, where |-> where]

One == [fields |-> <<Field("a", "int", <<>>)>>, extra |-> <<>>]
\* An index with its default name, and a second column.
Default == [fields |-> <<Field("a", "int", Tag(NoName)), Field("b", "string", <<>>)>>, extra |-> <<>>]
\* The same index under a name, and a column of another type.
Renamed == [fields |-> <<Field("a", "int", Tag(<<"z">>)), Field("b", "int64", <<>>)>>, extra |-> <<>>]
\* A unique index on both columns.
Composite == [fields |-> <<Field("a", "int", UniqueTag(<<"x">>)), Field("b", "string", UniqueTag(<<"x">>))>>,
              extra |-> <<>>]
\* The same name on what is left of the columns.
Narrow == [fields |-> <<Field("b", "string", UniqueTag(<<"x">>))>>, extra |-> <<>>]
\* A partial index, declared in code.
Partial == [fields |-> <<Field("b", "string", <<>>)>>,
            extra |-> <<Index(<<"x">>, {"b"}, TRUE, TRUE)>>]
\* Two tags that agree on a name through a default name.
Clashing == [fields |-> <<Field("a", "int", Tag(NoName)), Field("b", "string", Tag(<<"idx", "t", "a">>))>>,
             extra |-> <<>>]
\* A declaration in code that contradicts a tag.
Wrong == [fields |-> <<Field("a", "int", Tag(<<"x">>))>>,
          extra |-> <<Index(<<"x">>, {"a"}, TRUE, FALSE)>>]

On(t, m) == [table |-> t, model |-> m]

MCModelsOf ==
    [one |-> <<On("t", One)>>,
     default |-> <<On("t", Default)>>,
     renamed |-> <<On("t", Renamed)>>,
     composite |-> <<On("t", Composite)>>,
     narrow |-> <<On("t", Narrow)>>,
     partial |-> <<On("t", Partial)>>,
     clashing |-> <<On("t", Clashing)>>,
     wrong |-> <<On("t", Wrong)>>,
     moved |-> <<On("t", One), On("u", Narrow)>>]

MCRollouts ==
    {<<"one", "default">>, <<"default", "renamed">>, <<"default", "composite">>,
     <<"composite", "narrow">>, <<"narrow", "partial">>, <<"clashing", "default">>,
     <<"one", "wrong">>, <<"composite", "moved">>}

=============================================================================
