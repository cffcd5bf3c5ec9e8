--------------------------- MODULE MCFetchPipeline --------------------------
(* Each sink with the update methods it supports, and the packages that tell    *)
(* sinks apart.  The database sinks keep the schema they write in one field, *)
(* and are given one schema.                                               *)
EXTENDS FetchPipeline

One == [s |-> <<"a">>]
TwoSchemas == [s |-> <<"a", "b">>]
TwoSets == [s |-> <<"a">>, t |-> <<"b">>]

WithRecords ==
    {<<One, "file", Continuous>>, <<One, "file", AppendOnly>>, <<One, "file", FullSet>>,
     <<TwoSchemas, "file", AppendOnly>>, <<TwoSets, "file", AppendOnly>>,
     <<TwoSchemas, "object", FullSet>>,
     <<One, "table", FullSet>>, <<One, "table", AppendOnly>>, <<One, "mysql", FullSet>>,
     <<One, "redshift", FullSet>>, <<One, "warehouse", FullSet>>, <<One, "collection", FullSet>>,
     <<One, "log", AppendOnly>>}

MCAvro == {<<One, "file", AppendOnly, "blocks">>}
MCCombinations ==
    {Append(combination, "records") : combination \in WithRecords}
       \cup MCAvro \cup {<<One, "file", FullSet, "blocks">>}
=============================================================================
