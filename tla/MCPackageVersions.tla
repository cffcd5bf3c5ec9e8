-------------------------- MODULE MCPackageVersions -------------------------
(* Small instances of PackageVersions.                                     *)
EXTENDS PackageVersions, TLC

CONSTANTS p1, p2

\* A file with one schema, the given properties and text.
FileOf(properties, text, stats) ==
    [schemas |-> "S" :> [hidden |-> FALSE, properties |-> properties],
     sources |-> "source" :> "configuration", text |-> text, stats |-> stats]

Plain == [hidden |-> FALSE, types |-> {"string"}, unit |-> "none"]
Hidden == [Plain EXCEPT !.hidden = TRUE]

Base == FileOf("a" :> Plain, 1, 1)
MCFiles ==
    {Base,
     \* other statistics and a schema more: no change that counts
     [Base EXCEPT !.stats = 2, !.schemas = @ @@ "T" :> @["S"]],
     [Base EXCEPT !.text = 2],                              \* a minor change
     FileOf("a" :> Plain @@ "b" :> Plain, 1, 1),            \* a property more
     FileOf("a" :> Hidden, 1, 1)}                           \* a property hidden

MCProposals == {<<1, 0, 0>>, <<1, 0, 1>>}
MCVersions == {<<1, 0, 0>>, <<1, 0, 1>>, <<1, 0, 2>>, <<1, 1, 0>>, <<1, 1, 1>>, <<2, 0, 0>>}
=============================================================================
