------------------------------ MODULE MCSharing ------------------------------
(* Two catalogs and a package of one user, and a second user, who follows.  *)
EXTENDS Sharing

CONSTANTS a, v, c1, c2, p1

\* View the catalog and its packages; edit the catalog alone; nothing.
SomeCatalogGrants == {<<1, 1>>, <<2, 0>>, <<0, 0>>}
SomePackageGrants == {0, 1, 3}

MCInit ==
    /\ Init
    /\ catalog[c1].creator = a /\ catalog[c2].creator = a
    /\ package[p1].catalog = c1
MCSpec == MCInit /\ [][Next]_vars
=============================================================================
