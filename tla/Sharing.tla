------------------------------- MODULE Sharing -------------------------------
(***************************************************************************)
(* Who may see catalogs and packages, and who follows them: updateCatalog, *)
(* updatePackage, movePackage, setPackagePermissions, saveFollow and       *)
(* setUserCatalogPermission of backend/src/resolvers.                      *)
(*                                                                         *)
(* A request reads entities, checks what it may do and then writes, in one *)
(* READ COMMITTED transaction (saveFollow: in none).  What save() of       *)
(* TypeORM writes is the entity as it was read, so a change that another   *)
(* request commits in between is written over.  Rows of permissions and    *)
(* follows are read when they are needed.                                  *)
(*                                                                         *)
(* A permission is a level: VIEW, EDIT that includes VIEW, or MANAGE that  *)
(* includes both.  Groups, collections and issues are left out.            *)
(***************************************************************************)
EXTENDS Naturals, Functions

CONSTANTS
    Users, Catalogs, Packages,
    Followers,      \* the users who follow something
    CatalogGrants,  \* pairs of levels: for the catalog itself, for all packages in it
    PackageGrants,  \* levels for a package
    Requests,       \* requests that may be open at once
    MaxRequests,    \* requests in all
    Absent          \* an optional input that is not given

Levels == 0..3
NONE == 0
VIEW == 1
EDIT == 2
MANAGE == 3

ASSUME GrantsAssumption ==
    /\ CatalogGrants \subseteq Levels \X Levels /\ PackageGrants \subseteq Levels
    /\ \A grant \in CatalogGrants : grant[1] = NONE => grant[2] = NONE
ASSUME NamesAssumption ==
    /\ Followers \subseteq Users /\ Catalogs \cap Packages = {}
    /\ Absent \notin BOOLEAN \cup Catalogs
ASSUME BoundAssumption == MaxRequests \in Nat

VARIABLES
    catalog,    \* the table catalog: is it public, who has created it
    package,    \* the table package: its catalog, is it public, who has created it
    catalogRow, \* user_catalog: the levels of a user for a catalog and for its packages
    packageRow, \* user_package_permission: the level of a user
    follows,    \* pairs of a user and a catalog or package
    request,    \* the requests that are open
    made,       \* how many requests there have been
    carried,    \* packages that updatePackage has moved
    raced       \* catalogs and packages that two open requests were about at once

vars == <<catalog, package, catalogRow, packageRow, follows, request, made, carried, raced>>
tables == <<catalog, package, catalogRow, packageRow, follows>>

NoGrant == <<NONE, NONE>>
Values == BOOLEAN \cup {Absent}

Idle == [op |-> "none"]

TypeOK ==
    /\ catalog \in [Catalogs -> [public : BOOLEAN, creator : Users]]
    /\ package \in [Packages -> [catalog : Catalogs, public : BOOLEAN, creator : Users]]
    /\ catalogRow \in [Catalogs \X Users -> Levels \X Levels]
    /\ packageRow \in [Packages \X Users -> Levels]
    /\ follows \subseteq Followers \X (Catalogs \cup Packages)
    /\ made \in 0..MaxRequests
    /\ carried \subseteq Packages /\ raced \subseteq Catalogs \cup Packages

\* createCatalog and createPackage give all levels to their caller, but the creator of a
\* catalog has none for its packages; every catalog may have been made public, and then
\* every package in it.
Init ==
    /\ catalog \in [Catalogs -> [public : BOOLEAN, creator : Users]]
    /\ package \in [Packages -> [catalog : Catalogs, public : BOOLEAN, creator : Users]]
    /\ \A p \in Packages :
          /\ package[p].creator = catalog[package[p].catalog].creator
          /\ package[p].public => catalog[package[p].catalog].public
    /\ catalogRow = [x \in Catalogs \X Users |->
                        IF catalog[x[1]].creator = x[2] THEN <<MANAGE, NONE>> ELSE NoGrant]
    /\ packageRow = [x \in Packages \X Users |->
                        IF package[x[1]].creator = x[2] THEN MANAGE ELSE NONE]
    /\ follows = {}
    /\ request = [r \in Requests |-> Idle] /\ made = 0
    /\ carried = {} /\ raced = {}

-----------------------------------------------------------------------------
(* Permissions.                                                            *)

AtLeast(level, public, granted) == level <= granted \/ (public /\ level <= VIEW)

\* resolveCatalogPermissionsForEntity
OnCatalog(u, c, level) == AtLeast(level, catalog[c].public, catalogRow[<<c, u>>][1])

\* resolvePackagePermissionsForEntity: by the package or by its catalog.
OnPackage(u, p, level) ==
    \/ AtLeast(level, package[p].public, packageRow[<<p, u>>])
    \/ level <= catalogRow[<<package[p].catalog, u>>][2]

CanView(u, x) == IF x \in Catalogs THEN OnCatalog(u, x, VIEW) ELSE OnPackage(u, x, VIEW)

\* deleteCatalogFollowsForUsersWithNoPermissions
CatalogStrangers(c) ==
    {f \in follows : f[2] = c /\ catalogRow[<<c, f[1]>>] = NoGrant}

\* deletePackageFollowsForUsersWithNoPermissions, by rows of the package alone.
PackageStrangers(p, rows) ==
    {f \in follows : f[2] = p /\ rows[<<p, f[1]>>] = NONE}

PackagesOf(c) == {p \in Packages : package[p].catalog = c}

-----------------------------------------------------------------------------
(* The life of a request.                                                  *)

\* What a request is about; two open requests about the same thing race.
About(req) ==
    CASE req.op = "updateCatalog" -> {req.catalog} \cup DOMAIN req.seen
      [] req.op = "setCatalogPermission" -> {req.catalog}
      [] req.op = "saveFollow" -> {req.target}
      [] req.op = "setPackagePermission" -> {req.package}
      [] req.op \in {"updatePackage", "movePackage"} ->
            {req.package, req.seen.catalog} \cup ({req.to} \cap Catalogs)
      [] OTHER -> {}

\* The checks have passed, and the entities have been read: req.seen, req.seenPublic.
Begin(r, req) ==
    LET racing == UNION {About(req) \cap About(request[q]) : q \in Requests \ {r}}
    IN  /\ request[r] = Idle /\ made < MaxRequests
        /\ request' = [request EXCEPT ![r] = req]
        /\ made' = made + 1
        /\ raced' = raced \cup racing
        /\ UNCHANGED <<tables, carried>>

Ended(r) ==
    /\ request' = [request EXCEPT ![r] = Idle]
    /\ UNCHANGED <<made, raced>>

-----------------------------------------------------------------------------
(* Catalogs.                                                               *)

\* A description alone is edited with no value for isPublic.
BeginUpdateCatalog(r, u, c, value) ==
    /\ OnCatalog(u, c, EDIT)
    /\ (value # Absent /\ value # catalog[c].public) => OnCatalog(u, c, MANAGE)
    /\ Begin(r, [op |-> "updateCatalog", catalog |-> c, value |-> value,
                 seenPublic |-> catalog[c].public, seen |-> Restrict(package, PackagesOf(c))])

\* Since save() of the catalog writes its packages, too, it takes back one that has left
\* meanwhile, and fails if one has come.  A catalog that becomes private takes its packages
\* along.  Unless the value given is true, follows of users without permissions end.
UpdateCatalog(r) ==
    LET req == request[r]
        c == req.catalog
        seen == DOMAIN req.seen
        closing == req.value = FALSE /\ req.seenPublic
    IN  /\ req.op = "updateCatalog"
        /\ PackagesOf(c) \subseteq seen
        /\ catalog' = [catalog EXCEPT ![c].public =
                          IF req.value = Absent THEN req.seenPublic ELSE req.value]
        /\ package' = [p \in Packages |->
                          IF p \in seen THEN [req.seen[p] EXCEPT !.public = @ /\ ~closing]
                          ELSE package[p]]
        /\ follows' = IF req.value = TRUE THEN follows
                      ELSE follows \ (CatalogStrangers(c)
                                      \cup UNION {PackageStrangers(p, packageRow) : p \in seen})
        /\ UNCHANGED <<catalogRow, packageRow, carried>>
        /\ Ended(r)

FailUpdateCatalog(r) ==
    /\ request[r].op = "updateCatalog"
    /\ ~ PackagesOf(request[r].catalog) \subseteq DOMAIN request[r].seen
    /\ UNCHANGED <<tables, carried>>
    /\ Ended(r)

BeginSetCatalogPermission(r, u, c, target, grant) ==
    /\ OnCatalog(u, c, MANAGE) /\ catalog[c].creator # target
    /\ Begin(r, [op |-> "setCatalogPermission", catalog |-> c, target |-> target, grant |-> grant,
                 seenPublic |-> catalog[c].public, seen |-> PackagesOf(c)])

\* A mutation, for the runs: only the packages' follows are looked at.
SetCatalogPermissionMutant(r) ==
    LET req == request[r]
        c == req.catalog
    IN  /\ req.op = "setCatalogPermission"
        /\ catalogRow' = [catalogRow EXCEPT ![<<c, req.target>>] = req.grant]
        /\ follows' = IF req.grant[1] # NONE \/ req.seenPublic THEN follows
                      ELSE follows \ UNION {PackageStrangers(p, packageRow) : p \in req.seen}
        /\ UNCHANGED <<catalog, package, packageRow, carried>>
        /\ Ended(r)

\* An empty list of permissions removes the row.
SetCatalogPermission(r) ==
    LET req == request[r]
        c == req.catalog
    IN  /\ req.op = "setCatalogPermission"
        /\ catalogRow' = [catalogRow EXCEPT ![<<c, req.target>>] = req.grant]
        /\ follows' = IF req.grant[1] # NONE \/ req.seenPublic THEN follows
                      ELSE follows \ ({<<req.target, c>>}
                                      \cup UNION {PackageStrangers(p, packageRow) : p \in req.seen})
        /\ UNCHANGED <<catalog, package, packageRow, carried>>
        /\ Ended(r)

-----------------------------------------------------------------------------
(* Packages.                                                               *)

\* A package may be made public only in a public catalog: the one it has been in.
BeginUpdatePackage(r, u, p, value, to) ==
    /\ OnPackage(u, p, EDIT)
    /\ to # Absent => OnCatalog(u, to, EDIT)
    /\ (value = TRUE /\ ~package[p].public) => catalog[package[p].catalog].public
    /\ Begin(r, [op |-> "updatePackage", package |-> p, value |-> value, to |-> to,
                 seen |-> package[p]])

\* The entity that is saved has a new catalogId and the old catalog: either may be what
\* save() writes.
UpdatePackage(r) ==
    LET req == request[r]
        p == req.package
        seen == req.seen
    IN  /\ req.op = "updatePackage"
        /\ \E to \in ({req.to} \cap Catalogs) \cup {seen.catalog} :
              /\ package' = [package EXCEPT ![p] =
                                [seen EXCEPT !.catalog = to,
                                             !.public = IF req.value = Absent THEN @ ELSE req.value]]
              /\ carried' = IF to # seen.catalog THEN carried \cup {p} ELSE carried
        /\ follows' = IF req.value = FALSE THEN follows \ PackageStrangers(p, packageRow) ELSE follows
        /\ UNCHANGED <<catalog, catalogRow, packageRow>>
        /\ Ended(r)

BeginMovePackage(r, u, p, to) ==
    /\ OnPackage(u, p, MANAGE) /\ OnCatalog(u, to, EDIT)
    /\ package[p].catalog # to
    /\ Begin(r, [op |-> "movePackage", package |-> p, to |-> to, by |-> u,
                 seen |-> package[p], seenPublic |-> catalog[to].public])

\* A mutation, for the runs: a public package stays public.
MovePackageMutant(r) ==
    LET req == request[r]
        p == req.package
        public == req.seenPublic
        noRows == [x \in Packages \X Users |-> IF x[1] = p THEN NONE ELSE packageRow[x]]
    IN  /\ req.op = "movePackage"
        /\ package' = [package EXCEPT ![p] =
                          [req.seen EXCEPT !.catalog = req.to]]
        /\ packageRow' = [noRows EXCEPT ![<<p, req.by>>] = catalogRow[<<req.to, req.by>>][1]]
        /\ follows' = IF public THEN follows ELSE follows \ PackageStrangers(p, noRows)
        /\ UNCHANGED <<catalog, catalogRow, carried>>
        /\ Ended(r)

\* All rows of the package go; the mover gets the level he has for the new catalog.
MovePackage(r) ==
    LET req == request[r]
        p == req.package
        public == req.seenPublic
        noRows == [x \in Packages \X Users |-> IF x[1] = p THEN NONE ELSE packageRow[x]]
    IN  /\ req.op = "movePackage"
        /\ package' = [package EXCEPT ![p] =
                          [req.seen EXCEPT !.catalog = req.to, !.public = @ /\ public]]
        /\ packageRow' = [noRows EXCEPT ![<<p, req.by>>] = catalogRow[<<req.to, req.by>>][1]]
        /\ follows' = IF public THEN follows ELSE follows \ PackageStrangers(p, noRows)
        /\ UNCHANGED <<catalog, catalogRow, carried>>
        /\ Ended(r)

BeginSetPackagePermission(r, u, p, target, level) ==
    /\ OnPackage(u, p, MANAGE) /\ package[p].creator # target
    /\ Begin(r, [op |-> "setPackagePermission", package |-> p, target |-> target, level |-> level,
                 seenPublic |-> package[p].public])

SetPackagePermission(r) ==
    LET req == request[r]
        p == req.package
    IN  /\ req.op = "setPackagePermission"
        /\ packageRow' = [packageRow EXCEPT ![<<p, req.target>>] = req.level]
        /\ follows' = IF req.level = NONE /\ ~req.seenPublic
                      THEN follows \ {<<req.target, p>>} ELSE follows
        /\ UNCHANGED <<catalog, package, catalogRow, carried>>
        /\ Ended(r)

-----------------------------------------------------------------------------
(* Follows.                                                                *)

BeginSaveFollow(r, u, x) ==
    /\ CanView(u, x)
    /\ Begin(r, [op |-> "saveFollow", user |-> u, target |-> x])

SaveFollow(r) ==
    LET req == request[r]
    IN  /\ req.op = "saveFollow"
        /\ follows' = follows \cup {<<req.user, req.target>>}
        /\ UNCHANGED <<catalog, package, catalogRow, packageRow, carried>>
        /\ Ended(r)

-----------------------------------------------------------------------------

BeginOn(r) ==
    \/ \E u \in Users, c \in Catalogs, value \in Values : BeginUpdateCatalog(r, u, c, value)
    \/ \E u, target \in Users, c \in Catalogs, grant \in CatalogGrants :
          BeginSetCatalogPermission(r, u, c, target, grant)
    \/ \E u \in Users, p \in Packages, value \in Values, to \in Catalogs \cup {Absent} :
          BeginUpdatePackage(r, u, p, value, to)
    \/ \E u \in Users, p \in Packages, to \in Catalogs : BeginMovePackage(r, u, p, to)
    \/ \E u, target \in Users, p \in Packages, level \in PackageGrants :
          BeginSetPackagePermission(r, u, p, target, level)
    \/ \E u \in Followers, x \in Catalogs \cup Packages : BeginSaveFollow(r, u, x)

EndOf(r) ==
    \/ UpdateCatalog(r) \/ FailUpdateCatalog(r) \/ SetCatalogPermission(r)
    \/ UpdatePackage(r) \/ MovePackage(r) \/ SetPackagePermission(r)
    \/ SaveFollow(r)

Next == \E r \in Requests : BeginOn(r) \/ EndOf(r)

Spec == Init /\ [][Next]_vars

-----------------------------------------------------------------------------
(* Properties.                                                             *)

\* Who follows a catalog may view it, whatever has been closed, granted and withdrawn,
\* unless two requests about the catalog overlapped (CatalogResolver.ts:269-276,
\* UserCatalogPermissionResolver.ts:51-58).
CatalogFollowersCanView ==
    \A f \in follows : f[2] \in Catalogs => CanView(f[1], f[2]) \/ f[2] \in raced

\* A public package is in a public catalog (PackageRepository.ts:389-392,
\* CatalogRepository.ts:198-203, PackageResolver.ts:521-523), unless updatePackage has
\* carried it there, which checks the catalog it comes from, or requests overlapped.
PublicInPublic ==
    \A p \in Packages : package[p].public =>
       \/ catalog[package[p].catalog].public
       \/ p \in carried \cup raced \/ package[p].catalog \in raced

-----------------------------------------------------------------------------
(* What the repository says, and the code does not do.                     *)

\* move-package.component.html: "This package will no longer be public, because
\* the ... catalog is not public".  However a package gets into its catalog, it
\* is public only where the catalog is.
PublicWhereCatalogIs ==
    \A p \in Packages : package[p].public => catalog[package[p].catalog].public
=============================================================================
