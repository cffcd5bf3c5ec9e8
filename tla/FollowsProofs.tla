---------------------------- MODULE FollowsProofs ----------------------------
(***************************************************************************)
(* Theorems about Sharing, for any number of users, catalogs, packages and *)
(* requests, and about LeaderServices, for any number of servers,          *)
(* recipients, runs, events and faults: who may follow what, and what      *)
(* followers are told.                                                     *)
(*                                                                         *)
(* The argument about follows: a request writes only what it is about, so  *)
(* what another request has read stays as it is, or both are about it, and *)
(* it is in raced.  What is not in raced is therefore written by requests  *)
(* that have read it as it is when they write.                             *)
(*                                                                         *)
(* The argument about notifications, for events that are not passed by:    *)
(* what lies before the window of a run has been dealt with when the run   *)
(* began, and what lies in its window is in its batch, so that a run may   *)
(* store the end of its window whatever other runs have stored meanwhile.  *)
(* A run that is alone begins where the stored time ends, and nothing      *)
(* later has been told.                                                    *)
(***************************************************************************)
EXTENDS Sharing, LeaderServices, TLAPS

CatalogType == [public : BOOLEAN, creator : Users]
PackageType == [catalog : Catalogs, public : BOOLEAN, creator : Users]

\* A request in progress is one that Begin has made.
RequestOK(req) ==
    CASE req.op = "updateCatalog" ->
            /\ req.catalog \in Catalogs /\ req.value \in Values /\ req.seenPublic \in BOOLEAN
            /\ DOMAIN req.seen \subseteq Packages
            /\ \A p \in DOMAIN req.seen : req.seen[p] \in PackageType /\ req.seen[p].catalog = req.catalog
      [] req.op = "setCatalogPermission" ->
            /\ req.catalog \in Catalogs /\ req.target \in Users /\ req.grant \in CatalogGrants
      [] req.op = "updatePackage" ->
            /\ req.package \in Packages /\ req.value \in Values /\ req.to \in Catalogs \cup {Absent}
            /\ req.seen \in PackageType
      [] req.op = "movePackage" ->
            /\ req.package \in Packages /\ req.to \in Catalogs /\ req.by \in Users
            /\ req.seen \in PackageType /\ req.seenPublic \in BOOLEAN
      [] req.op = "setPackagePermission" ->
            /\ req.package \in Packages /\ req.target \in Users /\ req.level \in PackageGrants
      [] req.op = "saveFollow" ->
            /\ req.user \in Followers /\ req.target \in Catalogs \cup Packages
      [] OTHER -> req = Idle

\* Two open requests about the same thing have raced.
RacesKnown ==
    \A r, q \in Requests : r # q => About(request[r]) \cap About(request[q]) \subseteq raced

\* What a request has read of things that have not been raced about is as it was.
CatalogFresh(req) ==
    req.op = "updateCatalog" =>
       /\ req.catalog \notin raced =>
             /\ req.seenPublic = catalog[req.catalog].public
             /\ PackagesOf(req.catalog) \subseteq DOMAIN req.seen \cup raced
       /\ \A p \in DOMAIN req.seen \ raced : req.seen[p] = package[p]

PermissionFresh(req) ==
    req.op = "setCatalogPermission" /\ req.catalog \notin raced =>
       req.seenPublic = catalog[req.catalog].public

PackageFresh(req) ==
    /\ req.op \in {"updatePackage", "movePackage"} /\ req.package \notin raced =>
          req.seen = package[req.package]
    /\ req.op = "updatePackage" /\ req.value = TRUE /\ ~req.seen.public /\ req.seen.catalog \notin raced =>
          catalog[req.seen.catalog].public
    /\ req.op = "movePackage" /\ req.to \notin raced => req.seenPublic = catalog[req.to].public

FollowFresh(req) ==
    req.op = "saveFollow" /\ req.target \in Catalogs \ raced => CanView(req.user, req.target)

Fresh(req) == CatalogFresh(req) /\ PermissionFresh(req) /\ PackageFresh(req) /\ FollowFresh(req)

\* Who may see the packages of a catalog may see the catalog.
GrantsFit == \A c \in Catalogs, u \in Users : catalogRow[<<c, u>>] # NoGrant => VIEW <= catalogRow[<<c, u>>][1]

Inv ==
    /\ TypeOK /\ GrantsFit /\ RacesKnown
    /\ DOMAIN request = Requests
    /\ \A r \in Requests : RequestOK(request[r]) /\ Fresh(request[r])
    /\ CatalogFollowersCanView /\ PublicInPublic

-----------------------------------------------------------------------------
(* What a request writes.                                                  *)

\* The step that ends a request writes nothing but what the request is about.
Confined(req) ==
    /\ \A c \in Catalogs \ About(req) : catalog'[c] = catalog[c]
    /\ \A c \in Catalogs \ About(req), u \in Users : catalogRow'[<<c, u>>] = catalogRow[<<c, u>>]
    /\ \A p \in Packages \ About(req) : package'[p] = package[p]
    /\ \A p \in Packages : package'[p] # package[p] => package'[p].catalog \in About(req)

\* What each kind of request is about.
LEMMA AboutFact ==
    ASSUME NEW req
    PROVE  /\ req.op = "updateCatalog" => About(req) = {req.catalog} \cup DOMAIN req.seen
           /\ req.op = "setCatalogPermission" => About(req) = {req.catalog}
           /\ req.op = "saveFollow" => About(req) = {req.target}
           /\ req.op = "setPackagePermission" => About(req) = {req.package}
           /\ req.op \in {"updatePackage", "movePackage"} =>
                 About(req) = {req.package, req.seen.catalog} \cup ({req.to} \cap Catalogs)
BY DEF About

LEMMA RequestFact ==
    ASSUME NEW req, RequestOK(req)
    PROVE  /\ req.op = "updateCatalog" =>
                 /\ req.catalog \in Catalogs /\ req.value \in Values /\ req.seenPublic \in BOOLEAN
                 /\ DOMAIN req.seen \subseteq Packages
                 /\ \A p \in DOMAIN req.seen : req.seen[p] \in PackageType /\ req.seen[p].catalog = req.catalog
           /\ req.op = "setCatalogPermission" =>
                 req.catalog \in Catalogs /\ req.target \in Users /\ req.grant \in CatalogGrants
           /\ req.op = "updatePackage" =>
                 /\ req.package \in Packages /\ req.value \in Values /\ req.to \in Catalogs \cup {Absent}
                 /\ req.seen \in PackageType
           /\ req.op = "movePackage" =>
                 /\ req.package \in Packages /\ req.to \in Catalogs /\ req.by \in Users
                 /\ req.seen \in PackageType /\ req.seenPublic \in BOOLEAN
           /\ req.op = "setPackagePermission" =>
                 req.package \in Packages /\ req.target \in Users /\ req.level \in PackageGrants
           /\ req.op = "saveFollow" => req.user \in Followers /\ req.target \in Catalogs \cup Packages
BY DEF RequestOK

\* A request that has ended is about nothing, and has read nothing.
LEMMA IdleFact == About(Idle) = {} /\ RequestOK(Idle) /\ Fresh(Idle) /\ Fresh(Idle)'
BY DEF Idle, About, RequestOK, Fresh, CatalogFresh, PermissionFresh, PackageFresh, FollowFresh

\* Types of the tables after updateCatalog, and what it writes.
LEMMA UpdateCatalogFact ==
    ASSUME TypeOK, NEW r \in Requests, RequestOK(request[r]), UpdateCatalog(r)
    PROVE  /\ Confined(request[r])
           /\ catalog' \in [Catalogs -> CatalogType] /\ package' \in [Packages -> PackageType]
           /\ \A c \in Catalogs : catalog'[c].public =
                 IF c # request[r].catalog THEN catalog[c].public
                 ELSE IF request[r].value = Absent THEN request[r].seenPublic ELSE request[r].value
           /\ \A p \in Packages : IF p \in DOMAIN request[r].seen
                 THEN /\ package'[p].catalog = request[r].catalog
                      /\ package'[p].public = (request[r].seen[p].public
                                               /\ ~(request[r].value = FALSE /\ request[r].seenPublic))
                 ELSE package'[p] = package[p]
<1> DEFINE req == request[r]
           new == IF req.value = Absent THEN req.seenPublic ELSE req.value
<1>1. /\ req.op = "updateCatalog" /\ req.catalog \in Catalogs /\ req.value \in Values /\ req.seenPublic \in BOOLEAN
      /\ DOMAIN req.seen \subseteq Packages
      /\ \A p \in DOMAIN req.seen : req.seen[p] \in PackageType /\ req.seen[p].catalog = req.catalog
  BY RequestFact DEF UpdateCatalog
<1>2. new \in BOOLEAN
  BY <1>1 DEF Values
<1>3. catalog' = [catalog EXCEPT ![req.catalog].public = new] /\ catalogRow' = catalogRow
  BY DEF UpdateCatalog
<1>4. package' = [p \in Packages |->
                    IF p \in DOMAIN req.seen
                    THEN [req.seen[p] EXCEPT !.public = @ /\ ~(req.value = FALSE /\ req.seenPublic)]
                    ELSE package[p]]
  BY DEF UpdateCatalog
<1>5. About(req) = {req.catalog} \cup DOMAIN req.seen
  BY <1>1, AboutFact
<1> HIDE DEF req, new
<1>6. catalog \in [Catalogs -> CatalogType] /\ package \in [Packages -> PackageType]
  BY DEF TypeOK, CatalogType, PackageType
<1>7. /\ catalog' \in [Catalogs -> CatalogType]
      /\ \A c \in Catalogs : catalog'[c].public = IF c # req.catalog THEN catalog[c].public ELSE new
      /\ \A c \in Catalogs \ {req.catalog} : catalog'[c] = catalog[c]
  BY <1>1, <1>2, <1>3, <1>6 DEF CatalogType
<1>8. ASSUME NEW p \in Packages
      PROVE  /\ package'[p] \in PackageType
             /\ IF p \in DOMAIN req.seen
                THEN /\ package'[p].catalog = req.catalog
                     /\ package'[p].public = (req.seen[p].public /\ ~(req.value = FALSE /\ req.seenPublic))
                ELSE package'[p] = package[p]
  BY <1>1, <1>4, <1>6 DEF PackageType
<1>9. Confined(req)
  BY <1>3, <1>5, <1>7, <1>8 DEF Confined
<1>10. package' \in [Packages -> PackageType]
  BY <1>4, <1>8
<1> QED BY <1>7, <1>8, <1>9, <1>10 DEF req, new

\* The types after a request that leaves catalogs and packages alone in kind.
LEMMA TypesKept ==
    ASSUME TypeOK, catalog' \in [Catalogs -> CatalogType], package' \in [Packages -> PackageType],
           catalogRow' \in [Catalogs \X Users -> Levels \X Levels],
           packageRow' \in [Packages \X Users -> Levels],
           follows' \subseteq Followers \X (Catalogs \cup Packages),
           made' \in 0..MaxRequests, carried' \subseteq Packages, raced' \subseteq Catalogs \cup Packages
    PROVE  TypeOK'
BY DEF TypeOK, CatalogType, PackageType

\* Whether a user sees a catalog.
LEMMA ViewFact ==
    ASSUME NEW u \in Users, NEW c \in Catalogs
    PROVE  /\ CanView(u, c) <=> catalog[c].public \/ VIEW <= catalogRow[<<c, u>>][1]
           /\ CanView(u, c)' <=> catalog'[c].public \/ VIEW <= catalogRow'[<<c, u>>][1]
BY DEF CanView, OnCatalog, AtLeast, VIEW

\* Follows that were there before stay those of users who see the catalog.
LEMMA FollowersKept ==
    ASSUME Inv, raced' = raced, follows' \subseteq follows, catalogRow' = catalogRow, catalog' = catalog
    PROVE  CatalogFollowersCanView' /\ GrantsFit'
<1>1. \A f \in follows : f[1] \in Users
  BY NamesAssumption DEF Inv, TypeOK
<1> QED BY <1>1, ViewFact DEF Inv, CatalogFollowersCanView, GrantsFit

\* updateCatalog: who has no grant loses his follow, unless the catalog is made public; a
\* catalog that closes takes the packages along that it has read, which are all of its own.
LEMMA UpdateCatalogStep ==
    ASSUME Inv, NEW r \in Requests, UpdateCatalog(r)
    PROVE  /\ Confined(request[r]) /\ TypeOK' /\ GrantsFit'
           /\ CatalogFollowersCanView' /\ PublicInPublic'
<1> DEFINE req == request[r]
           closing == req.value = FALSE /\ req.seenPublic
<1>1. /\ Confined(req) /\ catalog' \in [Catalogs -> CatalogType] /\ package' \in [Packages -> PackageType]
      /\ \A c \in Catalogs : catalog'[c].public =
            IF c # req.catalog THEN catalog[c].public
            ELSE IF req.value = Absent THEN req.seenPublic ELSE req.value
      /\ \A p \in Packages : IF p \in DOMAIN req.seen
            THEN /\ package'[p].catalog = req.catalog
                 /\ package'[p].public = (req.seen[p].public /\ ~closing)
            ELSE package'[p] = package[p]
  BY UpdateCatalogFact DEF Inv
<1>2. /\ PackagesOf(req.catalog) \subseteq DOMAIN req.seen
      /\ UNCHANGED <<catalogRow, packageRow, carried, made, raced>>
      /\ follows' \subseteq follows
      /\ req.value # TRUE => follows' \cap CatalogStrangers(req.catalog) = {}
  BY DEF UpdateCatalog, Ended
<1>3. /\ req.op = "updateCatalog" /\ req.catalog \in Catalogs /\ req.value \in Values /\ req.seenPublic \in BOOLEAN
      /\ DOMAIN req.seen \subseteq Packages
      /\ \A p \in DOMAIN req.seen : req.seen[p] \in PackageType /\ req.seen[p].catalog = req.catalog
  BY RequestFact DEF UpdateCatalog, Inv
<1>4. CatalogFresh(req)
  BY DEF Inv, Fresh
<1> HIDE DEF req, closing
<1>5. TypeOK' /\ GrantsFit'
  BY <1>1, <1>2, TypesKept DEF Inv, GrantsFit, TypeOK
<1>6. CatalogFollowersCanView'
  <2> SUFFICES ASSUME NEW f \in follows', f[2] \in Catalogs, f[2] \notin raced PROVE CanView(f[1], f[2])'
    BY <1>2 DEF CatalogFollowersCanView
  <2>1. f \in follows /\ f[1] \in Users
    BY <1>2, NamesAssumption DEF Inv, TypeOK
  <2>2. catalog[f[2]].public \/ VIEW <= catalogRow[<<f[2], f[1]>>][1]
    BY <2>1, ViewFact DEF Inv, CatalogFollowersCanView
  <2>3. CASE f[2] # req.catalog
    BY <1>1, <1>2, <2>1, <2>2, <2>3, ViewFact
  <2>4. CASE f[2] = req.catalog /\ req.value = TRUE
    BY <1>1, <2>1, <2>4, ViewFact, NamesAssumption
  <2>5. CASE f[2] = req.catalog /\ req.value # TRUE
    <3>1. f \notin CatalogStrangers(req.catalog)
      BY <1>2, <2>5
    <3>2. catalogRow[<<f[2], f[1]>>] # NoGrant
      BY <2>1, <2>5, <3>1 DEF CatalogStrangers
    <3> QED BY <1>2, <2>1, <3>2, ViewFact DEF Inv, GrantsFit
  <2> QED BY <2>3, <2>4, <2>5
<1>7. PublicInPublic'
  <2> SUFFICES ASSUME NEW p \in Packages, package'[p].public, p \notin carried \cup raced,
                      package'[p].catalog \notin raced
               PROVE  catalog'[package'[p].catalog].public
    BY <1>2 DEF PublicInPublic
  <2>1. package[p].catalog \in Catalogs /\ package[p] \in PackageType
    BY DEF Inv, TypeOK, PackageType
  <2>2. CASE p \in DOMAIN req.seen
    <3>1. req.seen[p] = package[p] /\ package[p].public /\ ~closing /\ package[p].catalog = req.catalog
      BY <1>1, <1>3, <1>4, <2>2 DEF CatalogFresh, PackageType
    <3>2. package'[p].catalog = req.catalog /\ req.catalog \notin raced
      BY <1>1, <2>2
    <3>3. catalog[req.catalog].public /\ req.seenPublic
      BY <1>3, <1>4, <3>1, <3>2 DEF Inv, PublicInPublic, CatalogFresh
    <3>4. req.value # FALSE
      BY <3>1, <3>3 DEF closing
    <3> QED BY <1>1, <1>3, <3>2, <3>3, <3>4 DEF Values
  <2>3. CASE p \notin DOMAIN req.seen
    <3>1. package'[p] = package[p] /\ p \notin PackagesOf(req.catalog)
      BY <1>1, <1>2, <2>3
    <3>2. package[p].catalog # req.catalog
      BY <3>1 DEF PackagesOf
    <3> QED BY <1>1, <2>1, <3>1, <3>2 DEF Inv, PublicInPublic
  <2> QED BY <2>2, <2>3
<1> QED BY <1>1, <1>5, <1>6, <1>7 DEF req

\* setUserCatalogPermission: whoever keeps his follow keeps a level, or the catalog is public.
LEMMA SetCatalogPermissionStep ==
    ASSUME Inv, NEW r \in Requests, SetCatalogPermission(r)
    PROVE  /\ Confined(request[r]) /\ TypeOK' /\ GrantsFit'
           /\ CatalogFollowersCanView' /\ PublicInPublic'
<1> DEFINE req == request[r]
<1>1. /\ req.op = "setCatalogPermission" /\ req.catalog \in Catalogs /\ req.target \in Users
      /\ req.grant \in CatalogGrants
  BY RequestFact DEF SetCatalogPermission, Inv
<1>2. /\ catalogRow' = [catalogRow EXCEPT ![<<req.catalog, req.target>>] = req.grant]
      /\ UNCHANGED <<catalog, package, packageRow, carried, made, raced>>
      /\ follows' \subseteq follows
      /\ req.grant[1] = NONE /\ ~req.seenPublic => <<req.target, req.catalog>> \notin follows'
  BY DEF SetCatalogPermission, Ended
<1>3. PermissionFresh(req) /\ About(req) = {req.catalog}
  BY <1>1, AboutFact DEF Inv, Fresh
<1> HIDE DEF req
<1>4. req.grant \in Levels \X Levels /\ (req.grant # NoGrant => VIEW <= req.grant[1])
  BY <1>1, GrantsAssumption DEF NoGrant, NONE, VIEW, Levels
<1>5. /\ catalogRow' \in [Catalogs \X Users -> Levels \X Levels]
      /\ \A c \in Catalogs, u \in Users :
            catalogRow'[<<c, u>>] = IF c = req.catalog /\ u = req.target THEN req.grant ELSE catalogRow[<<c, u>>]
  BY <1>1, <1>2, <1>4 DEF Inv, TypeOK
<1>6. TypeOK'
  BY <1>2, <1>5, TypesKept DEF Inv, TypeOK, CatalogType, PackageType
<1>7. GrantsFit'
  BY <1>4, <1>5 DEF Inv, GrantsFit
<1>8. Confined(req)
  BY <1>2, <1>3, <1>5 DEF Confined
<1>9. CatalogFollowersCanView'
  <2> SUFFICES ASSUME NEW f \in follows', f[2] \in Catalogs, f[2] \notin raced PROVE CanView(f[1], f[2])'
    BY <1>2 DEF CatalogFollowersCanView
  <2>1. f \in follows /\ f[1] \in Users /\ f = <<f[1], f[2]>>
    BY <1>2, NamesAssumption DEF Inv, TypeOK
  <2>2. catalog[f[2]].public \/ VIEW <= catalogRow[<<f[2], f[1]>>][1]
    BY <2>1, ViewFact DEF Inv, CatalogFollowersCanView
  <2>3. CASE f[2] # req.catalog \/ f[1] # req.target
    BY <1>2, <1>5, <2>1, <2>2, <2>3, ViewFact
  <2>4. CASE f[2] = req.catalog /\ f[1] = req.target
    <3>1. req.grant[1] # NONE \/ req.seenPublic
      BY <1>2, <2>1, <2>4
    <3>2. CASE req.seenPublic
      BY <1>1, <1>2, <1>3, <2>1, <2>4, <3>2, ViewFact DEF PermissionFresh
    <3>3. CASE req.grant[1] # NONE
      <4>1. req.grant # NoGrant
        BY <3>3 DEF NoGrant
      <4> QED BY <1>4, <1>5, <2>1, <2>4, <4>1, ViewFact
    <3> QED BY <3>1, <3>2, <3>3
  <2> QED BY <2>3, <2>4
<1>10. PublicInPublic'
  BY <1>2 DEF Inv, PublicInPublic
<1> QED BY <1>6, <1>7, <1>8, <1>9, <1>10 DEF req

\* updatePackage: what is made public was in a public catalog when it was read; a package
\* that is carried elsewhere is in carried.
LEMMA UpdatePackageStep ==
    ASSUME Inv, NEW r \in Requests, UpdatePackage(r)
    PROVE  /\ Confined(request[r]) /\ TypeOK' /\ GrantsFit'
           /\ CatalogFollowersCanView' /\ PublicInPublic'
<1> DEFINE req == request[r]
           public == IF req.value = Absent THEN req.seen.public ELSE req.value
<1>1. /\ req.op = "updatePackage" /\ req.package \in Packages /\ req.value \in Values
      /\ req.to \in Catalogs \cup {Absent} /\ req.seen \in PackageType
  BY RequestFact DEF UpdatePackage, Inv
<1>2. PICK dest \in ({req.to} \cap Catalogs) \cup {req.seen.catalog} :
         /\ package' = [package EXCEPT ![req.package] = [req.seen EXCEPT !.catalog = dest, !.public = public]]
         /\ carried' = IF dest # req.seen.catalog THEN carried \cup {req.package} ELSE carried
  BY <1>1 DEF UpdatePackage, PackageType
<1>3. UNCHANGED <<catalog, catalogRow, packageRow, made, raced>> /\ follows' \subseteq follows
  BY DEF UpdatePackage, Ended
<1>4. PackageFresh(req) /\ About(req) = {req.package, req.seen.catalog} \cup ({req.to} \cap Catalogs)
  BY <1>1, AboutFact DEF Inv, Fresh
<1>5. public \in BOOLEAN
  BY <1>1 DEF Values, PackageType
<1>6. public => req.seen.public \/ req.value = TRUE
  BY <1>1 DEF Values
<1> HIDE DEF req, public
<1>7. dest \in Catalogs /\ dest \in About(req)
  BY <1>1, <1>4 DEF PackageType
<1>8. /\ package' \in [Packages -> PackageType]
      /\ package'[req.package].catalog = dest /\ package'[req.package].public = public
      /\ \A p \in Packages \ {req.package} : package'[p] = package[p]
  BY <1>1, <1>2, <1>5, <1>7 DEF Inv, TypeOK, PackageType
<1>9. TypeOK'
  BY <1>1, <1>2, <1>3, <1>8, TypesKept DEF Inv, TypeOK, CatalogType, PackageType
<1>10. Confined(req)
  BY <1>3, <1>4, <1>7, <1>8 DEF Confined
<1>11. PublicInPublic'
  <2> SUFFICES ASSUME NEW p \in Packages, package'[p].public, p \notin carried' \cup raced,
                      package'[p].catalog \notin raced
               PROVE  catalog[package'[p].catalog].public
    BY <1>3 DEF PublicInPublic
  <2>1. CASE p # req.package
    BY <1>2, <1>8, <2>1 DEF Inv, PublicInPublic
  <2>2. CASE p = req.package
    <3>1. dest = req.seen.catalog /\ p \notin carried /\ public /\ req.seen = package[p]
      BY <1>1, <1>2, <1>4, <1>8, <2>2 DEF PackageFresh
    <3>2. CASE req.seen.public
      BY <1>8, <2>2, <3>1, <3>2 DEF Inv, PublicInPublic
    <3>3. CASE ~req.seen.public
      BY <1>1, <1>4, <1>6, <1>8, <2>2, <3>1, <3>3 DEF PackageFresh
    <3> QED BY <3>2, <3>3
  <2> QED BY <2>1, <2>2
<1> QED BY <1>3, <1>9, <1>10, <1>11, FollowersKept DEF req

\* movePackage: the package stays public only if the catalog it comes to was.
LEMMA MovePackageStep ==
    ASSUME Inv, NEW r \in Requests, MovePackage(r)
    PROVE  /\ Confined(request[r]) /\ TypeOK' /\ GrantsFit'
           /\ CatalogFollowersCanView' /\ PublicInPublic'
<1> DEFINE req == request[r]
           public == req.seen.public /\ req.seenPublic
<1>1. /\ req.op = "movePackage" /\ req.package \in Packages /\ req.to \in Catalogs /\ req.by \in Users
      /\ req.seen \in PackageType /\ req.seenPublic \in BOOLEAN
  BY RequestFact DEF MovePackage, Inv
<1>2. /\ package' = [package EXCEPT ![req.package] = [req.seen EXCEPT !.catalog = req.to, !.public = public]]
      /\ UNCHANGED <<catalog, catalogRow, carried, made, raced>>
      /\ follows' \subseteq follows
  BY <1>1 DEF MovePackage, Ended, PackageType
<1>3. packageRow' \in [Packages \X Users -> Levels]
  <2> DEFINE noRows == [x \in Packages \X Users |-> IF x[1] = req.package THEN NONE ELSE packageRow[x]]
  <2>1. noRows \in [Packages \X Users -> Levels]
    BY DEF Inv, TypeOK, NONE, Levels
  <2>2. catalogRow[<<req.to, req.by>>][1] \in Levels
    BY <1>1 DEF Inv, TypeOK
  <2>3. packageRow' = [noRows EXCEPT ![<<req.package, req.by>>] = catalogRow[<<req.to, req.by>>][1]]
    BY DEF MovePackage
  <2> HIDE DEF noRows
  <2> QED BY <2>1, <2>2, <2>3
<1>4. PackageFresh(req) /\ About(req) = {req.package, req.seen.catalog} \cup ({req.to} \cap Catalogs)
  BY <1>1, AboutFact DEF Inv, Fresh
<1>5. public \in BOOLEAN
  BY <1>1 DEF PackageType
<1>6. public => req.seenPublic
  OBVIOUS
<1> HIDE DEF req, public
<1>7. /\ package' \in [Packages -> PackageType]
      /\ package'[req.package].catalog = req.to /\ package'[req.package].public = public
      /\ \A p \in Packages \ {req.package} : package'[p] = package[p]
  BY <1>1, <1>2, <1>5 DEF Inv, TypeOK, PackageType
<1>8. TypeOK'
  BY <1>2, <1>3, <1>7, TypesKept DEF Inv, TypeOK, CatalogType, PackageType
<1>9. Confined(req)
  BY <1>1, <1>2, <1>4, <1>7 DEF Confined
<1>10. PublicInPublic'
  BY <1>1, <1>2, <1>4, <1>6, <1>7 DEF Inv, PublicInPublic, PackageFresh
<1> QED BY <1>2, <1>8, <1>9, <1>10, FollowersKept DEF req

\* setPackagePermissions writes a row of the package, and ends follows of it alone.
LEMMA SetPackagePermissionStep ==
    ASSUME Inv, NEW r \in Requests, SetPackagePermission(r)
    PROVE  /\ Confined(request[r]) /\ TypeOK' /\ GrantsFit'
           /\ CatalogFollowersCanView' /\ PublicInPublic'
<1> DEFINE req == request[r]
<1>1. req.package \in Packages /\ req.target \in Users /\ req.level \in Levels
  BY RequestFact, GrantsAssumption DEF SetPackagePermission, Inv
<1>2. /\ packageRow' = [packageRow EXCEPT ![<<req.package, req.target>>] = req.level]
      /\ UNCHANGED <<catalog, package, catalogRow, carried, made, raced>>
      /\ follows' \subseteq follows
  BY DEF SetPackagePermission, Ended
<1> HIDE DEF req
<1>3. packageRow' \in [Packages \X Users -> Levels]
  BY <1>1, <1>2 DEF Inv, TypeOK
<1>4. TypeOK'
  BY <1>2, <1>3, TypesKept DEF Inv, TypeOK, CatalogType, PackageType
<1>5. Confined(req) /\ PublicInPublic'
  BY <1>2 DEF Confined, Inv, PublicInPublic
<1> QED BY <1>2, <1>4, <1>5, FollowersKept DEF req

\* saveFollow: the follower could view the catalog when he asked, and it has not changed.
LEMMA SaveFollowStep ==
    ASSUME Inv, NEW r \in Requests, SaveFollow(r)
    PROVE  /\ Confined(request[r]) /\ TypeOK' /\ GrantsFit'
           /\ CatalogFollowersCanView' /\ PublicInPublic'
<1> DEFINE req == request[r]
<1>1. /\ req.op = "saveFollow" /\ req.user \in Followers /\ req.target \in Catalogs \cup Packages
      /\ FollowFresh(req)
  BY RequestFact DEF SaveFollow, Inv, Fresh
<1>2. /\ follows' = follows \cup {<<req.user, req.target>>}
      /\ UNCHANGED <<catalog, package, catalogRow, packageRow, carried, made, raced>>
  BY DEF SaveFollow, Ended
<1> HIDE DEF req
<1>3. TypeOK'
  BY <1>1, <1>2, TypesKept DEF Inv, TypeOK, CatalogType, PackageType
<1>4. Confined(req) /\ PublicInPublic' /\ GrantsFit'
  BY <1>2 DEF Confined, Inv, PublicInPublic, GrantsFit
<1>5. CatalogFollowersCanView'
  <2> SUFFICES ASSUME NEW f \in follows', f[2] \in Catalogs, f[2] \notin raced PROVE CanView(f[1], f[2])'
    BY <1>2 DEF CatalogFollowersCanView
  <2>1. f[1] \in Users
    BY <1>1, <1>2, NamesAssumption DEF Inv, TypeOK
  <2>2. CanView(f[1], f[2])
    BY <1>1, <1>2 DEF Inv, CatalogFollowersCanView, FollowFresh
  <2> QED BY <1>2, <2>1, <2>2, ViewFact
<1> QED BY <1>3, <1>4, <1>5 DEF req

\* updateCatalog that fails writes nothing.
LEMMA FailStep ==
    ASSUME Inv, NEW r \in Requests, FailUpdateCatalog(r)
    PROVE  /\ Confined(request[r]) /\ TypeOK' /\ GrantsFit'
           /\ CatalogFollowersCanView' /\ PublicInPublic'
<1>1. UNCHANGED <<catalog, package, catalogRow, packageRow, follows, carried, made, raced>>
  BY DEF FailUpdateCatalog, Ended, tables
<1>2. TypeOK'
  BY <1>1 DEF Inv, TypeOK
<1>3. Confined(request[r]) /\ PublicInPublic'
  BY <1>1 DEF Confined, Inv, PublicInPublic
<1> QED BY <1>1, <1>2, <1>3, FollowersKept

-----------------------------------------------------------------------------
(* The other requests.                                                     *)

\* What an open request has read is still so after another has ended.
LEMMA StaysFresh ==
    ASSUME Inv, NEW r \in Requests, NEW q \in Requests, q # r,
           Confined(request[r]), raced' = raced, request'[q] = request[q]
    PROVE  RequestOK(request'[q]) /\ Fresh(request[q])'
<1> DEFINE req == request[q]
<1>1. RequestOK(req) /\ Fresh(req)
  BY DEF Inv
<1>2. \A x \in About(req) : x \in raced \/ x \notin About(request[r])
  BY DEF Inv, RacesKnown
<1>3. /\ \A c \in Catalogs \cap About(req) : c \notin raced =>
            /\ catalog'[c] = catalog[c]
            /\ \A u \in Users : catalogRow'[<<c, u>>] = catalogRow[<<c, u>>]
            /\ \A p \in Packages : package'[p].catalog = c => package'[p] = package[p]
      /\ \A p \in Packages \cap About(req) : p \notin raced => package'[p] = package[p]
  BY <1>2 DEF Confined
<1>4. CatalogFresh(req)'
  <2> SUFFICES ASSUME req.op = "updateCatalog" PROVE CatalogFresh(req)'
    BY DEF CatalogFresh
  <2>1. req.catalog \in Catalogs /\ DOMAIN req.seen \subseteq Packages
        /\ About(req) = {req.catalog} \cup DOMAIN req.seen
    BY <1>1, RequestFact, AboutFact
  <2> QED BY <1>1, <1>3, <2>1 DEF Fresh, CatalogFresh, PackagesOf
<1>5. PermissionFresh(req)'
  <2> SUFFICES ASSUME req.op = "setCatalogPermission" PROVE PermissionFresh(req)'
    BY DEF PermissionFresh
  <2>1. req.catalog \in Catalogs /\ About(req) = {req.catalog}
    BY <1>1, RequestFact, AboutFact
  <2> QED BY <1>1, <1>3, <2>1 DEF Fresh, PermissionFresh
<1>6. PackageFresh(req)'
  <2> SUFFICES ASSUME req.op \in {"updatePackage", "movePackage"} PROVE PackageFresh(req)'
    BY DEF PackageFresh
  <2>1. /\ req.package \in Packages /\ req.seen.catalog \in Catalogs
        /\ req.op = "movePackage" => req.to \in Catalogs
        /\ About(req) = {req.package, req.seen.catalog} \cup ({req.to} \cap Catalogs)
    BY <1>1, RequestFact, AboutFact DEF PackageType
  <2> QED BY <1>1, <1>3, <2>1 DEF Fresh, PackageFresh
<1>7. FollowFresh(req)'
  <2> SUFFICES ASSUME req.op = "saveFollow", req.target \in Catalogs, req.target \notin raced
               PROVE CanView(req.user, req.target)'
    BY DEF FollowFresh
  <2>1. req.user \in Users /\ About(req) = {req.target}
    BY <1>1, RequestFact, AboutFact, NamesAssumption
  <2>2. catalog[req.target].public \/ VIEW <= catalogRow[<<req.target, req.user>>][1]
    BY <1>1, <2>1, ViewFact DEF Fresh, FollowFresh
  <2>3. catalog'[req.target].public \/ VIEW <= catalogRow'[<<req.target, req.user>>][1]
    BY <1>3, <2>1, <2>2
  <2> QED BY <2>3 DEF CanView, OnCatalog, AtLeast, VIEW
<1> QED BY <1>1, <1>4, <1>5, <1>6, <1>7 DEF Fresh

\* What is open after a request has ended.
LEMMA EndStep ==
    ASSUME Inv, NEW r \in Requests, Ended(r), Confined(request[r]),
           TypeOK', GrantsFit', CatalogFollowersCanView', PublicInPublic'
    PROVE  Inv'
<1>1. raced' = raced /\ request' = [request EXCEPT ![r] = Idle] /\ DOMAIN request = Requests
  BY DEF Ended, Inv
<1>2. DOMAIN request' = Requests /\ request'[r] = Idle /\ \A q \in Requests \ {r} : request'[q] = request[q]
  BY <1>1
<1>3. RacesKnown'
  <2> SUFFICES ASSUME NEW p \in Requests, NEW q \in Requests, p # q
               PROVE  About(request'[p]) \cap About(request'[q]) \subseteq raced
    BY <1>1 DEF RacesKnown
  <2> QED BY <1>2, IdleFact DEF Inv, RacesKnown
<1>4. ASSUME NEW q \in Requests PROVE RequestOK(request'[q]) /\ Fresh(request[q])'
  <2>1. CASE q = r
    BY <1>2, <2>1, IdleFact
       DEF Idle, Fresh, CatalogFresh, PermissionFresh, PackageFresh, FollowFresh
  <2>2. CASE q # r
    BY <1>1, <1>2, <2>2, StaysFresh
  <2> QED BY <2>1, <2>2
<1> QED BY <1>2, <1>3, <1>4 DEF Inv

-----------------------------------------------------------------------------
(* Requests that begin.                                                    *)

\* A request begins with what it has just read.
LEMMA BeginFact ==
    ASSUME Inv, NEW r \in Requests, BeginOn(r)
    PROVE  \E req : Begin(r, req) /\ RequestOK(req) /\ Fresh(req)
<1> USE DEF Inv, TypeOK
<1>1. ASSUME NEW u \in Users, NEW c \in Catalogs, NEW value \in Values, BeginUpdateCatalog(r, u, c, value)
      PROVE  \E req : Begin(r, req) /\ RequestOK(req) /\ Fresh(req)
  <2> DEFINE req == [op |-> "updateCatalog", catalog |-> c, value |-> value,
                     seenPublic |-> catalog[c].public, seen |-> Restrict(package, PackagesOf(c))]
  <2>1. Begin(r, req)
    BY <1>1 DEF BeginUpdateCatalog
  <2>2. RequestOK(req)
    BY DEF RequestOK, Restrict, PackagesOf, PackageType
  <2>3. Fresh(req)
    BY DEF Fresh, CatalogFresh, PermissionFresh, PackageFresh, FollowFresh, Restrict, PackagesOf
  <2> QED BY <2>1, <2>2, <2>3
<1>2. ASSUME NEW u \in Users, NEW target \in Users, NEW c \in Catalogs, NEW grant \in CatalogGrants,
             BeginSetCatalogPermission(r, u, c, target, grant)
      PROVE  \E req : Begin(r, req) /\ RequestOK(req) /\ Fresh(req)
  <2> DEFINE req == [op |-> "setCatalogPermission", catalog |-> c, target |-> target, grant |-> grant,
                     seenPublic |-> catalog[c].public, seen |-> PackagesOf(c)]
  <2>1. Begin(r, req)
    BY <1>2 DEF BeginSetCatalogPermission
  <2>2. RequestOK(req) /\ Fresh(req)
    BY DEF RequestOK, Fresh, CatalogFresh, PermissionFresh, PackageFresh, FollowFresh
  <2> QED BY <2>1, <2>2
<1>3. ASSUME NEW u \in Users, NEW p \in Packages, NEW value \in Values, NEW dest \in Catalogs \cup {Absent},
             BeginUpdatePackage(r, u, p, value, dest)
      PROVE  \E req : Begin(r, req) /\ RequestOK(req) /\ Fresh(req)
  <2> DEFINE req == [op |-> "updatePackage", package |-> p, value |-> value, to |-> dest,
                     seen |-> package[p]]
  <2>1. Begin(r, req)
    BY <1>3 DEF BeginUpdatePackage
  <2>2. RequestOK(req)
    BY DEF RequestOK, PackageType
  <2>3. Fresh(req)
    BY <1>3 DEF BeginUpdatePackage, Fresh, CatalogFresh, PermissionFresh, PackageFresh, FollowFresh
  <2> QED BY <2>1, <2>2, <2>3
<1>4. ASSUME NEW u \in Users, NEW p \in Packages, NEW dest \in Catalogs, BeginMovePackage(r, u, p, dest)
      PROVE  \E req : Begin(r, req) /\ RequestOK(req) /\ Fresh(req)
  <2> DEFINE req == [op |-> "movePackage", package |-> p, to |-> dest, by |-> u,
                     seen |-> package[p], seenPublic |-> catalog[dest].public]
  <2>1. Begin(r, req)
    BY <1>4 DEF BeginMovePackage
  <2>2. RequestOK(req) /\ Fresh(req)
    BY DEF RequestOK, PackageType, Fresh, CatalogFresh, PermissionFresh, PackageFresh, FollowFresh
  <2> QED BY <2>1, <2>2
<1>5. ASSUME NEW u \in Users, NEW target \in Users, NEW p \in Packages, NEW level \in PackageGrants,
             BeginSetPackagePermission(r, u, p, target, level)
      PROVE  \E req : Begin(r, req) /\ RequestOK(req) /\ Fresh(req)
  <2> DEFINE req == [op |-> "setPackagePermission", package |-> p, target |-> target, level |-> level,
                     seenPublic |-> package[p].public]
  <2>1. Begin(r, req)
    BY <1>5 DEF BeginSetPackagePermission
  <2>2. RequestOK(req) /\ Fresh(req)
    BY DEF RequestOK, Fresh, CatalogFresh, PermissionFresh, PackageFresh, FollowFresh
  <2> QED BY <2>1, <2>2
<1>6. ASSUME NEW u \in Followers, NEW x \in Catalogs \cup Packages, BeginSaveFollow(r, u, x)
      PROVE  \E req : Begin(r, req) /\ RequestOK(req) /\ Fresh(req)
  <2> DEFINE req == [op |-> "saveFollow", user |-> u, target |-> x]
  <2>1. Begin(r, req)
    BY <1>6 DEF BeginSaveFollow
  <2>2. RequestOK(req)
    BY DEF RequestOK
  <2>3. Fresh(req)
    BY <1>6 DEF BeginSaveFollow, Fresh, CatalogFresh, PermissionFresh, PackageFresh, FollowFresh
  <2> QED BY <2>1, <2>2, <2>3
<1> QED BY <1>1, <1>2, <1>3, <1>4, <1>5, <1>6 DEF BeginOn

\* While a request begins, no table changes, and what it is about in common with others
\* is raced.
LEMMA BeginStep ==
    ASSUME Inv, NEW r \in Requests, BeginOn(r)
    PROVE  Inv'
<1>1. PICK req : Begin(r, req) /\ RequestOK(req) /\ Fresh(req)
  BY BeginFact
<1>2. /\ request' = [request EXCEPT ![r] = req] /\ raced \subseteq raced'
      /\ \A q \in Requests \ {r} : About(req) \cap About(request[q]) \subseteq raced'
      /\ UNCHANGED <<catalog, package, catalogRow, packageRow, follows, carried>>
      /\ made' = made + 1 /\ made < MaxRequests
  BY <1>1 DEF Begin, tables
<1>3. DOMAIN request' = Requests /\ request'[r] = req /\ \A q \in Requests \ {r} : request'[q] = request[q]
  BY <1>2 DEF Inv
<1>4. About(req) \subseteq Catalogs \cup Packages
  BY <1>1, RequestFact DEF About, PackageType
<1>5. TypeOK'
  <2>1. raced' \subseteq Catalogs \cup Packages
    BY <1>1, <1>4 DEF Begin, Inv, TypeOK
  <2>2. made' \in 0..MaxRequests
    BY <1>2, BoundAssumption DEF Inv, TypeOK
  <2> QED BY <1>2, <2>1, <2>2 DEF Inv, TypeOK
<1>6. RacesKnown'
  <2> SUFFICES ASSUME NEW p \in Requests, NEW q \in Requests, p # q
               PROVE  About(request'[p]) \cap About(request'[q]) \subseteq raced'
    BY DEF RacesKnown
  <2>1. CASE p = r
    BY <1>2, <1>3, <2>1
  <2>2. CASE q = r
    BY <1>2, <1>3, <2>2
  <2>3. CASE p # r /\ q # r
    BY <1>2, <1>3, <2>3 DEF Inv, RacesKnown
  <2> QED BY <2>1, <2>2, <2>3
<1>7. ASSUME NEW q \in Requests PROVE RequestOK(request'[q]) /\ Fresh(request[q])'
  <2> DEFINE now == request'[q]
  <2>1. RequestOK(now) /\ Fresh(now)
    BY <1>1, <1>3 DEF Inv
  <2>2. CatalogFresh(request[q])'
    BY <1>2, <2>1 DEF Fresh, CatalogFresh, PackagesOf
  <2>3. PermissionFresh(request[q])' /\ PackageFresh(request[q])'
    BY <1>2, <2>1 DEF Fresh, PermissionFresh, PackageFresh
  <2>4. FollowFresh(request[q])'
    BY <1>2, <2>1 DEF Fresh, FollowFresh, CanView, OnCatalog, OnPackage
  <2> QED BY <2>1, <2>2, <2>3, <2>4 DEF Fresh
<1>8. GrantsFit' /\ PublicInPublic'
  BY <1>2 DEF Inv, GrantsFit, PublicInPublic
<1>9. CatalogFollowersCanView'
  BY <1>2 DEF Inv, CatalogFollowersCanView, CanView, OnCatalog, OnPackage
<1> QED BY <1>3, <1>5, <1>6, <1>7, <1>8, <1>9 DEF Inv

LEMMA InitInv == Init => Inv
<1> SUFFICES ASSUME Init PROVE Inv
  OBVIOUS
<1>1. request = [r \in Requests |-> Idle] /\ follows = {} /\ carried = {} /\ raced = {} /\ made = 0
  BY DEF Init
<1>2. /\ catalogRow \in [Catalogs \X Users -> Levels \X Levels]
      /\ \A c \in Catalogs, u \in Users : catalogRow[<<c, u>>] \in {<<MANAGE, NONE>>, NoGrant}
  BY DEF Init, NoGrant, NONE, MANAGE, Levels
<1>3. packageRow \in [Packages \X Users -> Levels]
  BY DEF Init, NONE, MANAGE, Levels
<1>4. TypeOK
  BY <1>1, <1>2, <1>3, BoundAssumption DEF Init, TypeOK
<1>5. GrantsFit
  BY <1>2 DEF GrantsFit, MANAGE, VIEW, NONE
<1>6. RacesKnown /\ DOMAIN request = Requests /\ \A r \in Requests : RequestOK(request[r]) /\ Fresh(request[r])
  BY <1>1, IdleFact DEF RacesKnown
<1>7. CatalogFollowersCanView /\ PublicInPublic
  BY <1>1 DEF Init, CatalogFollowersCanView, PublicInPublic
<1> QED BY <1>4, <1>5, <1>6, <1>7 DEF Inv

LEMMA StepInv == Inv /\ [Next]_vars => Inv'
<1> SUFFICES ASSUME Inv, [Next]_vars PROVE Inv'
  OBVIOUS
<1>1. ASSUME NEW r \in Requests, BeginOn(r) PROVE Inv'
  BY <1>1, BeginStep
<1>2. ASSUME NEW r \in Requests, EndOf(r) PROVE Inv'
  <2>1. Ended(r)
    BY <1>2 DEF EndOf, UpdateCatalog, FailUpdateCatalog, SetCatalogPermission, UpdatePackage,
                MovePackage, SetPackagePermission, SaveFollow
  <2>2. /\ Confined(request[r]) /\ TypeOK' /\ GrantsFit'
        /\ CatalogFollowersCanView' /\ PublicInPublic'
    BY <1>2, UpdateCatalogStep, FailStep, SetCatalogPermissionStep, UpdatePackageStep,
       MovePackageStep, SetPackagePermissionStep, SaveFollowStep DEF EndOf
  <2> QED BY <2>1, <2>2, EndStep
<1>3. CASE UNCHANGED vars
  BY <1>3 DEF vars, Inv, TypeOK, GrantsFit, RacesKnown, Fresh, CatalogFresh, PermissionFresh,
              PackageFresh, FollowFresh, CatalogFollowersCanView, PublicInPublic, CanView,
              OnCatalog, OnPackage, PackagesOf
<1> QED BY <1>1, <1>2, <1>3 DEF Next

LEMMA SpecInv == Spec => []Inv
BY InitInv, StepInv, PTL DEF Spec

\* Who follows a catalog may view it, unless two requests about it overlapped.
THEOREM FollowersSeeCatalogs == Spec => []CatalogFollowersCanView
BY SpecInv, PTL DEF Inv

\* A public package is in a public catalog, unless updatePackage has carried it or requests
\* about it or its catalog overlapped.
THEOREM PublicStaysInPublic == Spec => []PublicInPublic
BY SpecInv, PTL DEF Inv

-----------------------------------------------------------------------------
(* The services of the leader.                                             *)

\* A leader holds the lock, as long as no lock has been lost.
LeadersHold == ~lockLost => \A s \in Servers : role[s] = "leader" => holder = s

\* A user has been told of an event, or its mail is lost.
Settled(u, e) == <<u, e>> \in told \cup given \cup leftOut

\* The events up to a time are settled with all users, those passed by apart.
SettledTo(time) == \A e \in (1..time) \ passedBy, u \in Recipients : Settled(u, e)

Late == {"mailing", "failed"}

\* What a run has done with its window.
RunInv(r) ==
    /\ phase[r] # "none" => from[r] <= events /\ SettledTo(from[r])
    /\ phase[r] \in Late => (from[r] + 1)..to[r] \subseteq batch[r] \cup passedBy
    /\ phase[r] \notin Late => batch[r] = {}
    /\ batch[r] \subseteq (from[r] + 1)..to[r]
    /\ \A u \in Recipients, e \in batch[r] : phase[r] = "failed" \/ u \notin waiting[r] => Settled(u, e)

SkipInv == NoEventSkipped /\ \A r \in Runs : RunInv(r)

LastStored == IF stored = None THEN 0 ELSE stored

\* As long as nothing has been disturbed, runs follow each other, and tell what lies
\* after the stored time.
InTurn ==
    /\ \A r, q \in Runs : phase[r] # "none" /\ phase[q] # "none" => r = q
    /\ \A r \in Runs : phase[r] # "none" => from[r] = LastStored
    /\ \A r \in Runs : phase[r] \notin {"none", "starting"} => from[r] <= to[r]
    /\ \A pair \in told : pair[2] <= LastStored
                          \/ \E r \in Runs : pair[2] \in batch[r] /\ pair[1] \notin waiting[r]

TellInv == ToldOnce /\ (disturbed \/ InTurn)

ServicesInv == ServicesTypeOK /\ LeadersHold /\ SkipInv /\ TellInv

-----------------------------------------------------------------------------
(* Types.                                                                  *)

\* What is left of runs when some of them end.
LEMMA RunsEndFact ==
    ASSUME ServicesTypeOK, NEW R \in SUBSET Runs, RunsEnd(R)
    PROVE  /\ phase' \in [Runs -> {"none"} \cup Active] /\ server' \in [Runs -> Servers \cup {None}]
           /\ from' \in [Runs -> Times] /\ to' \in [Runs -> Times]
           /\ batch' \in [Runs -> SUBSET Events] /\ waiting' \in [Runs -> SUBSET Recipients]
           /\ \A r \in R : phase'[r] = "none" /\ server'[r] = None /\ to'[r] = 0 /\ batch'[r] = {}
           /\ \A r \in Runs \ R : /\ phase'[r] = phase[r] /\ server'[r] = server[r] /\ from'[r] = from[r]
                                  /\ to'[r] = to[r] /\ batch'[r] = batch[r] /\ waiting'[r] = waiting[r]
<1>1. 0 \in Times
  BY LeaderAssumption DEF Times
<1> QED BY <1>1 DEF RunsEnd, ServicesTypeOK

\* A window, and the events found in it.
LEMMA FoundType ==
    ASSUME ServicesTypeOK, NEW r \in Runs, Found(r, from[r] + 1), phase[r] = "querying"
    PROVE  ServicesTypeOK'
<1>1. /\ events \in Nat /\ events <= MaxEvents /\ MaxEvents \in Nat
      /\ from[r] \in Nat /\ to[r] \in Nat /\ to[r] <= events
  BY LeaderAssumption DEF ServicesTypeOK, Times
<1>2. (from[r] + 1)..to[r] \subseteq 1..events /\ (from[r] + 1)..to[r] \subseteq Events
  BY <1>1 DEF Events
<1>3. batch' \in [Runs -> SUBSET Events] /\ passedBy' \subseteq 1..events'
  BY <1>2 DEF Found, ServicesTypeOK
<1>4. waiting' \in [Runs -> SUBSET Recipients]
  BY DEF Found, ServicesTypeOK
<1>5. phase' \in [Runs -> {"none"} \cup Active] /\ \A q \in Runs : phase'[q] = "none" <=> phase[q] = "none"
  BY DEF Found, ServicesTypeOK, Active
<1> QED BY <1>3, <1>4, <1>5 DEF Found, ServicesTypeOK, electionVars, mailVars, faultVars

\* One fault more.
LEMMA FaultType == ServicesTypeOK /\ Fault => faults' \in 0..MaxFaults
<1> SUFFICES ASSUME ServicesTypeOK, Fault PROVE faults' \in 0..MaxFaults
  OBVIOUS
<1>1. faults \in 0..MaxFaults /\ faults < MaxFaults /\ faults' = faults + 1
  BY DEF ServicesTypeOK, Fault
<1> QED BY <1>1, LeaderAssumption

\* The run that cron starts is one that was free.
LEMMA FireFact ==
    ASSUME ServicesTypeOK, NEW s \in Servers, Fire(s)
    PROVE  \E new \in Runs :
              /\ phase[new] = "none"
              /\ phase' = [phase EXCEPT ![new] = "starting"]
              /\ server' = [server EXCEPT ![new] = s]
              /\ from' = [from EXCEPT ![new] = IF stored = None THEN 0 ELSE stored]
<1> DEFINE new == CHOOSE r \in Runs : phase[r] = "none"
<1>1. new \in Runs /\ phase[new] = "none"
  BY DEF Fire
<1> QED BY <1>1 DEF Fire

\* Who has had his turn.
LEMMA TurnType ==
    ASSUME ServicesTypeOK, NEW r \in Runs, NEW u \in Recipients, TurnOf(r, u)
    PROVE  /\ waiting' \in [Runs -> SUBSET Recipients] /\ waiting'[r] = waiting[r] \ {u}
           /\ \A q \in Runs \ {r} : waiting'[q] = waiting[q]
BY DEF TurnOf, ServicesTypeOK

\* The types are kept.
LEMMA ServicesTypeStep == ServicesTypeOK /\ [ServicesNext]_servicesVars => ServicesTypeOK'
<1> SUFFICES ASSUME ServicesTypeOK, [ServicesNext]_servicesVars PROVE ServicesTypeOK'
  OBVIOUS
<1> USE LeaderAssumption DEF electionVars, runVars, logVars, mailVars, faultVars
<1>1. ASSUME NEW s \in Servers, BecomeLeader(s) PROVE ServicesTypeOK'
  BY <1>1 DEF BecomeLeader, ServicesTypeOK
<1>2. ASSUME NEW s \in Servers, Crash(s) PROVE ServicesTypeOK'
  <2>1. RunsOf(s) \in SUBSET Runs
    BY DEF RunsOf
  <2>2. faults' \in 0..MaxFaults
    BY <1>2, FaultType DEF Crash
  <2>3. /\ role' \in [Servers -> {"trying", "leader", "down"}] /\ holder' \in Servers \cup {None}
        /\ disturbed' \in BOOLEAN
    BY <1>2 DEF Crash, ServicesTypeOK
  <2>4. \A r \in Runs : to'[r] <= events /\ (phase'[r] = "none" <=> server'[r] = None)
    <3>1. 0 <= events
      BY DEF ServicesTypeOK, Times
    <3> QED BY <1>2, <2>1, <3>1, RunsEndFact DEF Crash, ServicesTypeOK
  <2>5. RunsEnd(RunsOf(s)) /\ UNCHANGED <<logVars, stored, mailVars, lockLost>>
    BY <1>2 DEF Crash
  <2> HIDE DEF RunsOf
  <2> QED BY <2>1, <2>2, <2>3, <2>4, <2>5, RunsEndFact DEF ServicesTypeOK
<1>3. ASSUME NEW s \in Servers, Fire(s) PROVE ServicesTypeOK'
  <2>1. PICK new \in Runs :
              /\ phase[new] = "none"
              /\ phase' = [phase EXCEPT ![new] = "starting"]
              /\ server' = [server EXCEPT ![new] = s]
              /\ from' = [from EXCEPT ![new] = IF stored = None THEN 0 ELSE stored]
    BY <1>3, FireFact
  <2>2. from' \in [Runs -> Times]
    BY <2>1 DEF ServicesTypeOK, Times
  <2>3. disturbed' \in BOOLEAN
    BY <1>3 DEF Fire, ServicesTypeOK
  <2>4. phase' \in [Runs -> {"none"} \cup Active] /\ server' \in [Runs -> Servers \cup {None}]
        /\ \A r \in Runs : phase'[r] = "none" <=> server'[r] = None
    BY <2>1 DEF ServicesTypeOK, Active
  <2>5. UNCHANGED <<electionVars, logVars, stored, to, batch, waiting, mailVars, faultVars>>
    BY <1>3 DEF Fire
  <2> QED BY <2>2, <2>3, <2>4, <2>5 DEF ServicesTypeOK
<1>4. ASSUME NEW r \in Runs, TakeTime(r) PROVE ServicesTypeOK'
  BY <1>4 DEF TakeTime, ServicesTypeOK, Active, Times
<1>5. ASSUME NEW r \in Runs, Query(r) PROVE ServicesTypeOK'
  BY <1>5, FoundType DEF Query
<1>6. ASSUME NEW r \in Runs, Save(r) PROVE ServicesTypeOK'
  <2>1. RunsEnd({r}) /\ stored' = to[r] /\ UNCHANGED <<electionVars, logVars, mailVars, faultVars, disturbed>>
    BY <1>6 DEF Save
  <2>2. stored' \in Times /\ stored' <= events
    BY <2>1 DEF ServicesTypeOK
  <2>3. \A q \in Runs : to'[q] <= events /\ (phase'[q] = "none" <=> server'[q] = None)
    <3>1. 0 <= events
      BY DEF ServicesTypeOK, Times
    <3> QED BY <2>1, <3>1, RunsEndFact DEF ServicesTypeOK
  <2> QED BY <2>1, <2>2, <2>3, RunsEndFact DEF ServicesTypeOK
<1>7. ASSUME NEW r \in Runs, NEW u \in Recipients, Mail(r, u) PROVE ServicesTypeOK'
  <2>1. {u} \X batch[r] \subseteq Recipients \X Events
    BY DEF ServicesTypeOK
  <2>2. told' \subseteq Recipients \X Events /\ again' \subseteq told'
    BY <1>7, <2>1 DEF Mail, ServicesTypeOK
  <2> QED BY <1>7, <2>2, TurnType DEF Mail, ServicesTypeOK
<1>8. ASSUME NEW r \in Runs, NEW u \in Recipients, MailLost(r, u) PROVE ServicesTypeOK'
  <2>1. {u} \X batch[r] \subseteq Recipients \X Events
    BY DEF ServicesTypeOK
  <2>2. faults' \in 0..MaxFaults
    BY <1>8, FaultType DEF MailLost
  <2> QED BY <1>8, <2>1, <2>2, TurnType DEF MailLost, ServicesTypeOK
<1>13. ASSUME NEW r \in Runs, NEW u \in Recipients, UserFails(r, u) PROVE ServicesTypeOK'
  <2>1. TurnOf(r, u) /\ phase[r] = "mailing" /\ waiting' \in [Runs -> SUBSET Recipients]
    BY <1>13, TurnType DEF UserFails, TurnOf
  <2>2. {u} \X batch[r] \subseteq Recipients \X Events /\ waiting'[r] \X batch[r] \subseteq Recipients \X Events
    BY <2>1 DEF ServicesTypeOK
  <2>3. faults' \in 0..MaxFaults
    BY <1>13, FaultType DEF UserFails
  <2>4. phase' \in [Runs -> {"none"} \cup Active] /\ \A q \in Runs : phase'[q] = "none" <=> phase[q] = "none"
    BY <1>13, <2>1 DEF UserFails, ServicesTypeOK, Active
  <2> QED BY <1>13, <2>1, <2>2, <2>3, <2>4 DEF UserFails, ServicesTypeOK
<1>14. ASSUME NEW r \in Runs, QueryFails(r) PROVE ServicesTypeOK'
  <2>1. /\ from[r] \in Nat /\ to[r] \in Nat /\ to[r] <= events
        /\ passedBy \subseteq 1..events /\ passedBy' = passedBy \cup (from[r] + 1)..to[r]
    BY <1>14 DEF QueryFails, ServicesTypeOK, Times
  <2>2. passedBy' \subseteq 1..events
    <3>1. events \in Nat
      BY DEF ServicesTypeOK, Times
    <3>2. (from[r] + 1)..to[r] \subseteq 1..events
      BY <2>1, <3>1
    <3> QED BY <2>1, <3>2
  <2>3. faults' \in 0..MaxFaults
    BY <1>14, FaultType DEF QueryFails
  <2>4. phase' \in [Runs -> {"none"} \cup Active] /\ \A q \in Runs : phase'[q] = "none" <=> phase[q] = "none"
    BY <1>14 DEF QueryFails, ServicesTypeOK, Active
  <2> QED BY <1>14, <2>2, <2>3, <2>4 DEF QueryFails, ServicesTypeOK
<1>9. CASE LoseLock
  BY <1>9, FaultType DEF LoseLock, ServicesTypeOK
<1>10. CASE BeginEvent
  <2>1. events \in Nat /\ events < MaxEvents /\ events' = events + 1
    BY <1>10 DEF BeginEvent, ServicesTypeOK, Times
  <2>2. events' \in Times /\ 1..events \subseteq 1..events' /\ events + 1 \in 1..events'
    BY <2>1 DEF Times
  <2>3. open' \subseteq 1..events' /\ passedBy' \subseteq 1..events'
    BY <1>10, <2>2 DEF BeginEvent, ServicesTypeOK
  <2>4. stored' # None => stored' <= events'
    BY <1>10, <2>1 DEF BeginEvent, ServicesTypeOK, Times
  <2>5. \A r \in Runs : to'[r] <= events'
    BY <1>10, <2>1 DEF BeginEvent, ServicesTypeOK, Times
  <2> QED BY <1>10, <2>2, <2>3, <2>4, <2>5 DEF BeginEvent, ServicesTypeOK
<1>11. ASSUME NEW e \in open, CommitEvent(e) PROVE ServicesTypeOK'
  BY <1>11 DEF CommitEvent, ServicesTypeOK
<1>12. CASE UNCHANGED servicesVars
  BY <1>12 DEF servicesVars, ServicesTypeOK
<1> QED
  BY <1>1, <1>2, <1>3, <1>4, <1>5, <1>6, <1>7, <1>8, <1>9, <1>10, <1>11, <1>12, <1>13, <1>14
  DEF ServicesNext, Progress

-----------------------------------------------------------------------------
(* The election.                                                           *)

\* Every step of the election keeps leaders in possession of the lock.
LEMMA ElectionStep == ServicesTypeOK /\ LeadersHold /\ [ServicesNext]_servicesVars => LeadersHold'
<1> SUFFICES ASSUME ServicesTypeOK, LeadersHold, [ServicesNext]_servicesVars PROVE LeadersHold'
  OBVIOUS
<1>1. ASSUME NEW s \in Servers, BecomeLeader(s) PROVE LeadersHold'
  BY <1>1, LeaderAssumption DEF BecomeLeader, LeadersHold, ServicesTypeOK, faultVars
<1>2. ASSUME NEW s \in Servers, Crash(s) PROVE LeadersHold'
  BY <1>2 DEF Crash, LeadersHold, ServicesTypeOK
<1>3. CASE LoseLock
  BY <1>3 DEF LoseLock, LeadersHold
<1>4. ASSUME UNCHANGED <<electionVars, lockLost>> PROVE LeadersHold'
  BY <1>4 DEF electionVars, LeadersHold
<1> QED
  BY <1>1, <1>2, <1>3, <1>4 DEF ServicesNext, Progress, Fire, TakeTime, Query, Found, Save, Mail, MailLost, UserFails, QueryFails,
     TurnOf,      BeginEvent, CommitEvent, servicesVars, faultVars

-----------------------------------------------------------------------------
(* No event is skipped.                                                    *)

\* What has been settled or passed by stays so.
Grows == told \subseteq told' /\ given \subseteq given' /\ leftOut \subseteq leftOut' /\ passedBy \subseteq passedBy' /\ events <= events'

\* A run that does nothing keeps what it has done with its window.
LEMMA RunKept ==
    ASSUME NEW r \in Runs, RunInv(r), Grows, ServicesTypeOK, ServicesTypeOK', phase'[r] = phase[r], from'[r] = from[r],
           to'[r] = to[r], batch'[r] = batch[r], waiting'[r] = waiting[r]
    PROVE  RunInv(r)'
<1>1. from[r] \in Nat /\ events \in Nat /\ events' \in Nat
  BY DEF ServicesTypeOK, Times
<1> QED BY <1>1 DEF RunInv, Grows, SettledTo, Settled, Late

\* A run that is over has nothing left to do.
LEMMA RunOver ==
    ASSUME NEW r \in Runs, phase'[r] = "none", batch'[r] = {}
    PROVE  RunInv(r)'
BY DEF RunInv, Late

\* As long as neither the stored time changes nor an event begins.
LEMMA StoredKept ==
    ASSUME NoEventSkipped, Grows, stored' = stored, events' = events
    PROVE  NoEventSkipped'
BY DEF NoEventSkipped, Grows

\* Every step keeps what runs have done with their windows, and skips no event.
LEMMA SkipStep == ServicesTypeOK /\ ServicesTypeOK' /\ SkipInv /\ [ServicesNext]_servicesVars => SkipInv'
<1> SUFFICES ASSUME ServicesTypeOK, ServicesTypeOK', SkipInv, [ServicesNext]_servicesVars PROVE SkipInv'
  OBVIOUS
<1>0. NoEventSkipped /\ \A r \in Runs : RunInv(r)
  BY DEF SkipInv
<1>a. events \in Nat /\ \A r \in Runs : from[r] \in Nat /\ to[r] \in Nat /\ to[r] <= events
  BY DEF ServicesTypeOK, Times
<1>1. ASSUME UNCHANGED <<logVars, stored, runVars, mailVars>> PROVE SkipInv'
  <2>1. Grows
    BY <1>1, <1>a DEF Grows, logVars, mailVars
  <2> QED BY <1>0, <1>1, <2>1, RunKept, StoredKept DEF SkipInv, logVars, runVars
<1>2. ASSUME NEW s \in Servers, Crash(s) PROVE SkipInv'
  <2>1. Grows /\ stored' = stored /\ events' = events
    BY <1>2, <1>a DEF Grows, Crash, logVars, mailVars
  <2>2. RunsOf(s) \in SUBSET Runs /\ RunsEnd(RunsOf(s))
    BY <1>2 DEF RunsOf, Crash
  <2> HIDE DEF RunsOf
  <2>3. ASSUME NEW r \in Runs PROVE RunInv(r)'
    <3>1. CASE r \in RunsOf(s)
      BY <2>2, <3>1, RunsEndFact, RunOver
    <3>2. CASE r \notin RunsOf(s)
      BY <1>0, <2>1, <2>2, <3>2, RunsEndFact, RunKept
    <3> QED BY <3>1, <3>2
  <2> QED BY <1>0, <2>1, <2>3, StoredKept DEF SkipInv
<1>3. ASSUME NEW s \in Servers, Fire(s) PROVE SkipInv'
  <2>1. PICK new \in Runs :
              /\ phase[new] = "none"
              /\ phase' = [phase EXCEPT ![new] = "starting"]
              /\ server' = [server EXCEPT ![new] = s]
              /\ from' = [from EXCEPT ![new] = IF stored = None THEN 0 ELSE stored]
    BY <1>3, FireFact
  <2>2. UNCHANGED <<logVars, stored, to, batch, waiting, mailVars>>
    BY <1>3 DEF Fire
  <2>3. Grows
    BY <2>2, <1>a DEF Grows, logVars, mailVars
  <2>4. RunInv(new)'
    <3>1. phase'[new] = "starting" /\ from'[new] = IF stored = None THEN 0 ELSE stored
      BY <2>1 DEF ServicesTypeOK
    <3>2. batch'[new] = {}
      BY <1>0, <2>1, <2>2 DEF RunInv, Late
    <3>3. from'[new] <= events'
      BY <1>a, <2>2, <3>1 DEF ServicesTypeOK, logVars
    <3>4. SettledTo(from[new])'
      <4>1. CASE stored = None
        BY <3>1, <4>1 DEF SettledTo
      <4>2. CASE stored # None
        <5>1. stored \in Nat /\ stored <= events
          BY <4>2 DEF ServicesTypeOK, Times
        <5>2. 1..stored \subseteq 1..events /\ \A e \in 1..stored : e <= stored
          BY <1>a, <5>1
        <5>3. \A e \in (1..stored) \ passedBy, u \in Recipients : <<u, e>> \in told \cup given \cup leftOut
          BY <1>0, <4>2, <5>2 DEF NoEventSkipped
        <5> QED BY <2>2, <3>1, <4>2, <5>3 DEF SettledTo, Settled, logVars, mailVars
      <4> QED BY <4>1, <4>2
    <3> QED BY <3>1, <3>2, <3>3, <3>4 DEF RunInv, Late
  <2>5. \A r \in Runs \ {new} : RunInv(r)'
    BY <1>0, <2>1, <2>2, <2>3, RunKept DEF ServicesTypeOK
  <2> QED BY <1>0, <2>2, <2>3, <2>4, <2>5, StoredKept DEF SkipInv, logVars
<1>4. ASSUME NEW r \in Runs, TakeTime(r) PROVE SkipInv'
  <2>1. /\ Grows /\ stored' = stored /\ events' = events
        /\ \A q \in Runs \ {r} : phase'[q] = phase[q] /\ to'[q] = to[q]
        /\ phase[r] = "starting" /\ phase'[r] = "querying"
        /\ UNCHANGED <<logVars, from, batch, waiting, mailVars>>
    BY <1>4, <1>a DEF TakeTime, Grows, logVars, mailVars, ServicesTypeOK
  <2>2. RunInv(r)'
    BY <1>0, <2>1 DEF RunInv, Late, SettledTo, Settled, logVars, mailVars
  <2>3. \A q \in Runs \ {r} : RunInv(q)'
    BY <1>0, <2>1, RunKept
  <2> QED BY <1>0, <2>1, <2>2, <2>3, StoredKept DEF SkipInv
<1>5. ASSUME NEW r \in Runs, Query(r) PROVE SkipInv'
  <2>1. /\ Grows /\ stored' = stored /\ events' = events
        /\ \A q \in Runs \ {r} : phase'[q] = phase[q] /\ batch'[q] = batch[q] /\ waiting'[q] = waiting[q]
        /\ phase[r] = "querying" /\ phase'[r] = "mailing"
        /\ batch'[r] = ((from[r] + 1)..to[r]) \ open
        /\ passedBy' = passedBy \cup (((from[r] + 1)..to[r]) \cap open)
        /\ waiting'[r] = IF batch'[r] = {} THEN {} ELSE Recipients
        /\ UNCHANGED <<from, to, mailVars>>
    BY <1>5, <1>a DEF Query, Found, Grows, mailVars, ServicesTypeOK
  <2>2. RunInv(r)'
    <3>1. from'[r] <= events' /\ SettledTo(from[r])'
      BY <1>0, <2>1 DEF RunInv, SettledTo, Settled, Late, mailVars
    <3>2. (from'[r] + 1)..to'[r] \subseteq batch'[r] \cup passedBy' /\ batch'[r] \subseteq (from'[r] + 1)..to'[r]
      BY <2>1
    <3>3. \A u \in Recipients, e \in batch'[r] : u \in waiting'[r]
      BY <2>1
    <3> QED BY <2>1, <3>1, <3>2, <3>3 DEF RunInv, Late
  <2>3. \A q \in Runs \ {r} : RunInv(q)'
    BY <1>0, <2>1, RunKept
  <2> QED BY <1>0, <2>1, <2>2, <2>3, StoredKept DEF SkipInv
<1>6. ASSUME NEW r \in Runs, Save(r) PROVE SkipInv'
  <2>1. /\ Grows /\ stored' = to[r] /\ events' = events /\ RunsEnd({r})
        /\ phase[r] \in Late /\ (phase[r] = "failed" \/ waiting[r] = {})
        /\ UNCHANGED <<logVars, mailVars>>
    BY <1>6, <1>a DEF Save, Grows, logVars, mailVars, Late
  <2>2. RunInv(r)'
    BY <2>1, RunsEndFact, RunOver
  <2>3. \A q \in Runs \ {r} : RunInv(q)'
    BY <1>0, <2>1, RunsEndFact, RunKept
  <2>4. NoEventSkipped'
    <3> SUFFICES ASSUME NEW e \in (1..events) \ passedBy, e <= to[r], NEW u \in Recipients
                 PROVE  Settled(u, e)
      BY <2>1 DEF NoEventSkipped, Settled, logVars, mailVars
    <3>1. CASE e <= from[r]
      <4>1. e \in (1..from[r]) \ passedBy
        BY <1>a, <3>1
      <4> QED BY <1>0, <2>1, <4>1 DEF RunInv, SettledTo, Late
    <3>2. CASE e > from[r]
      <4>1. e \in (from[r] + 1)..to[r]
        BY <1>a, <3>2
      <4>2. e \in batch[r]
        BY <1>0, <2>1, <4>1 DEF RunInv
      <4> QED BY <1>0, <2>1, <4>2 DEF RunInv
    <3> QED BY <1>a, <3>1, <3>2
  <2> QED BY <2>2, <2>3, <2>4 DEF SkipInv
<1>7. ASSUME NEW r \in Runs, NEW u \in Recipients, Mail(r, u) PROVE SkipInv'
  <2>1. /\ Grows /\ stored' = stored /\ events' = events /\ phase[r] = "mailing"
        /\ \A q \in Runs \ {r} : waiting'[q] = waiting[q]
        /\ waiting'[r] = waiting[r] \ {u} /\ told' = told \cup ({u} \X batch[r])
        /\ UNCHANGED <<logVars, phase, from, to, batch, given, leftOut>>
    BY <1>7, <1>a DEF Mail, TurnOf, Grows, logVars, ServicesTypeOK
  <2>2. RunInv(r)'
    <3>1. \A v \in Recipients, e \in batch[r] : v \notin waiting'[r] => Settled(v, e)'
      BY <1>0, <2>1 DEF RunInv, Settled
    <3> QED BY <1>0, <2>1, <3>1 DEF RunInv, SettledTo, Settled, Late, logVars
  <2>3. \A q \in Runs \ {r} : RunInv(q)'
    BY <1>0, <2>1, RunKept
  <2> QED BY <1>0, <2>1, <2>2, <2>3, StoredKept DEF SkipInv
<1>8. ASSUME NEW r \in Runs, NEW u \in Recipients, MailLost(r, u) PROVE SkipInv'
  <2>1. /\ Grows /\ stored' = stored /\ events' = events /\ phase[r] = "mailing"
        /\ \A q \in Runs \ {r} : waiting'[q] = waiting[q]
        /\ waiting'[r] = waiting[r] \ {u} /\ given' = given \cup ({u} \X batch[r])
        /\ UNCHANGED <<logVars, phase, from, to, batch, told, leftOut>>
    BY <1>8, <1>a DEF MailLost, TurnOf, Grows, logVars, ServicesTypeOK
  <2>2. RunInv(r)'
    <3>1. \A v \in Recipients, e \in batch[r] : v \notin waiting'[r] => Settled(v, e)'
      BY <1>0, <2>1 DEF RunInv, Settled
    <3> QED BY <1>0, <2>1, <3>1 DEF RunInv, SettledTo, Settled, Late, logVars
  <2>3. \A q \in Runs \ {r} : RunInv(q)'
    BY <1>0, <2>1, RunKept
  <2> QED BY <1>0, <2>1, <2>2, <2>3, StoredKept DEF SkipInv
<1>10. ASSUME NEW r \in Runs, NEW u \in Recipients, UserFails(r, u) PROVE SkipInv'
  <2>1. /\ Grows /\ stored' = stored /\ events' = events /\ phase[r] = "mailing"
        /\ \A q \in Runs \ {r} : waiting'[q] = waiting[q] /\ phase'[q] = phase[q]
        /\ phase'[r] = "failed" /\ waiting'[r] = waiting[r] \ {u}
        /\ given' = given \cup ({u} \X batch[r]) /\ leftOut' = leftOut \cup (waiting'[r] \X batch[r])
        /\ UNCHANGED <<logVars, from, to, batch, told>>
    BY <1>10, <1>a, TurnType DEF UserFails, TurnOf, Grows, logVars, ServicesTypeOK
  <2>2. RunInv(r)'
    <3>1. \A v \in Recipients, e \in batch[r] : Settled(v, e)'
      BY <1>0, <2>1 DEF RunInv, Settled
    <3> QED BY <1>0, <2>1, <3>1 DEF RunInv, SettledTo, Settled, Late, logVars
  <2>3. \A q \in Runs \ {r} : RunInv(q)'
    BY <1>0, <2>1, RunKept
  <2> QED BY <1>0, <2>1, <2>2, <2>3, StoredKept DEF SkipInv
<1>11. ASSUME NEW r \in Runs, QueryFails(r) PROVE SkipInv'
  <2>1. /\ Grows /\ stored' = stored /\ events' = events
        /\ \A q \in Runs \ {r} : phase'[q] = phase[q]
        /\ phase[r] = "querying" /\ phase'[r] = "failed"
        /\ passedBy' = passedBy \cup (from[r] + 1)..to[r]
        /\ UNCHANGED <<from, to, batch, waiting, mailVars>>
    BY <1>11, <1>a DEF QueryFails, Grows, mailVars, ServicesTypeOK
  <2>2. RunInv(r)'
    <3>1. from'[r] <= events' /\ SettledTo(from[r])'
      BY <1>0, <2>1 DEF RunInv, SettledTo, Settled, Late, mailVars
    <3>2. batch'[r] = {}
      BY <1>0, <2>1 DEF RunInv, Late
    <3> QED BY <2>1, <3>1, <3>2 DEF RunInv, Late
  <2>3. \A q \in Runs \ {r} : RunInv(q)'
    BY <1>0, <2>1, RunKept
  <2> QED BY <1>0, <2>1, <2>2, <2>3, StoredKept DEF SkipInv
<1>9. ASSUME BeginEvent \/ \E e \in open : CommitEvent(e) PROVE SkipInv'
  <2>1. /\ Grows /\ stored' = stored /\ events' \in {events, events + 1} /\ passedBy' = passedBy
        /\ UNCHANGED <<runVars, mailVars>>
    BY <1>9, <1>a DEF BeginEvent, CommitEvent, Grows, mailVars
  <2>2. NoEventSkipped'
    <3>1. \A e \in 1..events' : stored # None /\ e <= stored => e \in 1..events
      BY <1>a, <2>1 DEF ServicesTypeOK, Times
    <3> QED BY <1>0, <2>1, <3>1 DEF NoEventSkipped, mailVars
  <2> QED BY <1>0, <2>1, <2>2, RunKept DEF SkipInv, runVars
<1> QED
  BY <1>1, <1>2, <1>3, <1>4, <1>5, <1>6, <1>7, <1>8, <1>9, <1>10, <1>11
  DEF ServicesNext, Progress, BecomeLeader, LoseLock, servicesVars

-----------------------------------------------------------------------------
(* Nothing is told twice.                                                  *)

\* Nothing that matters to runs in turn has changed.
LEMMA TurnKept ==
    ASSUME ServicesTypeOK, disturbed \/ InTurn, disturbed => disturbed', stored' = stored, told' = told, again' = again,
           ToldOnce,
           \A r \in Runs : /\ phase'[r] = phase[r] /\ from'[r] = from[r] /\ to'[r] = to[r]
                          /\ batch'[r] = batch[r] /\ waiting'[r] = waiting[r]
    PROVE  TellInv'
<1>1. CASE disturbed'
  BY <1>1 DEF TellInv, ToldOnce
<1>2. CASE ~disturbed'
  BY <1>2 DEF TellInv, ToldOnce, InTurn, LastStored
<1> QED BY <1>1, <1>2

\* Every step keeps undisturbed runs in turn, and tells nothing twice.
LEMMA TellStep == ServicesTypeOK /\ SkipInv /\ TellInv /\ [ServicesNext]_servicesVars => TellInv'
<1> SUFFICES ASSUME ServicesTypeOK, SkipInv, TellInv, [ServicesNext]_servicesVars PROVE TellInv'
  OBVIOUS
<1>0. ToldOnce /\ (disturbed \/ InTurn) /\ \A r \in Runs : RunInv(r)
  BY DEF TellInv, SkipInv
<1>a. /\ events \in Nat /\ \A r \in Runs : from[r] \in Nat /\ to[r] \in Nat /\ to[r] <= events
      /\ \A r \in Runs : batch[r] \subseteq Nat
      /\ LastStored \in Nat /\ \A pair \in told : pair[1] \in Recipients /\ pair[2] \in Nat
  BY LeaderAssumption DEF ServicesTypeOK, Times, Events, LastStored
<1>1. ASSUME UNCHANGED <<stored, runVars, mailVars, disturbed>> PROVE TellInv'
  BY <1>0, <1>1, TurnKept DEF runVars, mailVars
<1>2. ASSUME NEW s \in Servers, Crash(s) PROVE TellInv'
  <2>1. /\ RunsOf(s) \in SUBSET Runs /\ RunsEnd(RunsOf(s)) /\ UNCHANGED <<stored, told, again>>
        /\ disturbed' = (disturbed \/ RunsOf(s) # {})
    BY <1>2 DEF RunsOf, Crash, mailVars
  <2> HIDE DEF RunsOf
  <2>2. CASE disturbed'
    BY <1>0, <2>1, <2>2 DEF TellInv, ToldOnce
  <2>3. CASE ~disturbed'
    <3>1. RunsOf(s) = {} /\ ~disturbed
      BY <2>1, <2>3
    <3> QED BY <1>0, <2>1, <3>1, RunsEndFact, TurnKept
  <2> QED BY <2>2, <2>3
<1>3. ASSUME NEW s \in Servers, Fire(s) PROVE TellInv'
  <2>1. PICK new \in Runs :
              /\ phase[new] = "none"
              /\ phase' = [phase EXCEPT ![new] = "starting"]
              /\ server' = [server EXCEPT ![new] = s]
              /\ from' = [from EXCEPT ![new] = IF stored = None THEN 0 ELSE stored]
    BY <1>3, FireFact
  <2>2. /\ UNCHANGED <<stored, to, batch, waiting, told, again>>
        /\ disturbed' = (disturbed \/ \E r \in Runs : phase[r] # "none")
    BY <1>3 DEF Fire, mailVars
  <2>3. CASE disturbed'
    BY <1>0, <2>2, <2>3 DEF TellInv, ToldOnce
  <2>4. CASE ~disturbed'
    <3>1. InTurn /\ \A r \in Runs : phase[r] = "none"
      BY <1>0, <2>2, <2>4
    <3>2. /\ phase'[new] = "starting" /\ from'[new] = LastStored
          /\ \A r \in Runs \ {new} : phase'[r] = "none"
      BY <2>1, <3>1 DEF ServicesTypeOK, LastStored
    <3> QED BY <1>0, <2>2, <3>1, <3>2 DEF TellInv, ToldOnce, InTurn, LastStored
  <2> QED BY <2>3, <2>4
<1>4. ASSUME NEW r \in Runs, TakeTime(r) PROVE TellInv'
  <2>1. /\ UNCHANGED <<stored, from, batch, waiting, told, again, disturbed>>
        /\ phase[r] = "starting" /\ phase'[r] = "querying" /\ to'[r] = events
        /\ \A q \in Runs \ {r} : phase'[q] = phase[q] /\ to'[q] = to[q]
    BY <1>4 DEF TakeTime, ServicesTypeOK, mailVars
  <2>2. from'[r] <= to'[r]
    BY <1>0, <2>1 DEF RunInv
  <2>3. InTurn => InTurn'
    BY <2>1, <2>2 DEF InTurn, LastStored
  <2> QED BY <1>0, <2>1, <2>3 DEF TellInv, ToldOnce
<1>5. ASSUME NEW r \in Runs, Query(r) PROVE TellInv'
  <2>1. /\ UNCHANGED <<stored, from, to, told, again, disturbed>>
        /\ phase[r] = "querying" /\ phase'[r] = "mailing"
        /\ \A q \in Runs \ {r} : phase'[q] = phase[q] /\ batch'[q] = batch[q] /\ waiting'[q] = waiting[q]
    BY <1>5 DEF Query, Found, ServicesTypeOK, mailVars
  <2>2. batch[r] = {}
    BY <1>0, <2>1 DEF RunInv, Late
  <2>3. InTurn => InTurn'
    BY <2>1, <2>2 DEF InTurn, LastStored
  <2> QED BY <1>0, <2>1, <2>3 DEF TellInv, ToldOnce
<1>6. ASSUME NEW r \in Runs, Save(r) PROVE TellInv'
  <2>1. /\ stored' = to[r] /\ RunsEnd({r}) /\ phase[r] \in Late /\ UNCHANGED <<told, again, disturbed>>
    BY <1>6 DEF Save, Late, mailVars
  <2>2. CASE disturbed
    BY <1>0, <2>1, <2>2 DEF TellInv, ToldOnce
  <2>3. CASE InTurn
    <3>1. LastStored' = to[r]
      BY <1>a, <2>1, LeaderAssumption DEF LastStored
    <3>2. from[r] = LastStored /\ from[r] <= to[r] /\ \A q \in Runs \ {r} : phase[q] = "none" /\ batch[q] = {}
      BY <1>0, <2>1, <2>3 DEF InTurn, Late, RunInv
    <3>3. \A q \in Runs : phase'[q] = "none"
      BY <2>1, <3>2, RunsEndFact
    <3>4. ASSUME NEW pair \in told PROVE pair[2] <= to[r]
      <4>1. CASE pair[2] <= LastStored
        BY <1>a, <3>2, <4>1
      <4>2. CASE \E q \in Runs : pair[2] \in batch[q]
        <5>1. pair[2] \in batch[r]
          BY <3>2, <4>2
        <5> QED BY <1>0, <1>a, <5>1 DEF RunInv
      <4> QED BY <2>3, <4>1, <4>2 DEF InTurn
    <3>5. InTurn'
      BY <2>1, <3>1, <3>3, <3>4 DEF InTurn
    <3> QED BY <1>0, <2>1, <3>5 DEF TellInv, ToldOnce
  <2> QED BY <1>0, <2>2, <2>3
<1>7. ASSUME NEW r \in Runs, NEW u \in Recipients, Mail(r, u) PROVE TellInv'
  <2>1. /\ phase[r] = "mailing" /\ u \in waiting[r] /\ waiting'[r] = waiting[r] \ {u}
        /\ told' = told \cup ({u} \X batch[r])
        /\ again' = again \cup IF disturbed THEN {} ELSE told \cap ({u} \X batch[r])
        /\ \A q \in Runs \ {r} : waiting'[q] = waiting[q]
        /\ UNCHANGED <<stored, phase, from, to, batch, disturbed>>
    BY <1>7, TurnType DEF Mail, TurnOf
  <2>2. CASE disturbed
    BY <1>0, <2>1, <2>2 DEF TellInv, ToldOnce
  <2>3. CASE ~disturbed
    <3>0. InTurn
      BY <1>0, <2>3
    <3>1. from[r] = LastStored /\ \A q \in Runs \ {r} : batch[q] = {}
      BY <1>0, <2>1, <3>0 DEF InTurn, RunInv, Late
    <3>2. told \cap ({u} \X batch[r]) = {}
      <4> SUFFICES ASSUME NEW pair \in told, pair[1] = u, pair[2] \in batch[r] PROVE FALSE
        OBVIOUS
      <4>1. pair[2] > LastStored
        BY <1>0, <1>a, <3>1 DEF RunInv
      <4>2. PICK q \in Runs : pair[2] \in batch[q] /\ pair[1] \notin waiting[q]
        BY <1>a, <3>0, <4>1 DEF InTurn
      <4> QED BY <2>1, <3>1, <4>2
    <3>3. InTurn'
      <4>1. ASSUME NEW pair \in told'
            PROVE  pair[2] <= LastStored \/ \E q \in Runs : pair[2] \in batch[q] /\ pair[1] \notin waiting'[q]
        <5>1. CASE pair \in told
          BY <2>1, <3>0, <3>1, <5>1 DEF InTurn
        <5>2. CASE pair \in {u} \X batch[r]
          BY <2>1, <5>2
        <5> QED BY <2>1, <4>1, <5>1, <5>2
      <4> QED BY <2>1, <3>0, <4>1 DEF InTurn, LastStored
    <3> QED BY <1>0, <2>1, <2>3, <3>2, <3>3 DEF TellInv, ToldOnce
  <2> QED BY <2>2, <2>3
<1>8. ASSUME NEW r \in Runs, NEW u \in Recipients, MailLost(r, u) \/ UserFails(r, u) PROVE TellInv'
  <2>1. /\ UNCHANGED <<stored, from, to, batch, told, again, disturbed>>
        /\ phase[r] = "mailing" /\ phase'[r] \in {"mailing", "failed"}
        /\ \A q \in Runs \ {r} : phase'[q] = phase[q]
        /\ \A q \in Runs : waiting'[q] \subseteq waiting[q]
    BY <1>8, TurnType DEF MailLost, UserFails, TurnOf, ServicesTypeOK
  <2>2. InTurn => InTurn'
    BY <2>1 DEF InTurn, LastStored
  <2> QED BY <1>0, <2>1, <2>2 DEF TellInv, ToldOnce
<1>9. ASSUME NEW r \in Runs, QueryFails(r) PROVE TellInv'
  <2>1. /\ UNCHANGED <<stored, from, to, batch, waiting, told, again, disturbed>>
        /\ phase[r] = "querying" /\ phase'[r] = "failed"
        /\ \A q \in Runs \ {r} : phase'[q] = phase[q]
    BY <1>9 DEF QueryFails, mailVars, ServicesTypeOK
  <2>2. InTurn => InTurn'
    BY <2>1 DEF InTurn, LastStored
  <2> QED BY <1>0, <2>1, <2>2 DEF TellInv, ToldOnce
<1> QED
  BY <1>1, <1>2, <1>3, <1>4, <1>5, <1>6, <1>7, <1>8, <1>9
  DEF ServicesNext, Progress, BecomeLeader, LoseLock, BeginEvent, CommitEvent, servicesVars

-----------------------------------------------------------------------------

\* The first state.
LEMMA FirstServicesInv == ServicesInit => ServicesInv
<1> SUFFICES ASSUME ServicesInit PROVE ServicesInv
  OBVIOUS
<1>1. ServicesTypeOK
  <2>1. 0 \in Times /\ 0 \in 0..MaxFaults
    BY LeaderAssumption DEF Times
  <2>3. /\ role \in [Servers -> {"trying", "leader", "down"}] /\ holder \in Servers \cup {None}
        /\ stored = None /\ disturbed \in BOOLEAN /\ lockLost \in BOOLEAN
    BY DEF ServicesInit
  <2>4. /\ phase \in [Runs -> {"none"} \cup Active] /\ server \in [Runs -> Servers \cup {None}]
        /\ batch \in [Runs -> SUBSET Events] /\ waiting \in [Runs -> SUBSET Recipients]
    BY DEF ServicesInit
  <2>5. from \in [Runs -> Times] /\ to \in [Runs -> Times]
    BY <2>1 DEF ServicesInit
  <2>6. \A r \in Runs : to[r] <= events /\ (phase[r] = "none" <=> server[r] = None)
    BY DEF ServicesInit
  <2> QED BY <2>1, <2>3, <2>4, <2>5, <2>6 DEF ServicesInit, ServicesTypeOK
<1>2. LeadersHold /\ SkipInv
  BY DEF ServicesInit, LeadersHold, SkipInv, NoEventSkipped, RunInv, Late
<1>3. TellInv
  BY DEF ServicesInit, TellInv, ToldOnce, InTurn
<1> QED BY <1>1, <1>2, <1>3 DEF ServicesInv

\* Every step keeps the invariant.
LEMMA NextServicesInv == ServicesInv /\ [ServicesNext]_servicesVars => ServicesInv'
BY ServicesTypeStep, ElectionStep, SkipStep, TellStep DEF ServicesInv

\* However many servers race for the lock and crash, one at a time runs the services, as long
\* as no leader loses its database session (leader-election-service.ts:26-36).
THEOREM AtMostOneLeader == ServicesSpec => []OneLeader
<1>1. ServicesInv => OneLeader
  BY DEF ServicesInv, LeadersHold, OneLeader
<1> QED BY <1>1, FirstServicesInv, NextServicesInv, PTL DEF ServicesSpec

\* Once the stored time has passed an event, everybody has been told of it, except for the
\* losses of the code that NoEventSkipped names: for any number of runs that overlap, fail,
\* crash and set the stored time back (notification-service.ts:104-186).
THEOREM NothingSkipped == ServicesSpec => []NoEventSkipped
<1>1. ServicesInv => NoEventSkipped
  BY DEF ServicesInv, SkipInv
<1> QED BY <1>1, FirstServicesInv, NextServicesInv, PTL DEF ServicesSpec

\* Runs that neither overlap nor are cut off tell nobody anything twice
\* (notification-service.ts:118-135).
THEOREM NothingTwice == ServicesSpec => []ToldOnce
<1>1. ServicesInv => ToldOnce
  BY DEF ServicesInv, TellInv
<1> QED BY <1>1, FirstServicesInv, NextServicesInv, PTL DEF ServicesSpec
=============================================================================
