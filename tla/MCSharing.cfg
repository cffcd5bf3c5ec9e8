CONSTANTS
    a = a
    v = v
    c1 = c1
    c2 = c2
    p1 = p1
    Users = {a, v}
    Catalogs = {c1, c2}
    Packages = {p1}
    Followers = {v}
    CatalogGrants <- SomeCatalogGrants
    PackageGrants <- SomePackageGrants
    Requests = {1, 2}
    MaxRequests = 4
    Absent = Absent
SPECIFICATION MCSpec
INVARIANTS CatalogFollowersCanView PublicInPublic
CHECK_DEADLOCK FALSE
