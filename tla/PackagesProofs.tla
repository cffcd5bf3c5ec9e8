---------------------------- MODULE PackagesProofs ----------------------------
(***************************************************************************)
(* Theorems about PackageVersions, for any number of publishers, package   *)
(* files, version numbers, publications, failures and deletions, and about *)
(* PackageUpdates, for any number of packages, ticks and changes.          *)
(*                                                                         *)
(* The argument about versions: a publication holds its version number     *)
(* from the save to the commit, so no other writes the file of that        *)
(* number.  When publications do not overlap, the latest version stays the *)
(* latest until the next commit, and shows what all of its major number    *)
(* show; so it is enough that each publication is compared with the latest *)
(* alone.                                                                  *)
(*                                                                         *)
(* The argument about updates: what a tick has still to save is what the   *)
(* users want, or has been changed under its hands, which raced remembers; *)
(* so a save brings the row back to what is wanted, or its package is in   *)
(* raced.                                                                  *)
(***************************************************************************)
EXTENDS PackageVersions, PackageUpdates, FiniteSetTheorems, SequenceTheorems, TLAPS

-----------------------------------------------------------------------------
(* What the comparison of package files guarantees, for all files.         *)

\* One schema: a property that is shown and missing, hidden or of other types
\* in the new schema gives a breaking difference.
LEMMA PropertyKept ==
    ASSUME NEW prior, NEW new, NEW k \in DOMAIN prior,
           ~prior[k].hidden,
           PropertyDifferences(prior, new) \cap Breaking = {}
    PROVE  k \in DOMAIN new /\ ~new[k].hidden /\ new[k].types = prior[k].types
<1>1. k \in DOMAIN new
  <2> SUFFICES ASSUME k \notin DOMAIN new PROVE FALSE
    OBVIOUS
  <2>1. "REMOVE_PROPERTY" \in PropertyDifferences(prior, new)
    BY DEF PropertyDifferences
  <2> QED BY <2>1 DEF Breaking
<1>2. ~new[k].hidden
  <2> SUFFICES ASSUME new[k].hidden PROVE FALSE
    OBVIOUS
  <2>1. "HIDE_PROPERTY" \in PropertyDifferences(prior, new)
    BY <1>1 DEF PropertyDifferences
  <2> QED BY <2>1 DEF Breaking
<1>3. new[k].types = prior[k].types
  <2> SUFFICES ASSUME prior[k].types # new[k].types PROVE FALSE
    OBVIOUS
  <2>1. "CHANGE_PROPERTY_TYPE" \in PropertyDifferences(prior, new)
    BY <1>1 DEF PropertyDifferences
  <2> QED BY <2>1 DEF Breaking
<1> QED BY <1>1, <1>2, <1>3

\* A file that does not ask for a new major version keeps every property the
\* prior file shows, with its types, if no schema is hidden as a whole.  So
\* diffCompatibility misses no way of breaking a consumer but that one.
THEOREM NonBreakingKeeps ==
    ASSUME NEW prior, NEW new, NEW v, NEW w,
           \A t \in DOMAIN prior.schemas \cap DOMAIN new.schemas :
              prior.schemas[t].hidden = new.schemas[t].hidden,
           DiffCompatibility(Differences(prior, v, new, w)) # BreakingChange
    PROVE  Shown(prior) \subseteq Shown(new)
<1> DEFINE D == SchemaDifferences(prior.schemas, new.schemas)
<1>1. D \cap Breaking = {}
  BY DEF DiffCompatibility, Differences
<1> SUFFICES ASSUME NEW t \in DOMAIN prior.schemas,
                    NEW k \in DOMAIN prior.schemas[t].properties,
                    ~prior.schemas[t].hidden,
                    ~prior.schemas[t].properties[k].hidden
             PROVE  <<t, k, prior.schemas[t].properties[k].types>> \in Shown(new)
  BY DEF Shown
<1>2. t \in DOMAIN new.schemas
  <2> SUFFICES ASSUME t \notin DOMAIN new.schemas PROVE FALSE
    OBVIOUS
  <2>1. "REMOVE_SCHEMA" \in D
    BY DEF SchemaDifferences
  <2> QED BY <1>1, <2>1 DEF Breaking
<1> DEFINE P == PropertyDifferences(prior.schemas[t].properties, new.schemas[t].properties)
<1>3. P \subseteq D
  BY <1>2 DEF SchemaDifferences
<1>4. P \cap Breaking = {}
  BY <1>1, <1>3
<1>5. /\ k \in DOMAIN new.schemas[t].properties
      /\ ~new.schemas[t].properties[k].hidden
      /\ new.schemas[t].properties[k].types = prior.schemas[t].properties[k].types
  BY <1>4, PropertyKept
<1>6. ~new.schemas[t].hidden
  BY <1>2
<1> QED BY <1>2, <1>5, <1>6 DEF Shown

-----------------------------------------------------------------------------
(* The parts of the invariant.                                             *)

Types ==
    /\ rows \subseteq Versions
    /\ stored \in [Versions -> Files \cup {None}]
    /\ phase \in [Publishers -> {"idle", "finding", "reading", "saving"} \cup Holding]
    /\ file \in [Publishers -> Files \cup {None}]
    /\ version \in [Publishers -> Versions \cup {None}]
    /\ latest \in [Publishers -> Versions \cup {None}]
    /\ compat \in [Publishers -> {None} \cup Identical..BreakingChange]
    /\ retried \in [Publishers -> BOOLEAN]
    /\ started \in 0..MaxPublications
    /\ failures \in 0..MaxFailures /\ deletes \in 0..MaxDeletes
    /\ overlapped \in BOOLEAN
    /\ \A p \in Publishers : phase[p] # "idle" => file[p] \in Files /\ version[p] \in Versions

\* Publications that hold a row hold different ones.
Apart ==
    \A p, q \in Publishers : p # q /\ phase[p] \in Holding /\ phase[q] \in Holding => version[p] # version[q]

\* A version has its file before it has its row.
FilesInv ==
    /\ RowHasFile
    /\ \A p \in Publishers : phase[p] = "written" => stored[version[p]] # None

\* A publication with changes that count has a number that is not taken.
NewInv ==
    \A p \in Publishers : phase[p] \in Holding /\ compat[p] # Identical => version[p] \notin rows

\* Whatever is deleted, there is a latest version.
MaxInv == \A S \in SUBSET rows : S # {} => \E v \in S : \A w \in S : ~Below(v, w)

\* What a package shows does not shrink within a major number.
Keeps(S) == \A v, w \in S : v[1] = w[1] /\ Below(v, w) => Shown(stored[v]) \subseteq Shown(stored[w])

\* The version found is above all others, and shows what those of its major number show.
LatestInv(p) ==
    /\ latest[p] = None => rows = {}
    /\ latest[p] # None =>
          /\ stored[latest[p]] # None
          /\ \A w \in rows : ~Below(latest[p], w)
          /\ \A v \in rows : v[1] = latest[p][1] => Shown(stored[v]) \subseteq Shown(stored[latest[p]])

CompatInv(p) ==
    compat[p] = IF latest[p] = None THEN None
                ELSE DiffCompatibility(Differences(stored[latest[p]], latest[p], file[p], version[p]))

\* What is true of publications that follow one another.
Turn(p) ==
    /\ phase[p] \in {"reading", "saving", "saved", "writing"} => LatestInv(p)
    /\ phase[p] \in {"saving", "saved", "writing"} => CompatInv(p)
    /\ phase[p] \in {"saved", "writing"} => ~Refused(p)
    /\ phase[p] = "written" =>
          Keeps(rows \cup {version[p]}) /\ \A w \in rows : ~Below(version[p], w)

InTurn ==
    /\ \A p, q \in Publishers : phase[p] # "idle" /\ phase[q] # "idle" => p = q
    /\ Keeps(rows)
    /\ \A p \in Publishers : Turn(p)

Inv ==
    /\ Types /\ Apart /\ FilesInv /\ NewInv /\ MaxInv
    /\ overlapped \/ InTurn

-----------------------------------------------------------------------------
(* Operators.                                                              *)

\* Versions are ordered.
LEMMA BelowFact ==
    ASSUME NEW u \in Versions, NEW v \in Versions, NEW w \in Versions
    PROVE  /\ ~Below(v, v) /\ (Below(v, w) => ~Below(w, v))
           /\ v = w \/ Below(v, w) \/ Below(w, v)
           /\ ~Below(u, v) /\ ~Below(v, w) => ~Below(u, w)
           /\ v[1] \in Nat /\ (~Below(w, v) => v[1] <= w[1])
<1>1. \A x \in Nat \X Nat \X Nat : x = <<x[1], x[2], x[3]>> /\ x[1] \in Nat /\ x[2] \in Nat /\ x[3] \in Nat
  OBVIOUS
<1>2. {u, v, w} \subseteq Nat \X Nat \X Nat
  BY VersionsAssumption
<1> QED BY <1>1, <1>2 DEF Below

\* A comparison gives one of the four degrees.
LEMMA DiffCompatibilityType ==
    ASSUME NEW diffs PROVE DiffCompatibility(diffs) \in Identical..BreakingChange
BY DEF DiffCompatibility, Identical, MinorChange, CompatibleChange, BreakingChange

\* The number asked for is above the latest; within its major number unless something breaks.
LEMMA NextVersionFact ==
    ASSUME NEW v \in Versions, NEW w \in Versions, NEW c \in (Identical..BreakingChange) \ {Identical},
           ~Below(w, NextVersion(v, c))
    PROVE  Below(v, w) /\ (c = BreakingChange => v[1] < w[1])
<1>1. v[1] \in Nat /\ v[2] \in Nat /\ v[3] \in Nat /\ w[1] \in Nat /\ w[2] \in Nat /\ w[3] \in Nat
  BY VersionsAssumption
<1>2. c \in {MinorChange, CompatibleChange, BreakingChange}
  BY DEF Identical, MinorChange, CompatibleChange, BreakingChange
<1>3. CASE c = MinorChange
  BY <1>1, <1>3 DEF NextVersion, Below, Identical, MinorChange, CompatibleChange, BreakingChange
<1>4. CASE c = CompatibleChange
  BY <1>1, <1>4 DEF NextVersion, Below, Identical, MinorChange, CompatibleChange, BreakingChange
<1>5. CASE c = BreakingChange
  BY <1>1, <1>5 DEF NextVersion, Below, Identical, MinorChange, CompatibleChange, BreakingChange
<1> QED BY <1>2, <1>3, <1>4, <1>5

\* A file that is identical has the number it is compared with.
LEMMA IdenticalFact ==
    ASSUME NEW prior, NEW new, NEW v, NEW w,
           DiffCompatibility(Differences(prior, v, new, w)) = Identical
    PROVE  v = w
<1> SUFFICES ASSUME v # w PROVE FALSE
  OBVIOUS
<1>1. "CHANGE_VERSION" \in Differences(prior, v, new, w)
  BY DEF Differences
<1> QED BY <1>1 DEF DiffCompatibility, Identical, MinorChange, CompatibleChange, BreakingChange, Trivial

\* What is kept when nothing breaks.
LEMMA KeptFact ==
    ASSUME NEW prior \in Files, NEW new \in Files, NEW v, NEW w,
           DiffCompatibility(Differences(prior, v, new, w)) # BreakingChange
    PROVE  Shown(prior) \subseteq Shown(new)
BY NonBreakingKeeps, FilesAssumption

-----------------------------------------------------------------------------
(* Typing.                                                                 *)

\* findLatestVersion finds a row that is below no other.
LEMMA LatestFact ==
    ASSUME MaxInv, NEW p \in Publishers, FindLatest(p), Types
    PROVE  /\ rows = {} => latest'[p] = None
           /\ rows # {} => /\ latest'[p] \in rows
                           /\ \A w \in rows : ~Below(latest'[p], w)
<1>1. rows # {} => \E v \in rows : \A w \in rows : ~Below(v, w)
  BY DEF MaxInv
<1>2. latest'[p] = IF rows = {} THEN None
                   ELSE CHOOSE v \in rows : \A w \in rows : ~Below(v, w)
  BY DEF FindLatest, Types
<1> QED BY <1>1, <1>2

LEMMA OverTypes ==
    ASSUME Types, NEW p \in Publishers, Over(p),
           stored' = stored, rows' \subseteq Versions,
           <<started, failures, deletes>>' \in (0..MaxPublications) \X (0..MaxFailures) \X (0..MaxDeletes),
           overlapped' = overlapped
    PROVE  Types'
BY DEF Types, Over, Goto, Holding

LEMMA TypesStep ==
    ASSUME Types, MaxInv, Next PROVE Types'
<1>1. ASSUME NEW p \in Publishers, FindLatest(p) PROVE Types'
  <2>1. latest'[p] \in Versions \cup {None}
    BY <1>1, LatestFact DEF Types
  <2>2. latest' \in [Publishers -> Versions \cup {None}]
    BY <1>1, <2>1 DEF FindLatest, Types
  <2> QED BY <1>1, <2>2 DEF FindLatest, Goto, Types, Holding, countVars
<1>2. ASSUME NEW p \in Publishers, Compare(p) PROVE Types'
  <2>1. compat'[p] \in {None} \cup Identical..BreakingChange
    BY <1>2, DiffCompatibilityType DEF Compare, Types
  <2>2. compat' \in [Publishers -> {None} \cup Identical..BreakingChange]
    BY <1>2, <2>1 DEF Compare, Types
  <2> QED BY <1>2, <2>2 DEF Compare, Goto, Types, Holding, countVars
<1>3. ASSUME NEW p \in Publishers, SaveSame(p) \/ SaveNew(p) \/ LockPackage(p) PROVE Types'
  BY <1>3 DEF SaveSame, SaveNew, LockPackage, Goto, Types, Holding, countVars
<1>4. ASSUME NEW p \in Publishers, SaveFails(p) \/ ComparisonFails(p) PROVE Types'
  <2>1. /\ Over(p) /\ stored' = stored /\ rows' = rows /\ overlapped' = overlapped
        /\ started' = started /\ failures' = failures /\ deletes' = deletes
    BY <1>4 DEF SaveFails, ComparisonFails, countVars
  <2> QED BY <2>1, OverTypes DEF Types
<1>5. ASSUME NEW p \in Publishers, Refuse(p) PROVE Types'
  <2>1. /\ stored' = stored /\ rows' = rows /\ overlapped' = overlapped
        /\ started' = started /\ failures' = failures /\ deletes' = deletes
    BY <1>5 DEF Refuse, countVars
  <2>2. CASE Over(p)
    BY <2>1, <2>2, OverTypes DEF Types
  <2>3. CASE ~Over(p)
    <3>1. /\ Required(p) \in Versions /\ Goto(p, "finding") /\ file' = file
          /\ version' = [version EXCEPT ![p] = Required(p)]
          /\ retried' = [retried EXCEPT ![p] = TRUE]
          /\ latest' = [latest EXCEPT ![p] = None]
          /\ compat' = [compat EXCEPT ![p] = None]
          /\ phase[p] = "saving"
      BY <1>5, <2>3 DEF Refuse
    <3> HIDE DEF Required
    <3> QED BY <2>1, <3>1 DEF Types, Goto, Holding
  <2> QED BY <2>2, <2>3
<1>6. ASSUME NEW p \in Publishers, WritePackageFile(p) PROVE Types'
  BY <1>6 DEF WritePackageFile, Goto, Types, Holding, countVars
<1>7. ASSUME NEW p \in Publishers, Commit(p) PROVE Types'
  <2>1. /\ Over(p) /\ stored' = stored /\ rows' \subseteq Versions /\ overlapped' = overlapped
        /\ started' = started /\ failures' = failures /\ deletes' = deletes
    BY <1>7 DEF Commit, countVars, Types
  <2> QED BY <2>1, OverTypes DEF Types
<1>8. ASSUME NEW p \in Publishers, Fail(p) PROVE Types'
  <2>1. /\ Over(p) /\ stored' = stored /\ rows' = rows /\ overlapped' = overlapped
        /\ started' = started /\ failures' \in 0..MaxFailures /\ deletes' = deletes
    BY <1>8, VersionsAssumption DEF Fail, Types
  <2> QED BY <2>1, OverTypes DEF Types
<1>9. ASSUME NEW p \in Publishers, NEW f \in Files, NEW v \in Proposals, Publish(p, f, v) PROVE Types'
  BY <1>9, VersionsAssumption DEF Publish, Goto, Types, Holding
<1>10. ASSUME NEW v \in rows, DeleteVersion(v) PROVE Types'
  BY <1>10, VersionsAssumption DEF DeleteVersion, Types, publisherVars
<1> QED BY <1>1, <1>2, <1>3, <1>4, <1>5, <1>6, <1>7, <1>8, <1>9, <1>10 DEF Next, Progress

-----------------------------------------------------------------------------
(* Rows and files.                                                         *)

LEMMA ApartStep ==
    ASSUME Types, Apart, Next PROVE Apart'
<1> USE DEF Types, Apart, Holding
<1>1. ASSUME NEW p \in Publishers, SaveSame(p) \/ SaveNew(p) PROVE Apart'
  BY <1>1 DEF SaveSame, SaveNew, Holders, Goto
<1>2. ASSUME NEW p \in Publishers, Over(p) PROVE Apart'
  BY <1>2 DEF Over, Goto
<1>3. ASSUME NEW p \in Publishers, FindLatest(p) \/ Compare(p) \/ LockPackage(p) \/ WritePackageFile(p)
      PROVE  Apart'
  BY <1>3 DEF FindLatest, Compare, LockPackage, WritePackageFile, Goto
<1>4. ASSUME NEW p \in Publishers, Refuse(p), ~Over(p) PROVE Apart'
  BY <1>4 DEF Refuse, Goto
<1>5. ASSUME NEW p \in Publishers, NEW f \in Files, NEW v \in Proposals, Publish(p, f, v) PROVE Apart'
  BY <1>5 DEF Publish, Goto
<1>6. ASSUME NEW v \in rows, DeleteVersion(v) PROVE Apart'
  BY <1>6 DEF DeleteVersion, publisherVars
<1> QED BY <1>1, <1>2, <1>3, <1>4, <1>5, <1>6
        DEF Next, Progress, SaveFails, ComparisonFails, Commit, Fail

LEMMA FilesStep ==
    ASSUME Types, FilesInv, Next PROVE FilesInv'
<1> USE DEF Types, FilesInv, RowHasFile, Holding
<1>1. ASSUME NEW p \in Publishers, WritePackageFile(p) PROVE FilesInv'
  BY <1>1, VersionsAssumption DEF WritePackageFile, Goto
<1>2. ASSUME NEW p \in Publishers, Commit(p) PROVE FilesInv'
  BY <1>2 DEF Commit, Over, Goto
<1>3. ASSUME NEW p \in Publishers, Over(p), UNCHANGED <<rows, stored>> PROVE FilesInv'
  BY <1>3 DEF Over, Goto
<1>4. ASSUME NEW p \in Publishers, FindLatest(p) \/ Compare(p) \/ SaveSame(p) \/ SaveNew(p) \/ LockPackage(p)
      PROVE  FilesInv'
  BY <1>4 DEF FindLatest, Compare, SaveSame, SaveNew, LockPackage, Goto
<1>5. ASSUME NEW p \in Publishers, Refuse(p), ~Over(p) PROVE FilesInv'
  BY <1>5 DEF Refuse, Goto
<1>6. ASSUME NEW p \in Publishers, NEW f \in Files, NEW v \in Proposals, Publish(p, f, v) PROVE FilesInv'
  BY <1>6 DEF Publish, Goto
<1>7. ASSUME NEW v \in rows, DeleteVersion(v) PROVE FilesInv'
  BY <1>7 DEF DeleteVersion, publisherVars
<1>8. ASSUME NEW p \in Publishers, SaveFails(p) \/ ComparisonFails(p) \/ Fail(p)
      PROVE  Over(p) /\ UNCHANGED <<rows, stored>>
  BY <1>8 DEF SaveFails, ComparisonFails, Fail
<1>9. ASSUME NEW p \in Publishers, Refuse(p) PROVE UNCHANGED <<rows, stored>>
  BY <1>9 DEF Refuse
<1> QED BY <1>1, <1>2, <1>3, <1>4, <1>5, <1>6, <1>7, <1>8, <1>9 DEF Next, Progress

LEMMA NewStep ==
    ASSUME Types, Apart, NewInv, Next PROVE NewInv'
<1> USE DEF Types, NewInv, Holding
<1>1. ASSUME NEW p \in Publishers, SaveSame(p) \/ SaveNew(p) PROVE NewInv'
  BY <1>1 DEF SaveSame, SaveNew, Same, Goto
<1>2. ASSUME NEW p \in Publishers, Commit(p) PROVE NewInv'
  BY <1>2 DEF Commit, Over, Goto, Apart
<1>3. ASSUME NEW p \in Publishers, Over(p), rows' = rows PROVE NewInv'
  BY <1>3 DEF Over, Goto
<1>4. ASSUME NEW p \in Publishers, FindLatest(p) \/ Compare(p) \/ LockPackage(p) \/ WritePackageFile(p)
      PROVE  NewInv'
  BY <1>4 DEF FindLatest, Compare, LockPackage, WritePackageFile, Goto
<1>5. ASSUME NEW p \in Publishers, Refuse(p), ~Over(p) PROVE NewInv'
  BY <1>5 DEF Refuse, Goto
<1>6. ASSUME NEW p \in Publishers, NEW f \in Files, NEW v \in Proposals, Publish(p, f, v) PROVE NewInv'
  BY <1>6 DEF Publish, Goto
<1>7. ASSUME NEW v \in rows, DeleteVersion(v) PROVE NewInv'
  BY <1>7 DEF DeleteVersion, publisherVars
<1>8. ASSUME NEW p \in Publishers, SaveFails(p) \/ ComparisonFails(p) \/ Fail(p)
      PROVE  Over(p) /\ rows' = rows
  BY <1>8 DEF SaveFails, ComparisonFails, Fail
<1>9. ASSUME NEW p \in Publishers, Refuse(p) PROVE rows' = rows
  BY <1>9 DEF Refuse
<1> QED BY <1>1, <1>2, <1>3, <1>4, <1>5, <1>6, <1>7, <1>8, <1>9 DEF Next, Progress

\* What a step does to the rows.
LEMMA RowsStep ==
    ASSUME Next PROVE rows' \subseteq rows \/ \E p \in Publishers : Commit(p)
BY DEF Next, Progress, FindLatest, Compare, SaveSame, SaveNew, SaveFails, Refuse, LockPackage,
       ComparisonFails, WritePackageFile, Fail, Publish, DeleteVersion

LEMMA MaxStep ==
    ASSUME Types, MaxInv, Next PROVE MaxInv'
<1>1. CASE rows' \subseteq rows
  BY <1>1 DEF MaxInv
<1>2. ASSUME NEW p \in Publishers, Commit(p) PROVE MaxInv'
  <2> DEFINE x == version[p]
  <2>1. x \in Versions /\ rows \subseteq Versions /\ rows' = rows \cup {x}
    BY <1>2 DEF Types, Commit
  <2> SUFFICES ASSUME NEW S \in SUBSET (rows \cup {x}), S # {}
               PROVE  \E v \in S : \A w \in S : ~Below(v, w)
    BY <2>1 DEF MaxInv
  <2> HIDE DEF x
  <2>2. CASE S \ {x} = {}
    <3>1. S = {x}
      BY <2>2
    <3>2. ~Below(x, x)
      BY <2>1, BelowFact
    <3> QED BY <3>1, <3>2
  <2>3. CASE S \ {x} # {}
    <3>1. PICK m \in S \ {x} : \A w \in S \ {x} : ~Below(m, w)
      BY <2>3 DEF MaxInv
    <3>2. m \in Versions /\ S \subseteq Versions
      BY <2>1
    <3>3. CASE Below(m, x)
      <4>1. ~Below(x, x) /\ ~Below(x, m)
        BY <2>1, <3>2, <3>3, BelowFact
      <4>2. ASSUME NEW w \in S \ {x} PROVE ~Below(x, w)
        BY <2>1, <3>1, <3>2, <4>1, <4>2, BelowFact
      <4>3. x \in S \/ x \notin S
        OBVIOUS
      <4> QED BY <3>1, <4>1, <4>2, <4>3
    <3> QED BY <3>1, <3>3
  <2> QED BY <2>2, <2>3
<1> QED BY <1>1, <1>2, RowsStep

-----------------------------------------------------------------------------
(* Publications that follow one another.                                   *)

\* The version found shows what all of its major number show.
LEMMA FindLatestTurn ==
    ASSUME Types, FilesInv, MaxInv, Keeps(rows), NEW p \in Publishers, FindLatest(p)
    PROVE  LatestInv(p)'
<1>1. rows' = rows /\ stored' = stored
  BY DEF FindLatest
<1>2. /\ rows = {} => latest'[p] = None
      /\ rows # {} => latest'[p] \in rows /\ \A w \in rows : ~Below(latest'[p], w)
  BY LatestFact
<1>3. CASE rows = {}
  BY <1>1, <1>2, <1>3 DEF LatestInv
<1>4. CASE rows # {}
  <2> DEFINE m == latest'[p]
  <2>1. m \in rows /\ m \in Versions /\ m # None /\ \A w \in rows : ~Below(m, w)
    BY <1>2, <1>4, VersionsAssumption DEF Types
  <2>2. ASSUME NEW v \in rows, v[1] = m[1] PROVE Shown(stored[v]) \subseteq Shown(stored[m])
    <3>1. v = m \/ Below(v, m)
      BY <2>1, BelowFact DEF Types
    <3> QED BY <2>1, <2>2, <3>1 DEF Keeps
  <2>3. stored[m] # None
    BY <2>1 DEF FilesInv, RowHasFile
  <2> QED BY <1>1, <2>1, <2>2, <2>3 DEF LatestInv
<1> QED BY <1>3, <1>4

\* A publication that has not been refused is above what it is compared with,
\* and in another major number when something breaks.
LEMMA AcceptedFact ==
    ASSUME Types, NEW p \in Publishers, phase[p] = "writing", Turn(p), latest[p] # None
    PROVE  /\ latest[p] \in Versions /\ stored[latest[p]] \in Files
           /\ compat[p] = DiffCompatibility(
                             Differences(stored[latest[p]], latest[p], file[p], version[p]))
           /\ ~Below(version[p], latest[p])
           /\ compat[p] = BreakingChange => latest[p][1] < version[p][1]
<1> DEFINE x == version[p]
           l == latest[p]
           c == DiffCompatibility(Differences(stored[l], l, file[p], x))
<1>1. LatestInv(p) /\ CompatInv(p) /\ ~Refused(p)
  BY DEF Turn
<1>2. x \in Versions /\ l \in Versions
  BY DEF Types
<1>3. stored[l] \in Files
  BY <1>1, <1>2 DEF LatestInv, Types
<1>4. compat[p] = c
  BY <1>1 DEF CompatInv
<1>5. c \in Identical..BreakingChange
  BY DiffCompatibilityType
<1>6. c = Identical => l = x
  BY IdenticalFact
<1>7. c # Identical => ~Below(x, NextVersion(l, c))
  <2>1. c # None
    BY <1>5, VersionsAssumption
  <2> QED BY <1>1, <1>4, <2>1 DEF Refused, Same, Required
<1> HIDE DEF c
<1>8. c # Identical => Below(l, x) /\ (c = BreakingChange => l[1] < x[1])
  BY <1>2, <1>5, <1>7, NextVersionFact
<1>9. BreakingChange # Identical
  BY DEF Identical, BreakingChange
<1>10. ~Below(x, l)
  BY <1>2, <1>6, <1>8, BelowFact
<1> QED BY <1>2, <1>3, <1>4, <1>8, <1>9, <1>10 DEF c

\* Nothing that can be found is above the version that is written.
LEMMA AboveAll ==
    ASSUME Types, NEW p \in Publishers, phase[p] = "writing", Turn(p)
    PROVE  \A w \in rows : ~Below(version[p], w)
<1>1. LatestInv(p)
  BY DEF Turn
<1>2. CASE latest[p] = None
  BY <1>1, <1>2 DEF LatestInv
<1>3. CASE latest[p] # None
  <2>1. /\ latest[p] \in Versions /\ version[p] \in Versions /\ rows \subseteq Versions
        /\ ~Below(version[p], latest[p]) /\ \A w \in rows : ~Below(latest[p], w)
    BY <1>1, <1>3, AcceptedFact DEF Types, LatestInv
  <2> QED BY <2>1, BelowFact
<1> QED BY <1>2, <1>3

\* The new file keeps what the versions before it show.
LEMMA WriteTurn ==
    ASSUME Types, Keeps(rows), NEW p \in Publishers, WritePackageFile(p), Turn(p)
    PROVE  Keeps(rows \cup {version[p]})'
<1> DEFINE x == version[p]
           g == file[p]
           l == latest[p]
<1>1. /\ x \in Versions /\ g \in Files /\ rows \subseteq Versions /\ phase[p] = "writing"
      /\ rows' = rows /\ version' = version
      /\ stored'[x] = g /\ \A v \in Versions \ {x} : stored'[v] = stored[v]
  BY DEF WritePackageFile, Types
<1>2. LatestInv(p) /\ \A u \in rows : ~Below(x, u)
  BY <1>1, AboveAll DEF Turn
<1>3. ~Below(x, x)
  BY <1>1, BelowFact
<1> SUFFICES ASSUME NEW v \in rows \cup {x}, NEW w \in rows \cup {x}, v[1] = w[1], Below(v, w)
             PROVE  Shown(stored'[v]) \subseteq Shown(stored'[w])
  BY <1>1 DEF Keeps
<1>4. v \in rows /\ v # x
  BY <1>2, <1>3
<1>5. CASE w # x
  BY <1>1, <1>4, <1>5 DEF Keeps
<1>6. CASE w = x
  <2>1. l # None
    BY <1>2, <1>4 DEF LatestInv
  <2>2. /\ ~Below(l, v)
        /\ v[1] = l[1] => Shown(stored[v]) \subseteq Shown(stored[l])
    BY <1>2, <1>4, <2>1 DEF LatestInv
  <2>3. l \in Versions /\ stored[l] \in Files /\ ~Below(x, l)
    BY <1>1, <2>1, AcceptedFact
  <2>4. v[1] <= l[1] /\ l[1] <= x[1] /\ v[1] \in Nat /\ l[1] \in Nat /\ x[1] \in Nat
    BY <1>1, <1>4, <2>2, <2>3, BelowFact
  <2>5. v[1] = l[1] /\ l[1] = x[1]
    BY <1>6, <2>4
  <2>6. DiffCompatibility(Differences(stored[l], l, g, x)) # BreakingChange
    <3>1. ~(l[1] < x[1])
      BY <2>4, <2>5
    <3>2. compat[p] # BreakingChange
      BY <1>1, <2>1, <3>1, AcceptedFact
    <3> QED BY <1>1, <2>1, <3>2, AcceptedFact
  <2>7. Shown(stored[l]) \subseteq Shown(g)
    BY <1>1, <2>3, <2>6, KeptFact
  <2> QED BY <1>1, <1>4, <1>6, <2>2, <2>5, <2>7
<1> QED BY <1>5, <1>6

\* What LatestInv, CompatInv and Refused say of p does not change.
LEMMA TurnKept ==
    ASSUME NEW p \in Publishers, Types, Turn(p), ~(phase[p] = "idle"),
           UNCHANGED <<rows, stored, file, version, latest, compat>>,
           phase'[p] \in {"saved", "writing"}, phase[p] \in {"saved", "writing"}
    PROVE  Turn(p)'
BY DEF Turn, LatestInv, CompatInv, Refused, Same, Required

\* A publication that is on its own and moves to ph.
LEMMA AloneStep ==
    ASSUME Types, InTurn, NEW p \in Publishers, phase[p] # "idle", NEW ph, Goto(p, ph),
           Turn(p)', Keeps(rows)'
    PROVE  InTurn'
<1>1. \A q \in Publishers \ {p} : phase'[q] = "idle"
  BY DEF Goto, InTurn, Types
<1>2. \A q \in Publishers \ {p} : Turn(q)'
  BY <1>1 DEF Turn
<1> QED BY <1>1, <1>2 DEF InTurn

LEMMA OverStep ==
    ASSUME Types, InTurn, NEW p \in Publishers, phase[p] # "idle", Over(p), Keeps(rows)'
    PROVE  InTurn'
<1>1. phase'[p] = "idle"
  BY DEF Over, Goto, Types
<1>2. Turn(p)'
  BY <1>1 DEF Turn
<1> QED BY <1>2, AloneStep DEF Over

LEMMA InTurnStep ==
    ASSUME Inv, ~overlapped', Next PROVE InTurn'
<1>1. ~overlapped
  <2>1. CASE overlapped' = overlapped
    BY <2>1
  <2>2. ASSUME NEW p \in Publishers, NEW f \in Files, NEW v \in Proposals, Publish(p, f, v)
        PROVE  ~overlapped
    BY <2>2 DEF Publish
  <2> QED BY <2>1, <2>2
          DEF Next, Progress, FindLatest, Compare, SaveSame, SaveNew, SaveFails, Refuse, LockPackage,
              ComparisonFails, WritePackageFile, Commit, Fail, DeleteVersion
<1>2. /\ Types /\ FilesInv /\ MaxInv /\ InTurn
      /\ Keeps(rows) /\ \A p \in Publishers : Turn(p)
  BY <1>1 DEF Inv, InTurn
<1>3. ASSUME UNCHANGED <<rows, stored>> PROVE Keeps(rows)'
  BY <1>2, <1>3 DEF Keeps
<1>4. ASSUME NEW p \in Publishers, FindLatest(p) PROVE InTurn'
  <2>1. LatestInv(p)' /\ phase'[p] = "reading"
    BY <1>2, <1>4, FindLatestTurn DEF FindLatest, Goto, Types
  <2>2. Turn(p)'
    BY <2>1 DEF Turn
  <2> QED BY <1>2, <1>3, <1>4, <2>2, AloneStep DEF FindLatest
<1>5. ASSUME NEW p \in Publishers, Compare(p) PROVE InTurn'
  <2>1. LatestInv(p)'
    BY <1>2, <1>5 DEF Compare, Turn, LatestInv
  <2>2. CompatInv(p)'
    BY <1>2, <1>5 DEF Compare, CompatInv, Types
  <2>3. phase'[p] = "saving"
    BY <1>2, <1>5 DEF Compare, Goto, Types
  <2>4. Turn(p)'
    BY <2>1, <2>2, <2>3 DEF Turn
  <2> QED BY <1>2, <1>3, <1>5, <2>4, AloneStep DEF Compare
<1>6. ASSUME NEW p \in Publishers, SaveSame(p) \/ SaveNew(p) PROVE InTurn'
  <2>1. /\ phase[p] = "saving" /\ phase'[p] = "saved" /\ Goto(p, "saved") /\ ~Refused(p)
        /\ UNCHANGED <<rows, stored, file, version, latest, compat>>
    BY <1>2, <1>6 DEF SaveSame, SaveNew, Goto, Types, Refused
  <2>2. LatestInv(p)' /\ CompatInv(p)' /\ ~Refused(p)'
    BY <1>2, <2>1 DEF Turn, LatestInv, CompatInv, Refused, Same, Required
  <2>3. Turn(p)'
    BY <2>1, <2>2 DEF Turn
  <2> QED BY <1>2, <1>3, <2>1, <2>3, AloneStep
<1>7. ASSUME NEW p \in Publishers, LockPackage(p) PROVE InTurn'
  <2>1. /\ phase[p] = "saved" /\ phase'[p] = "writing" /\ Goto(p, "writing")
        /\ UNCHANGED <<rows, stored, file, version, latest, compat>>
    BY <1>2, <1>7 DEF LockPackage, Goto, Types
  <2>2. Turn(p)'
    BY <1>2, <2>1, TurnKept
  <2> QED BY <1>2, <1>3, <2>1, <2>2, AloneStep
<1>8. ASSUME NEW p \in Publishers, WritePackageFile(p) PROVE InTurn'
  <2>1. phase[p] = "writing" /\ phase'[p] = "written" /\ Goto(p, "written")
    BY <1>2, <1>8 DEF WritePackageFile, Goto, Types
  <2>2. Keeps(rows \cup {version[p]})'
    BY <1>2, <1>8, WriteTurn
  <2>3. Keeps(rows)'
    BY <2>2 DEF Keeps
  <2>4. (\A w \in rows : ~Below(version[p], w))'
    BY <1>2, <1>8, <2>1, AboveAll DEF WritePackageFile
  <2>5. Turn(p)'
    BY <2>1, <2>2, <2>4 DEF Turn
  <2> QED BY <1>2, <2>1, <2>3, <2>5, AloneStep
<1>9. ASSUME NEW p \in Publishers, Commit(p) PROVE InTurn'
  <2>1. Keeps(rows \cup {version[p]})
    BY <1>2, <1>9 DEF Commit, Turn
  <2>2. Keeps(rows)'
    BY <1>9, <2>1 DEF Commit, Keeps
  <2> QED BY <1>2, <1>9, <2>2, OverStep DEF Commit
<1>10. ASSUME NEW p \in Publishers, SaveFails(p) \/ ComparisonFails(p) \/ Fail(p) PROVE InTurn'
  <2>1. Over(p) /\ phase[p] # "idle" /\ UNCHANGED <<rows, stored>>
    BY <1>10 DEF SaveFails, ComparisonFails, Fail
  <2> QED BY <1>2, <1>3, <2>1, OverStep
<1>11. ASSUME NEW p \in Publishers, Refuse(p) PROVE InTurn'
  <2>1. phase[p] # "idle" /\ UNCHANGED <<rows, stored>> /\ (Over(p) \/ Goto(p, "finding"))
    BY <1>11 DEF Refuse
  <2>2. CASE Over(p)
    BY <1>2, <1>3, <2>1, <2>2, OverStep
  <2>3. CASE Goto(p, "finding")
    <3>1. phase'[p] = "finding"
      BY <1>2, <2>3 DEF Goto, Types
    <3>2. Turn(p)'
      BY <3>1 DEF Turn
    <3> QED BY <1>2, <1>3, <2>1, <2>3, <3>2, AloneStep
  <2> QED BY <2>1, <2>2, <2>3
<1>12. ASSUME NEW p \in Publishers, NEW f \in Files, NEW v \in Proposals, Publish(p, f, v) PROVE InTurn'
  <2>1. \A q \in Publishers : phase[q] = "idle"
    BY <1>1, <1>12 DEF Publish
  <2>2. \A q \in Publishers : phase'[q] = IF q = p THEN "finding" ELSE "idle"
    BY <1>2, <1>12, <2>1 DEF Publish, Goto, Types
  <2>3. \A q \in Publishers : Turn(q)'
    BY <2>2 DEF Turn
  <2>4. Keeps(rows)'
    BY <1>3, <1>12 DEF Publish
  <2> QED BY <2>2, <2>3, <2>4 DEF InTurn
<1>13. ASSUME NEW v \in rows, DeleteVersion(v) PROVE InTurn'
  <2>1. rows' \subseteq rows /\ stored' = stored /\ UNCHANGED publisherVars
    BY <1>13 DEF DeleteVersion
  <2>2. Keeps(rows)'
    BY <1>2, <2>1 DEF Keeps
  <2>3. ASSUME NEW p \in Publishers PROVE Turn(p)'
    <3>1. /\ LatestInv(p) => LatestInv(p)'
          /\ CompatInv(p) => CompatInv(p)'
          /\ Refused(p)' <=> Refused(p)
      BY <2>1 DEF LatestInv, CompatInv, Refused, Same, Required, publisherVars
    <3>2. /\ Keeps(rows \cup {version[p]}) => Keeps(rows \cup {version[p]})'
          /\ (\A w \in rows : ~Below(version[p], w)) => (\A w \in rows : ~Below(version[p], w))'
      BY <2>1 DEF Keeps, publisherVars
    <3>3. Turn(p) /\ phase' = phase
      BY <1>2, <2>1 DEF publisherVars
    <3> QED BY <3>1, <3>2, <3>3 DEF Turn
  <2> QED BY <1>2, <2>1, <2>2, <2>3 DEF InTurn, publisherVars
<1> QED BY <1>4, <1>5, <1>6, <1>7, <1>8, <1>9, <1>10, <1>11, <1>12, <1>13 DEF Next, Progress

-----------------------------------------------------------------------------
(* The inductive invariant, and what follows from it.                      *)

LEMMA InitInv == ASSUME Init PROVE Inv
<1>1. Types
  <2>1. 0 \in 0..MaxPublications /\ 0 \in 0..MaxFailures /\ 0 \in 0..MaxDeletes
    BY VersionsAssumption
  <2> QED BY <2>1 DEF Init, Types
<1>2. Apart /\ FilesInv /\ NewInv /\ MaxInv
  BY DEF Init, Apart, FilesInv, RowHasFile, NewInv, MaxInv, Holding
<1>3. InTurn
  BY DEF Init, InTurn, Keeps, Turn
<1> QED BY <1>1, <1>2, <1>3 DEF Inv

LEMMA StepInv == ASSUME Inv, [Next]_vars PROVE Inv'
<1>1. CASE Next
  <2>1. Types' /\ Apart' /\ FilesInv' /\ NewInv' /\ MaxInv'
    BY <1>1, TypesStep, ApartStep, FilesStep, NewStep, MaxStep DEF Inv
  <2>2. overlapped' \/ InTurn'
    BY <1>1, InTurnStep
  <2> QED BY <2>1, <2>2 DEF Inv
<1>2. CASE UNCHANGED vars
  <2>1. Types' /\ Apart' /\ FilesInv' /\ NewInv' /\ MaxInv'
    BY <1>2 DEF Inv, vars, publisherVars, countVars, Types, Apart, FilesInv, RowHasFile, NewInv, MaxInv
  <2>2. ASSUME NEW p \in Publishers PROVE Turn(p) => Turn(p)'
    BY <1>2 DEF vars, publisherVars, Turn, LatestInv, CompatInv, Refused, Same, Required, Keeps
  <2>3. Keeps(rows) => Keeps(rows)'
    BY <1>2 DEF vars, Keeps
  <2>4. InTurn => InTurn'
    BY <1>2, <2>2, <2>3 DEF vars, publisherVars, InTurn
  <2> QED BY <1>2, <2>1, <2>4 DEF Inv, vars
<1> QED BY <1>1, <1>2

LEMMA Invariance == Spec => []Inv
BY InitInv, StepInv, PTL DEF Spec

\* However many publish at once, no two publications hold the row of one
\* version number: the second to save it waits for the first.
THEOREM Typing == Spec => []TypeOK
<1>1. ASSUME Inv, NEW v \in Versions PROVE Cardinality(Holders(v)) <= 1
  <2>1. CASE Holders(v) = {}
    BY <2>1, FS_EmptySet
  <2>2. CASE Holders(v) # {}
    <3>1. PICK p \in Publishers : p \in Holders(v)
      BY <2>2 DEF Holders
    <3>2. Holders(v) = {p}
      BY <1>1, <3>1 DEF Inv, Apart, Holders
    <3>3. Cardinality({p}) = 1
      BY FS_Singleton
    <3> QED BY <3>2, <3>3
  <2> QED BY <2>1, <2>2
<1>2. Inv => TypeOK
  BY <1>1 DEF Inv, Types, TypeOK
<1> QED BY <1>2, Invariance, PTL

\* Whatever publications fail, overlap or are refused, every version that can be
\* found has its package file.
THEOREM FileBeforeRow == Spec => []RowHasFile
<1>1. Inv => RowHasFile
  BY DEF Inv, FilesInv
<1> QED BY <1>1, Invariance, PTL

\* Comparing with the latest version alone is enough for all versions of a
\* major number to keep what the ones before them show, whatever has been
\* deleted, as long as no two publications overlap.
THEOREM MajorKeeps == Spec => []SameMajorKeeps
<1>1. Inv => SameMajorKeeps
  BY DEF Inv, InTurn, Keeps, SameMajorKeeps
<1> QED BY <1>1, Invariance, PTL

\* The file of a version that can be found changes only by a publication
\* without changes that count, overlapping or not.
THEOREM FilesStay == Spec => ReplacedOnlyBySame
<1>1. ASSUME Inv, [Next]_vars
      PROVE  \A v \in rows : stored'[v] # stored[v] =>
                \E p \in Holders(v) : phase[p] = "writing" /\ compat[p] = Identical
  <2>1. stored' = stored \/ \E p \in Publishers : WritePackageFile(p)
    BY <1>1 DEF Next, Progress, FindLatest, Compare, SaveSame, SaveNew, SaveFails, Refuse, LockPackage,
                ComparisonFails, Commit, Fail, Publish, DeleteVersion, vars
  <2>2. ASSUME NEW p \in Publishers, WritePackageFile(p), NEW v \in rows, stored'[v] # stored[v]
        PROVE  p \in Holders(v) /\ phase[p] = "writing" /\ compat[p] = Identical
    <3>1. phase[p] = "writing" /\ version[p] = v
      BY <1>1, <2>2 DEF WritePackageFile, Inv, Types
    <3>2. compat[p] = Identical
      BY <1>1, <3>1 DEF Inv, NewInv, Holding
    <3> QED BY <3>1, <3>2 DEF Holders, Holding
  <2> QED BY <2>1, <2>2
<1>2. Inv /\ [Next]_vars =>
         [\A v \in rows : stored'[v] # stored[v] =>
             \E p \in Holders(v) : phase[p] = "writing" /\ compat[p] = Identical]_vars
  BY <1>1
<1> QED BY <1>2, Invariance, PTL DEF Spec, ReplacedOnlyBySame

\* A publication ends with a version that appears.
LEMMA VersionAppears ==
    ASSUME Inv, NEW p \in Publishers, Commit(p)
    PROVE  [Store!Next]_(Store!storeVars)
<1> DEFINE x == version[p]
<1>1. /\ x \in Versions /\ rows \subseteq Versions /\ rows' = rows \cup {x} /\ stored' = stored
      /\ overlapped' = overlapped /\ phase[p] = "written"
  BY DEF Commit, Inv, Types
<1>2. \A v \in rows \cup {x} : stored[v] \in Files
  BY <1>1 DEF Inv, FilesInv, RowHasFile, Types
<1>3. CASE x \in rows
  <2>1. Findable' = Findable
    BY <1>1, <1>3 DEF Findable
  <2> QED BY <1>1, <2>1 DEF Store!storeVars
<1>4. CASE x \notin rows
  <2>1. Findable' = [w \in DOMAIN Findable \cup {x} |-> IF w = x THEN stored[x] ELSE Findable[w]]
    BY <1>1, <1>4 DEF Findable
  <2>2. ASSUME ~overlapped
        PROVE  /\ Store!Highest(x)
               /\ \A w \in DOMAIN Findable :
                     <<w, x>> \in OneMajor => <<Findable[w], stored[x]>> \in KeepsShown
    <3>1. Keeps(rows \cup {x}) /\ \A w \in rows : ~Below(x, w)
      BY <1>1, <2>2 DEF Inv, InTurn, Turn
    <3>2. Store!Highest(x)
      BY <3>1 DEF Store!Highest, Findable, OrderOfVersions
    <3>3. ASSUME NEW w \in rows, w[1] = x[1] PROVE Shown(stored[w]) \subseteq Shown(stored[x])
      <4>1. Below(w, x)
        BY <1>1, <1>4, <3>1, BelowFact
      <4> QED BY <3>1, <3>3, <4>1 DEF Keeps
    <3> QED BY <1>2, <3>2, <3>3 DEF Findable, OneMajor, KeepsShown
  <2>3. Store!Appear(x, stored[x])
    BY <1>1, <1>4, <2>1, <2>2 DEF Store!Appear, Findable
  <2> QED BY <1>1, <1>2, <2>3 DEF Store!Next
<1> QED BY <1>3, <1>4

\* The file of a version is there before the version appears; that of a version
\* that can be found changes in nothing that counts.
LEMMA FileChanges ==
    ASSUME Inv, NEW p \in Publishers, WritePackageFile(p)
    PROVE  [Store!Next]_(Store!storeVars)
<1> DEFINE x == version[p]
           g == file[p]
<1>1. /\ x \in Versions /\ g \in Files /\ rows \subseteq Versions /\ rows' = rows
      /\ overlapped' = overlapped /\ phase[p] = "writing"
      /\ stored'[x] = g /\ \A v \in Versions \ {x} : stored'[v] = stored[v]
  BY DEF WritePackageFile, Inv, Types
<1>2. CASE x \notin rows
  <2>1. Findable' = Findable
    BY <1>1, <1>2 DEF Findable
  <2> QED BY <1>1, <2>1 DEF Store!storeVars
<1>3. CASE x \in rows
  <2>1. compat[p] = Identical
    BY <1>1, <1>3 DEF Inv, NewInv, Holding
  <2>2. stored[x] \in Files
    BY <1>1, <1>3 DEF Inv, FilesInv, RowHasFile, Types
  <2>3. Findable' = [Findable EXCEPT ![x] = g]
    BY <1>1, <1>3 DEF Findable
  <2>4. ASSUME ~overlapped
        PROVE  Store!Highest(x) /\ <<x, Findable[x], g>> \in WithoutChange
    <3>1. Turn(p) /\ Types
      BY <2>4 DEF Inv, InTurn
    <3>2. Store!Highest(x)
      <4>1. \A w \in rows : ~Below(x, w)
        BY <1>1, <3>1, AboveAll
      <4> QED BY <4>1 DEF Store!Highest, Findable, OrderOfVersions
    <3>3. latest[p] # None
      <4>1. None # Identical
        BY VersionsAssumption DEF Identical, BreakingChange
      <4> QED BY <1>1, <2>1, <3>1, <4>1 DEF Turn, CompatInv
    <3>4. DiffCompatibility(Differences(stored[latest[p]], latest[p], g, x)) = Identical
      BY <1>1, <2>1, <3>1, <3>3, AcceptedFact
    <3>5. latest[p] = x
      BY <3>4, IdenticalFact
    <3> QED BY <1>1, <1>3, <2>2, <3>2, <3>4, <3>5 DEF WithoutChange, Findable
  <2>5. Store!Change(x, g)
    BY <1>1, <1>3, <2>3, <2>4 DEF Store!Change, Findable
  <2> QED BY <1>1, <2>5 DEF Store!Next
<1> QED BY <1>2, <1>3

\* Publications, with their retries, failures and overlaps, and deletions
\* implement PublishedVersions.
THEOREM PublishesVersions == Spec => ImplementsPublishedVersions
<1>1. Init => Store!Init
  <2> SUFFICES ASSUME Init PROVE Findable = <<>> /\ ~overlapped = TRUE
    BY DEF Store!Init
  <2> QED BY DEF Init, Findable
<1>2. Inv /\ [Next]_vars => [Store!Next]_(Store!storeVars)
  <2> SUFFICES ASSUME Inv, [Next]_vars PROVE [Store!Next]_(Store!storeVars)
    OBVIOUS
  <2>1. ASSUME UNCHANGED <<rows, stored, overlapped>> PROVE UNCHANGED Store!storeVars
    BY <2>1 DEF Store!storeVars, Findable
  <2>2. CASE UNCHANGED vars
    BY <2>1, <2>2 DEF vars
  <2>3. ASSUME NEW p \in Publishers,
               \/ FindLatest(p) \/ Compare(p) \/ SaveSame(p) \/ SaveNew(p) \/ SaveFails(p) \/ Refuse(p)
               \/ LockPackage(p) \/ ComparisonFails(p) \/ Fail(p)
        PROVE  UNCHANGED Store!storeVars
    BY <2>1, <2>3 DEF FindLatest, Compare, SaveSame, SaveNew, SaveFails, Refuse, LockPackage,
                      ComparisonFails, Fail
  <2>4. ASSUME NEW p \in Publishers, NEW f \in Files, NEW v \in Proposals, Publish(p, f, v)
        PROVE  [Store!Next]_(Store!storeVars)
    <3>1. /\ rows' = rows /\ stored' = stored
          /\ overlapped \in BOOLEAN /\ overlapped' \in {overlapped, TRUE}
      BY <2>4 DEF Publish, Inv, Types
    <3>2. Findable' = Findable
      BY <3>1 DEF Findable
    <3>3. CASE overlapped' = overlapped
      BY <2>1, <3>1, <3>3
    <3>4. CASE overlapped' = TRUE
      BY <3>2, <3>4 DEF Store!Overlap, Store!Next
    <3> QED BY <3>1, <3>3, <3>4
  <2>5. ASSUME NEW v \in rows, DeleteVersion(v) PROVE [Store!Next]_(Store!storeVars)
    <3>1. v \in Versions /\ rows' = rows \ {v} /\ stored' = stored /\ overlapped' = overlapped
      BY <2>5 DEF DeleteVersion, Inv, Types
    <3>2. Store!Go(v)
      BY <3>1 DEF Store!Go, Findable
    <3> QED BY <3>1, <3>2 DEF Store!Next
  <2> QED BY <2>2, <2>3, <2>4, <2>5, VersionAppears, FileChanges DEF Next, Progress
<1> QED BY <1>1, <1>2, Invariance, PTL DEF Spec, ImplementsPublishedVersions, Store!Spec

-----------------------------------------------------------------------------
(* Updates of packages.                                                    *)

\* What a tick is about to save is wanted, or a user has overtaken it.
StaleOnlyIfRaced ==
    \A t \in Ticks : tick[t].at # "off" =>
       \A e \in Unsaved(t) : e.content = wanted[e.package] \/ e.package \in raced

UpdatesInv ==
    /\ UpdatesTypeOK
    /\ StaleOnlyIfRaced
    /\ ChangesStand

-----------------------------------------------------------------------------
(* Sequences.                                                              *)

\* The first element and the rest of a sequence.
LEMMA FirstAndRest ==
    ASSUME NEW S, NEW s \in Seq(S), s # <<>>
    PROVE  /\ Head(s) \in S /\ Tail(s) \in Seq(S)
           /\ Head(s) \in ToSet(s) /\ ToSet(Tail(s)) \subseteq ToSet(s)
<1>1. Len(s) \in Nat \ {0} /\ Head(s) = s[1] /\ DOMAIN s = 1..Len(s)
  BY EmptySeq, HeadTailProperties
<1>2. /\ Tail(s) \in Seq(S) /\ Len(Tail(s)) = Len(s) - 1
      /\ \A i \in 1..Len(Tail(s)) : Tail(s)[i] = s[i + 1]
  BY HeadTailProperties
<1>3. DOMAIN Tail(s) = 1..Len(Tail(s))
  BY <1>2
<1> QED BY <1>1, <1>2, <1>3, ElementOfSeq DEF ToSet

\* The elements of a sequence from which one place is taken.
LEMMA RemoveAtElements ==
    ASSUME NEW S, NEW s \in Seq(S), NEW k \in 1..Len(s)
    PROVE  /\ RemoveAt(s, k) \in Seq(S)
           /\ Len(RemoveAt(s, k)) = Len(s) - 1
           /\ \A i \in 1..(Len(s) - 1) :
                 RemoveAt(s, k)[i] = IF i < k THEN s[i] ELSE s[i + 1]
<1> DEFINE a == SubSeq(s, 1, k - 1)
           b == SubSeq(s, k + 1, Len(s))
<1>1. a \in Seq(S) /\ Len(a) = k - 1 /\ \A i \in 1..(k - 1) : a[i] = s[i]
  BY SubSeqProperties
<1>2. b \in Seq(S) /\ Len(b) = Len(s) - k /\ \A i \in 1..(Len(s) - k) : b[i] = s[k + i]
  BY SubSeqProperties
<1>3. RemoveAt(s, k) = a \o b
  BY DEF RemoveAt
<1> HIDE DEF a, b
<1>4. /\ a \o b \in Seq(S) /\ Len(a \o b) = Len(a) + Len(b)
      /\ \A i \in 1..(Len(a) + Len(b)) :
            (a \o b)[i] = IF i <= Len(a) THEN a[i] ELSE b[i - Len(a)]
  BY <1>1, <1>2, ConcatProperties
<1> QED BY <1>1, <1>2, <1>3, <1>4

\* What an element added to the end does to a sequence without it.
LEMMA AppendElements ==
    ASSUME NEW S, NEW s \in Seq(S), NEW x \in S, IsInjective(s), x \notin ToSet(s)
    PROVE  /\ Append(s, x) \in Seq(S) /\ IsInjective(Append(s, x))
           /\ ToSet(Append(s, x)) = ToSet(s) \cup {x} /\ Len(Append(s, x)) = Len(s) + 1
<1>1. /\ Append(s, x) \in Seq(S) /\ Len(Append(s, x)) = Len(s) + 1
      /\ \A i \in 1..Len(s) : Append(s, x)[i] = s[i]
      /\ Append(s, x)[Len(s) + 1] = x
  BY AppendProperties
<1>2. DOMAIN s = 1..Len(s) /\ DOMAIN Append(s, x) = 1..(Len(s) + 1) /\ Len(s) \in Nat
  BY <1>1
<1>3. IsInjective(Append(s, x))
  BY <1>1, <1>2 DEF IsInjective, ToSet
<1>4. ToSet(Append(s, x)) \subseteq ToSet(s) \cup {x}
  BY <1>1, <1>2 DEF ToSet
<1>5. ToSet(s) \cup {x} \subseteq ToSet(Append(s, x))
  BY <1>1, <1>2 DEF ToSet
<1> QED BY <1>1, <1>3, <1>4, <1>5

-----------------------------------------------------------------------------
(* The order of the rows.                                                  *)

\* A package that is stored has a place.
LEMMA PlaceFact ==
    ASSUME OrderOK, NEW p \in Packages, row[p] # Deleted
    PROVE  Place(p) \in 1..Len(order) /\ order[Place(p)] = p
<1>1. p \in ToSet(order)
  BY DEF OrderOK
<1>2. \E i \in 1..Len(order) : order[i] = p
  BY <1>1 DEF OrderOK, ToSet
<1> QED BY <1>2 DEF Place

\* Taking a row out of the order leaves the others, each once.
LEMMA WithoutFact ==
    ASSUME OrderOK, NEW p \in Packages
    PROVE  /\ Without(p) \in Seq(Packages) /\ IsInjective(Without(p))
           /\ ToSet(Without(p)) = ToSet(order) \ {p}
           /\ DueWithout(p) \in 0..Len(Without(p))
<1>0. order \in Seq(Packages) /\ IsInjective(order) /\ due \in 0..Len(order) /\ Len(order) \in Nat
  BY DEF OrderOK
<1>1. CASE row[p] = Deleted
  <2>1. p \notin ToSet(order)
    BY <1>1 DEF OrderOK
  <2> QED BY <1>0, <1>1, <2>1 DEF Without, DueWithout
<1>2. CASE row[p] # Deleted
  <2> DEFINE k == Place(p)
             w == RemoveAt(order, k)
  <2>1. k \in 1..Len(order) /\ order[k] = p
    BY <1>2, PlaceFact
  <2>2. /\ w \in Seq(Packages) /\ Len(w) = Len(order) - 1
        /\ \A i \in 1..(Len(order) - 1) : w[i] = IF i < k THEN order[i] ELSE order[i + 1]
    BY <1>0, <2>1, RemoveAtElements
  <2>3. Without(p) = w
    BY <1>2 DEF Without
  <2>4. DueWithout(p) = IF k <= due THEN due - 1 ELSE due
    BY <1>2 DEF DueWithout
  <2> HIDE DEF k, w
  <2>5. /\ DOMAIN w = 1..(Len(order) - 1) /\ DOMAIN order = 1..Len(order)
        /\ \A i, j \in 1..Len(order) : order[i] = order[j] => i = j
    BY <1>0, <2>2 DEF IsInjective
  <2>6. IsInjective(w)
    <3> SUFFICES ASSUME NEW i \in 1..(Len(order) - 1), NEW j \in 1..(Len(order) - 1), w[i] = w[j]
                 PROVE  i = j
      BY <2>5 DEF IsInjective
    <3> DEFINE f(n) == IF n < k THEN n ELSE n + 1
    <3>1. f(i) \in 1..Len(order) /\ f(j) \in 1..Len(order)
      BY <1>0, <2>1
    <3>2. order[f(i)] = order[f(j)]
      BY <2>2
    <3>3. f(i) = f(j)
      BY <2>5, <3>1, <3>2
    <3> QED BY <1>0, <2>1, <3>3
  <2>7. ToSet(w) \subseteq ToSet(order) \ {p}
    <3> SUFFICES ASSUME NEW i \in 1..(Len(order) - 1)
                 PROVE  w[i] \in ToSet(order) /\ w[i] # p
      BY <2>5 DEF ToSet
    <3> DEFINE m == IF i < k THEN i ELSE i + 1
    <3>1. m \in 1..Len(order) /\ m # k
      BY <1>0, <2>1
    <3>2. w[i] = order[m]
      BY <2>2
    <3> HIDE DEF m
    <3>3. w[i] # p
      BY <2>1, <2>5, <3>1, <3>2
    <3> QED BY <2>5, <3>1, <3>2, <3>3 DEF ToSet
  <2>8. ToSet(order) \ {p} \subseteq ToSet(w)
    <3> SUFFICES ASSUME NEW i \in 1..Len(order), order[i] # p
                 PROVE  \E j \in 1..(Len(order) - 1) : w[j] = order[i]
      BY <2>5 DEF ToSet
    <3>1. i # k
      BY <2>1
    <3>2. CASE i < k
      BY <1>0, <2>1, <2>2, <3>2
    <3>3. CASE i > k
      <4>1. i - 1 \in 1..(Len(order) - 1) /\ ~(i - 1 < k)
        BY <1>0, <2>1, <3>3
      <4> QED BY <2>2, <4>1
    <3> QED BY <1>0, <2>1, <3>1, <3>2, <3>3
  <2>9. DueWithout(p) \in 0..Len(w)
    BY <1>0, <2>1, <2>2, <2>4
  <2> QED BY <2>2, <2>3, <2>6, <2>7, <2>8, <2>9
<1> QED BY <1>1, <1>2

-----------------------------------------------------------------------------
(* The steps.                                                              *)

\* The first state.
LEMMA FirstUpdatesInv == UpdatesInit => UpdatesInv
<1> SUFFICES ASSUME UpdatesInit PROVE UpdatesInv
  OBVIOUS
<1> USE ConstantsAssumption
<1>1. order \in [1..Cardinality(Packages) -> Packages] /\ IsInjective(order)
      /\ ToSet(order) = Packages
  <2>1. Cardinality(Packages) \in Nat /\ ExistsBijection(1..Cardinality(Packages), Packages)
    BY FS_CardinalityType
  <2>2. PICK f \in [1..Cardinality(Packages) -> Packages] : IsInjective(f)
    BY <2>1 DEF ExistsBijection, Bijection, Injection
  <2>3. order \in [1..Cardinality(Packages) -> Packages] /\ IsInjective(order)
    BY <2>2 DEF UpdatesInit, SetToSeq
  <2>4. order \in Injection(1..Cardinality(Packages), Packages)
    BY <2>3 DEF Injection
  <2>5. Cardinality(1..Cardinality(Packages)) = Cardinality(Packages)
    BY <2>1, FS_Interval
  <2>6. order \in Surjection(1..Cardinality(Packages), Packages)
    BY <2>4, <2>5, FS_Injection
  <2> QED BY <2>3, <2>6 DEF Surjection, ToSet
<1>2. OrderOK
  <2>1. Cardinality(Packages) \in Nat
    BY FS_CardinalityType
  <2>2. order \in Seq(Packages) /\ Len(order) \in Nat
    BY <1>1, <2>1
  <2>3. \A p \in Packages : row[p] # Deleted
    BY DEF UpdatesInit
  <2> QED BY <1>1, <2>2, <2>3 DEF UpdatesInit, OrderOK
<1>3. UpdatesTypeOK
  BY <1>2 DEF UpdatesInit, UpdatesTypeOK, TickType, Contents, Off
<1>4. StaleOnlyIfRaced /\ ChangesStand
  BY DEF UpdatesInit, StaleOnlyIfRaced, ChangesStand, Off
<1> QED BY <1>3, <1>4 DEF UpdatesInv

\* A row is saved at the end of the order, whether it was there before or not.
LEMMA MovedToEnd ==
    ASSUME OrderOK, NEW p \in Packages, NEW content \in Contents,
           row \in [Packages -> Contents \cup {Deleted}],
           row' = [row EXCEPT ![p] = content],
           order' = Append(Without(p), p), due' = DueWithout(p)
    PROVE  OrderOK'
<1>1. /\ Without(p) \in Seq(Packages) /\ IsInjective(Without(p))
      /\ ToSet(Without(p)) = ToSet(order) \ {p} /\ DueWithout(p) \in 0..Len(Without(p))
  BY WithoutFact
<1>2. /\ order' \in Seq(Packages) /\ IsInjective(order')
      /\ ToSet(order') = (ToSet(order) \ {p}) \cup {p} /\ Len(order') = Len(Without(p)) + 1
  BY <1>1, AppendElements
<1>3. (ToSet(order) \ {p}) \cup {p} = {q \in Packages : row'[q] # Deleted}
  BY ConstantsAssumption DEF OrderOK, Contents
<1>4. due' \in 0..Len(order')
  BY <1>1, <1>2
<1> QED BY <1>2, <1>3, <1>4 DEF OrderOK

\* A row that is deleted leaves the order.
LEMMA LeavesOrder ==
    ASSUME OrderOK, NEW p \in Packages, row \in [Packages -> Contents \cup {Deleted}],
           row' = [row EXCEPT ![p] = Deleted],
           order' = Without(p), due' = DueWithout(p)
    PROVE  OrderOK'
<1>1. /\ Without(p) \in Seq(Packages) /\ IsInjective(Without(p))
      /\ ToSet(Without(p)) = ToSet(order) \ {p} /\ DueWithout(p) \in 0..Len(Without(p))
  BY WithoutFact
<1>2. ToSet(order) \ {p} = {q \in Packages : row'[q] # Deleted}
  BY DEF OrderOK
<1> QED BY <1>1, <1>2 DEF OrderOK

\* What a tick lists are stored packages as they are.
LEMMA ListedFact ==
    ASSUME UpdatesTypeOK, due > 0
    PROVE  /\ OldestUpdated \in Seq(Entities) /\ OldestUpdated # <<>>
           /\ \A e \in ToSet(OldestUpdated) : e.content = row[e.package]
<1> DEFINE n == IF due < Limit THEN due ELSE Limit
<1>1. n \in Nat \ {0} /\ n <= due /\ due <= Len(order)
  BY ConstantsAssumption DEF UpdatesTypeOK, OrderOK
<1>2. OldestUpdated = [i \in 1..n |-> [package |-> order[i], content |-> row[order[i]]]]
  BY DEF OldestUpdated
<1> HIDE DEF n
<1>3. ASSUME NEW i \in 1..n
      PROVE  order[i] \in Packages /\ row[order[i]] \in Contents
  <2>1. i \in 1..Len(order)
    BY <1>1 DEF UpdatesTypeOK, OrderOK
  <2>2. order[i] \in ToSet(order)
    BY <2>1 DEF UpdatesTypeOK, OrderOK, ToSet
  <2>3. order[i] \in Packages /\ row[order[i]] # Deleted
    BY <2>2 DEF UpdatesTypeOK, OrderOK
  <2> QED BY <2>3 DEF UpdatesTypeOK
<1>4. OldestUpdated \in [1..n -> Entities]
  BY <1>2, <1>3 DEF Entities
<1>5. OldestUpdated \in Seq(Entities) /\ OldestUpdated # <<>>
  <2>1. OldestUpdated \in Seq(Entities)
    BY <1>1, <1>4, IsASeq
  <2>2. Len(OldestUpdated) = n
    BY <1>1, <1>4, <2>1
  <2> QED BY <1>1, <2>1, <2>2, EmptySeq
<1>6. \A e \in ToSet(OldestUpdated) : e.content = row[e.package]
  BY <1>2 DEF ToSet
<1> QED BY <1>5, <1>6

\* The types are kept.
LEMMA UpdatesTypeStep == UpdatesTypeOK /\ [UpdatesNext]_updatesVars => UpdatesTypeOK'
<1> SUFFICES ASSUME UpdatesTypeOK, [UpdatesNext]_updatesVars PROVE UpdatesTypeOK'
  OBVIOUS
<1> USE ConstantsAssumption
<1>1. CASE BecomesDue
  <2>1. order[due + 1] \in Packages
    BY <1>1 DEF UpdatesTypeOK, OrderOK, BecomesDue
  <2>2. OrderOK'
    BY <1>1 DEF UpdatesTypeOK, OrderOK, BecomesDue
  <2> QED BY <1>1, <2>1, <2>2 DEF UpdatesTypeOK, BecomesDue
<1>2. CASE Crash
  <2>1. Off \in TickType /\ Off.at = "off" /\ Off.list = <<>>
    BY DEF Off, TickType
  <2>2. tick' \in [Ticks -> TickType] /\ \A t \in Ticks : tick'[t].at = "off" <=> tick'[t].list = <<>>
    BY <1>2, <2>1 DEF Crash
  <2>3. OrderOK'
    BY <1>2 DEF UpdatesTypeOK, OrderOK, Crash
  <2> QED BY <1>2, <2>2, <2>3 DEF UpdatesTypeOK, Crash
<1>3. ASSUME NEW t \in Ticks, List(t) PROVE UpdatesTypeOK'
  <2>1. OldestUpdated \in Seq(Entities) /\ OldestUpdated # <<>>
    BY <1>3, ListedFact DEF List
  <2>2. OrderOK'
    BY <1>3 DEF UpdatesTypeOK, OrderOK, List
  <2> QED BY <1>3, <2>1, <2>2 DEF UpdatesTypeOK, List, TickType
<1>4. ASSUME NEW t \in Ticks, Save(t) PROVE UpdatesTypeOK'
  <2> DEFINE entity == Head(tick[t].list)
  <2>1. entity \in Entities
    BY <1>4, FirstAndRest DEF Save, UpdatesTypeOK, TickType
  <2>2. entity.package \in Packages /\ entity.content \in Contents
    BY <2>1 DEF Entities
  <2> HIDE DEF entity
  <2>3. /\ row' = [row EXCEPT ![entity.package] = entity.content]
        /\ order' = Append(Without(entity.package), entity.package)
        /\ due' = DueWithout(entity.package)
    BY <1>4 DEF Save, entity
  <2>4. OrderOK'
    BY <2>2, <2>3, MovedToEnd DEF UpdatesTypeOK
  <2>5. row' \in [Packages -> Contents \cup {Deleted}]
    BY <2>2, <2>3 DEF UpdatesTypeOK
  <2>6. /\ tick' \in [Ticks -> TickType]
        /\ \A s \in Ticks : tick'[s].at = "off" <=> tick'[s].list = <<>>
    BY <1>4 DEF Save, UpdatesTypeOK, TickType
  <2>7. UNCHANGED <<wanted, waiting, raced, counts>>
    BY <1>4 DEF Save
  <2> QED BY <2>4, <2>5, <2>6, <2>7 DEF UpdatesTypeOK
<1>5. ASSUME NEW t \in Ticks, StartJob(t) PROVE UpdatesTypeOK'
  <2>1. OrderOK'
    BY <1>5 DEF UpdatesTypeOK, OrderOK, StartJob
  <2> QED BY <1>5, <2>1 DEF UpdatesTypeOK, StartJob, TickType
<1>6. ASSUME NEW t \in Ticks, EndJob(t) \/ HangJob(t) PROVE UpdatesTypeOK'
  <2>1. tick[t].list \in Seq(Entities) /\ tick[t].list # <<>>
    BY <1>6 DEF UpdatesTypeOK, EndJob, HangJob, TickType
  <2>2. Tail(tick[t].list) \in Seq(Entities)
    BY <2>1, FirstAndRest
  <2>3. Off \in TickType /\ Off.at = "off" /\ Off.list = <<>>
    BY DEF Off, TickType
  <2>4. OrderOK'
    BY <1>6 DEF UpdatesTypeOK, OrderOK, EndJob, HangJob
  <2>5. \/ tick' = [tick EXCEPT ![t] = Off]
        \/ /\ tick' = [tick EXCEPT ![t] = [list |-> Tail(tick[t].list), at |-> "listed"]]
           /\ Tail(tick[t].list) # <<>>
    BY <1>6 DEF EndJob, HangJob
  <2>6. tick' \in [Ticks -> TickType] /\ \A u \in Ticks : tick'[u].at = "off" <=> tick'[u].list = <<>>
    <3>1. CASE tick' = [tick EXCEPT ![t] = Off]
      <4> HIDE DEF Off
      <4> QED BY <2>3, <3>1 DEF UpdatesTypeOK
    <3>2. CASE /\ tick' = [tick EXCEPT ![t] = [list |-> Tail(tick[t].list), at |-> "listed"]]
               /\ Tail(tick[t].list) # <<>>
      <4> DEFINE l == Tail(tick[t].list)
                 new == [list |-> l, at |-> "listed"]
      <4>1. new \in TickType /\ new.at # "off" /\ new.list # <<>>
        BY <2>2, <3>2 DEF TickType
      <4>2. tick' = [tick EXCEPT ![t] = new]
        BY <3>2
      <4> HIDE DEF new
      <4> QED BY <4>1, <4>2 DEF UpdatesTypeOK
    <3> QED BY <2>5, <3>1, <3>2
  <2> QED BY <1>6, <2>4, <2>6 DEF UpdatesTypeOK, EndJob, HangJob
<1>7. ASSUME NEW p \in Packages, Edit(p) PROVE UpdatesTypeOK'
  <2>1. counts.changes + 1 \in Contents
    BY <1>7 DEF UpdatesTypeOK, Edit, Change, Contents
  <2>2. OrderOK'
    BY <1>7, <2>1 DEF UpdatesTypeOK, OrderOK, Edit, Change, Contents
  <2> QED BY <1>7, <2>1, <2>2 DEF UpdatesTypeOK, Edit, Change
<1>8. ASSUME NEW p \in Packages, Delete(p) PROVE UpdatesTypeOK'
  <2>1. OrderOK'
    BY <1>8, LeavesOrder DEF UpdatesTypeOK, Delete, Change
  <2> QED BY <1>8, <2>1 DEF UpdatesTypeOK, Delete, Change
<1>9. CASE UNCHANGED updatesVars
  BY <1>9 DEF updatesVars, UpdatesTypeOK, OrderOK
<1> QED
  BY <1>1, <1>2, <1>3, <1>4, <1>5, <1>6, <1>7, <1>8, <1>9 DEF UpdatesNext, Work

\* A user's change marks what the ticks have still to save of the package.
LEMMA ChangeKeepsStale ==
    ASSUME UpdatesInv, NEW p \in Packages, NEW content, Change(p, content)
    PROVE  StaleOnlyIfRaced' /\ ChangesStand'
<1>1. wanted' = [wanted EXCEPT ![p] = content] /\ row' = [row EXCEPT ![p] = content]
      /\ raced \subseteq raced' /\ tick' = tick
  BY DEF Change
<1>2. ASSUME NEW t \in Ticks, tick[t].at # "off", NEW e \in Unsaved(t)
      PROVE  e.content = wanted'[e.package] \/ e.package \in raced'
  <2>1. CASE e.package = p
    BY <1>2, <2>1 DEF Change, AboutToSave
  <2>2. CASE e.package # p
    BY <1>1, <1>2, <2>2 DEF UpdatesInv, StaleOnlyIfRaced, UpdatesTypeOK
  <2> QED BY <2>1, <2>2
<1>3. StaleOnlyIfRaced'
  BY <1>1, <1>2 DEF StaleOnlyIfRaced, Unsaved
<1>4. ChangesStand'
  BY <1>1 DEF UpdatesInv, ChangesStand, UpdatesTypeOK
<1> QED BY <1>3, <1>4

\* Every step keeps the invariant.
LEMMA NextUpdatesInv == UpdatesInv /\ [UpdatesNext]_updatesVars => UpdatesInv'
<1> SUFFICES ASSUME UpdatesInv, [UpdatesNext]_updatesVars PROVE StaleOnlyIfRaced' /\ ChangesStand'
  BY UpdatesTypeStep DEF UpdatesInv
<1>0. UpdatesTypeOK /\ UpdatesTypeOK'
  BY UpdatesTypeStep DEF UpdatesInv
<1>1. CASE BecomesDue
  BY <1>1 DEF BecomesDue, UpdatesInv, StaleOnlyIfRaced, ChangesStand, Unsaved
<1>2. CASE Crash
  BY <1>2 DEF Crash, UpdatesInv, StaleOnlyIfRaced, ChangesStand, Off
<1>3. ASSUME NEW t \in Ticks, List(t) PROVE StaleOnlyIfRaced' /\ ChangesStand'
  <2>1. /\ OldestUpdated \in Seq(Entities)
        /\ \A e \in ToSet(OldestUpdated) : e.content = row[e.package]
    BY <1>0, <1>3, ListedFact DEF List
  <2>2. \A e \in ToSet(OldestUpdated) : e.package \in Packages
    <3> HIDE DEF OldestUpdated
    <3>1. DOMAIN OldestUpdated = 1..Len(OldestUpdated)
      BY <2>1
    <3>2. ToSet(OldestUpdated) \subseteq Entities
      BY <2>1, <3>1, ElementOfSeq DEF ToSet
    <3> QED BY <3>2 DEF Entities
  <2>3. tick' = [tick EXCEPT ![t] = [list |-> OldestUpdated, at |-> "listed"]]
        /\ UNCHANGED <<row, wanted, raced>>
    BY <1>3 DEF List
  <2> HIDE DEF OldestUpdated
  <2>4. Unsaved(t)' = ToSet(OldestUpdated)
    BY <1>0, <2>3 DEF Unsaved, UpdatesTypeOK
  <2>5. \A u \in Ticks \ {t} : Unsaved(u)' = Unsaved(u) /\ tick'[u] = tick[u]
    BY <1>0, <2>3 DEF Unsaved, UpdatesTypeOK
  <2>6. \A e \in ToSet(OldestUpdated) : e.content = wanted[e.package] \/ e.package \in raced
    BY <2>1, <2>2 DEF UpdatesInv, ChangesStand
  <2> QED BY <2>3, <2>4, <2>5, <2>6 DEF UpdatesInv, StaleOnlyIfRaced, ChangesStand
<1>4. ASSUME NEW t \in Ticks, Save(t) PROVE StaleOnlyIfRaced' /\ ChangesStand'
  <2> DEFINE entity == Head(tick[t].list)
  <2>1. /\ entity \in Entities /\ entity \in ToSet(tick[t].list)
        /\ ToSet(Tail(tick[t].list)) \subseteq ToSet(tick[t].list)
    BY <1>0, <1>4, FirstAndRest DEF Save, UpdatesTypeOK, TickType
  <2>2. entity.package \in Packages
    BY <2>1 DEF Entities
  <2>3. /\ tick[t].at = "listed" /\ tick' = [tick EXCEPT ![t].at = "saved"]
        /\ row' = [row EXCEPT ![entity.package] = entity.content]
        /\ UNCHANGED <<wanted, raced>>
    BY <1>4 DEF Save
  <2> HIDE DEF entity
  <2>4. entity.content = wanted[entity.package] \/ entity.package \in raced
    BY <2>1, <2>3 DEF UpdatesInv, StaleOnlyIfRaced, Unsaved
  <2>5. ChangesStand'
    BY <1>0, <2>2, <2>3, <2>4 DEF UpdatesInv, ChangesStand, UpdatesTypeOK
  <2>6. \A u \in Ticks : Unsaved(u)' \subseteq Unsaved(u) /\ (tick'[u].at # "off" => tick[u].at # "off")
    BY <1>0, <2>1, <2>3 DEF Unsaved, UpdatesTypeOK, TickType
  <2> QED BY <2>3, <2>5, <2>6 DEF UpdatesInv, StaleOnlyIfRaced
<1>5. ASSUME NEW t \in Ticks, StartJob(t) PROVE StaleOnlyIfRaced' /\ ChangesStand'
  <2>1. /\ tick[t].at = "saved" /\ tick' = [tick EXCEPT ![t].at = "run"]
        /\ UNCHANGED <<row, wanted, raced>>
    BY <1>5 DEF StartJob
  <2>2. \A u \in Ticks : Unsaved(u)' = Unsaved(u) /\ (tick'[u].at # "off" => tick[u].at # "off")
    BY <1>0, <2>1 DEF Unsaved, UpdatesTypeOK, TickType
  <2> QED BY <2>1, <2>2 DEF UpdatesInv, StaleOnlyIfRaced, ChangesStand
<1>6. ASSUME NEW t \in Ticks, EndJob(t) \/ HangJob(t) PROVE StaleOnlyIfRaced' /\ ChangesStand'
  <2>1. /\ tick[t].at = "run" /\ UNCHANGED <<row, wanted, raced>>
        /\ \/ tick' = [tick EXCEPT ![t] = Off]
           \/ tick' = [tick EXCEPT ![t] = [list |-> Tail(tick[t].list), at |-> "listed"]]
    BY <1>6 DEF EndJob, HangJob
  <2>2. \A u \in Ticks : tick'[u].at # "off" => Unsaved(u)' = Unsaved(u) /\ tick[u].at # "off"
    <3>1. Off.at = "off"
      BY DEF Off
    <3>2. CASE tick' = [tick EXCEPT ![t] = Off]
      BY <1>0, <3>1, <3>2 DEF Unsaved, UpdatesTypeOK
    <3>3. CASE tick' = [tick EXCEPT ![t] = [list |-> Tail(tick[t].list), at |-> "listed"]]
      <4>1. tick'[t].at = "listed" /\ tick'[t].list = Tail(tick[t].list)
        BY <1>0, <3>3 DEF UpdatesTypeOK
      <4>2. Unsaved(t)' = ToSet(Tail(tick[t].list)) /\ Unsaved(t) = ToSet(Tail(tick[t].list))
        BY <2>1, <4>1 DEF Unsaved
      <4>3. \A u \in Ticks \ {t} : tick'[u] = tick[u]
        BY <1>0, <3>3 DEF UpdatesTypeOK
      <4> QED BY <2>1, <4>2, <4>3 DEF Unsaved
    <3> QED BY <2>1, <3>2, <3>3
  <2> QED BY <2>1, <2>2 DEF UpdatesInv, StaleOnlyIfRaced, ChangesStand
<1>7. ASSUME NEW p \in Packages, Edit(p) \/ Delete(p) PROVE StaleOnlyIfRaced' /\ ChangesStand'
  BY <1>7, ChangeKeepsStale DEF Edit, Delete
<1>8. CASE UNCHANGED updatesVars
  BY <1>8 DEF updatesVars, UpdatesInv, StaleOnlyIfRaced, ChangesStand, Unsaved
<1> QED
  BY <1>1, <1>2, <1>3, <1>4, <1>5, <1>6, <1>7, <1>8, ConstantsAssumption DEF UpdatesNext, Work

-----------------------------------------------------------------------------
\* The types hold, and with them: every package that is stored has its place among the
\* dates, once, so no package drops out of the service's sight
\* (package-update-service.ts:49-50).
THEOREM TypeCorrect == UpdatesSpec => []UpdatesTypeOK
<1>1. UpdatesInv => UpdatesTypeOK
  BY DEF UpdatesInv
<1> QED BY <1>1, FirstUpdatesInv, NextUpdatesInv, PTL DEF UpdatesSpec

\* What users make of a package stands, unless they change it between the read and the
\* save of a tick (package-update-service.ts:42-50), for any number of packages, ticks,
\* changes and crashes.
THEOREM UserChangesStand == UpdatesSpec => []ChangesStand
<1>1. UpdatesInv => ChangesStand
  BY DEF UpdatesInv
<1> QED BY <1>1, FirstUpdatesInv, NextUpdatesInv, PTL DEF UpdatesSpec
=============================================================================
