--------------------------- MODULE PackageVersions --------------------------
(***************************************************************************)
(* Publishing versions of one package (CreateVersion.ts,                   *)
(* VersionRepository.ts, deleteVersion of VersionResolver.ts), and the     *)
(* clients that publish again when the registry asks for a higher version. *)
(*                                                                         *)
(* A publication is a transaction that finds the latest version, reads its *)
(* package file from storage, compares, saves a version row, locks the     *)
(* package row, writes the package file to storage and commits.  The rows  *)
(* are transactional (READ COMMITTED, with a unique key on the version     *)
(* number); the storage is not.                                            *)
(***************************************************************************)
EXTENDS PackageFiles

CONSTANTS
    Publishers,
    Files,              \* package files that are published
    Proposals,          \* version numbers they are published with
    Versions,           \* version numbers that may exist; bounds the retries
    MaxPublications,
    MaxFailures,        \* publications that fail half-way
    MaxDeletes,
    None

\* No publication hides or shows a schema as a whole.
ASSUME FilesAssumption ==
    \A f, g \in Files : \A t \in DOMAIN f.schemas \cap DOMAIN g.schemas :
       f.schemas[t].hidden = g.schemas[t].hidden

ASSUME VersionsAssumption ==
    /\ Versions \subseteq Nat \X Nat \X Nat
    /\ Proposals \subseteq Versions /\ None \notin Versions /\ None \notin Files
    /\ None \notin Identical..BreakingChange
    /\ MaxPublications \in Nat /\ MaxFailures \in Nat /\ MaxDeletes \in Nat

VARIABLES
    rows,       \* committed version rows
    stored,     \* the package file in storage of each version number
    phase,      \* where each publication is
    file,       \* the package file it publishes
    version,    \* with which number
    latest,     \* the latest version it has found
    compat,     \* the compatibility of its package file with that of the latest
    retried,    \* whether it is a second attempt
    started, failures, deletes,
    overlapped  \* two publications have been going on at once

publisherVars == <<phase, file, version, latest, compat, retried>>
countVars == <<started, failures, deletes>>
vars == <<rows, stored, publisherVars, countVars, overlapped>>

Holding == {"saved", "writing", "written"}

\* Publications that hold the row of version v, new or updated.
Holders(v) == {p \in Publishers : phase[p] \in Holding /\ version[p] = v}

TypeOK ==
    /\ rows \subseteq Versions
    /\ stored \in [Versions -> Files \cup {None}]
    /\ phase \in [Publishers -> {"idle", "finding", "reading", "saving"} \cup Holding]
    /\ file \in [Publishers -> Files \cup {None}]
    /\ version \in [Publishers -> Versions \cup {None}]
    /\ latest \in [Publishers -> Versions \cup {None}]
    /\ compat \in [Publishers -> {None} \cup Identical..BreakingChange]
    /\ retried \in [Publishers -> BOOLEAN]
    /\ started \in 0..MaxPublications
    /\ failures \in 0..MaxFailures /\ deletes \in 0..MaxDeletes
    /\ overlapped \in BOOLEAN
    /\ \A v \in Versions : Cardinality(Holders(v)) <= 1

Init ==
    /\ rows = {}
    /\ stored = [v \in Versions |-> None]
    /\ phase = [p \in Publishers |-> "idle"]
    /\ file = [p \in Publishers |-> None]
    /\ version = [p \in Publishers |-> None]
    /\ latest = [p \in Publishers |-> None]
    /\ compat = [p \in Publishers |-> None]
    /\ retried = [p \in Publishers |-> FALSE]
    /\ started = 0 /\ failures = 0 /\ deletes = 0
    /\ overlapped = FALSE

Goto(p, ph) == phase' = [phase EXCEPT ![p] = ph]

\* The publication of p is over.
Over(p) ==
    /\ Goto(p, "idle")
    /\ file' = [file EXCEPT ![p] = None] /\ version' = [version EXCEPT ![p] = None]
    /\ latest' = [latest EXCEPT ![p] = None] /\ compat' = [compat EXCEPT ![p] = None]
    /\ retried' = [retried EXCEPT ![p] = FALSE]

-----------------------------------------------------------------------------
(* A publication.  (A definition whose name ends in Mutant is a mistake    *)
(* the code does not make; the properties tell it from the code.)          *)

Publish(p, f, v) ==
    /\ phase[p] = "idle" /\ started < MaxPublications
    /\ started' = started + 1
    /\ Goto(p, "finding")
    /\ file' = [file EXCEPT ![p] = f] /\ version' = [version EXCEPT ![p] = v]
    /\ overlapped' = (overlapped \/ \E q \in Publishers : phase[q] # "idle")
    /\ UNCHANGED <<rows, stored, latest, compat, retried, failures, deletes>>

\* findLatestVersion
FindLatest(p) ==
    /\ phase[p] = "finding"
    /\ Goto(p, "reading")
    /\ latest' = [latest EXCEPT ![p] =
          IF rows = {} THEN None
          ELSE CHOOSE v \in rows : \A w \in rows : ~Below(v, w)]
    /\ UNCHANGED <<rows, stored, file, version, compat, retried, countVars, overlapped>>

\* readPackageFile, comparePackages and diffCompatibility.
Compare(p) ==
    /\ phase[p] = "reading"
    /\ Goto(p, "saving")
    /\ compat' = [compat EXCEPT ![p] =
          IF latest[p] = None THEN None
          ELSE DiffCompatibility(
                  Differences(stored[latest[p]], latest[p], file[p], version[p]))]
    /\ UNCHANGED <<rows, stored, file, version, latest, retried, countVars, overlapped>>

\* Minor changes are saved on the row there is.
SameMutant(p) == compat[p] \in {Identical, MinorChange}

Same(p) == compat[p] = Identical
Required(p) == NextVersion(latest[p], compat[p])
\* Only a breaking change asks for a higher version.
RefusedMutant(p) == compat[p] = BreakingChange /\ Below(version[p], Required(p))

Refused(p) == compat[p] # None /\ ~Same(p) /\ Below(version[p], Required(p))

\* A file without changes is saved on the row of its version, the time of
\* which is updated; typeorm inserts the row again if it has gone.
SaveSame(p) ==
    /\ phase[p] = "saving" /\ Same(p)
    /\ Holders(version[p]) = {}
    /\ Goto(p, "saved")
    /\ UNCHANGED <<rows, stored, file, version, latest, compat, retried, countVars, overlapped>>

\* VersionRepository.save: the insert waits for a transaction that has the
\* same version number in hand.
SaveNew(p) ==
    /\ phase[p] = "saving" /\ ~Same(p) /\ ~Refused(p)
    /\ version[p] \notin rows /\ Holders(version[p]) = {}
    /\ Goto(p, "saved")
    /\ UNCHANGED <<rows, stored, file, version, latest, compat, retried, countVars, overlapped>>

\* Another publication has committed the version number.
SaveFails(p) ==
    /\ phase[p] = "saving" /\ ~Same(p) /\ ~Refused(p)
    /\ version[p] \in rows
    /\ Over(p)
    /\ UNCHANGED <<rows, stored, countVars, overlapped>>

\* HIGHER_VERSION_REQUIRED.  A client tries once more, with the number asked
\* for; it gives up when refused again (or at the bound on the numbers).
Refuse(p) ==
    /\ phase[p] = "saving" /\ Refused(p)
    /\ IF retried[p] \/ Required(p) \notin Versions
       THEN Over(p)
       ELSE /\ Goto(p, "finding")
            /\ version' = [version EXCEPT ![p] = Required(p)]
            /\ retried' = [retried EXCEPT ![p] = TRUE]
            /\ latest' = [latest EXCEPT ![p] = None]
            /\ compat' = [compat EXCEPT ![p] = None]
            /\ UNCHANGED file
    /\ UNCHANGED <<rows, stored, countVars, overlapped>>

\* The lock waits for every publication that has saved its row.
LockPackageMutant(p) ==
    /\ phase[p] = "saved"
    /\ \A q \in Publishers \ {p} : phase[q] \notin Holding
    /\ Goto(p, "writing")
    /\ UNCHANGED <<rows, stored, file, version, latest, compat, retried, countVars, overlapped>>

\* updatePackageReadmeVectors locks the row of the package to the end of the
\* transaction; then saveVersionComparison, which refers to the latest version.
LockPackage(p) ==
    /\ phase[p] = "saved"
    /\ \A q \in Publishers : phase[q] \notin {"writing", "written"}
    /\ compat[p] \notin {None, Identical} => latest[p] \in rows
    /\ Goto(p, "writing")
    /\ UNCHANGED <<rows, stored, file, version, latest, compat, retried, countVars, overlapped>>

\* The version that the comparison refers to has been deleted.
ComparisonFails(p) ==
    /\ phase[p] = "saved"
    /\ \A q \in Publishers : phase[q] \notin {"writing", "written"}
    /\ compat[p] \notin {None, Identical} /\ latest[p] \notin rows
    /\ Over(p)
    /\ UNCHANGED <<rows, stored, countVars, overlapped>>

WritePackageFile(p) ==
    /\ phase[p] = "writing"
    /\ stored' = [stored EXCEPT ![version[p]] = file[p]]
    /\ Goto(p, "written")
    /\ UNCHANGED <<rows, file, version, latest, compat, retried, countVars, overlapped>>

Commit(p) ==
    /\ phase[p] = "written"
    /\ rows' = rows \cup {version[p]}
    /\ Over(p)
    /\ UNCHANGED <<stored, countVars, overlapped>>

\* A query or a write fails, or the server stops: the rows are rolled back, the
\* file that has been written stays.
Fail(p) ==
    /\ phase[p] # "idle" /\ failures < MaxFailures
    /\ failures' = failures + 1
    /\ Over(p)
    /\ UNCHANGED <<rows, stored, started, deletes, overlapped>>

\* deleteVersion deletes the row and leaves the file.  It waits for
\* publications that have updated the row or that refer to it.
DeleteVersion(v) ==
    /\ v \in rows /\ deletes < MaxDeletes
    /\ Holders(v) = {}
    /\ \A p \in Publishers :
          ~(phase[p] \in {"writing", "written"} /\ ~Same(p) /\ latest[p] = v)
    /\ rows' = rows \ {v}
    /\ deletes' = deletes + 1
    /\ UNCHANGED <<stored, publisherVars, started, failures, overlapped>>

Progress(p) ==
    \/ FindLatest(p) \/ Compare(p) \/ SaveSame(p) \/ SaveNew(p) \/ SaveFails(p) \/ Refuse(p)
    \/ LockPackage(p) \/ ComparisonFails(p) \/ WritePackageFile(p) \/ Commit(p)

Next ==
    \/ \E p \in Publishers :
          \/ Progress(p) \/ Fail(p)
          \/ \E f \in Files, v \in Proposals : Publish(p, f, v)
    \/ \E v \in rows : DeleteVersion(v)

Spec == Init /\ [][Next]_vars

\* The queries of a publication are answered.
FairSpec == Spec /\ \A p \in Publishers : WF_vars(Progress(p))

-----------------------------------------------------------------------------
(* Properties.                                                             *)

\* A version that can be found has its package file in storage, whatever has
\* failed: every reader of a version takes the file for granted.
RowHasFile == \A v \in rows : stored[v] # None

\* The version number means what it says: whatever a version shows, every
\* later version of the same major number still shows, with the same types,
\* however the versions between have been published again or deleted, and
\* whatever publications have failed.  Publications that overlap compare
\* with the same version and not with each other, and do break this.
SameMajorKeeps ==
    ~overlapped =>
       \A v, w \in rows :
          v[1] = w[1] /\ Below(v, w) => Shown(stored[v]) \subseteq Shown(stored[w])

\* The file of a published version is replaced only by a publication that found
\* no change calling for a new version, however many publish the same
\* number at once.
ReplacedOnlyBySame ==
    [][\A v \in rows : stored'[v] # stored[v] =>
          \E p \in Holders(v) : phase[p] = "writing" /\ compat[p] = Identical]_vars

\* Every publication ends, although publications wait for each other's rows.
EveryPublicationEnds == \A p \in Publishers : phase[p] # "idle" ~> phase[p] = "idle"

-----------------------------------------------------------------------------
(* Refinement.                                                             *)

Findable == [v \in rows |-> stored[v]]
OrderOfVersions == {pair \in Versions \X Versions : Below(pair[1], pair[2])}
OneMajor == {pair \in Versions \X Versions : pair[1][1] = pair[2][1]}
KeepsShown == {pair \in Files \X Files : Shown(pair[1]) \subseteq Shown(pair[2])}
WithoutChange ==
    {edit \in Versions \X Files \X Files :
       DiffCompatibility(Differences(edit[2], edit[1], edit[3], edit[1])) = Identical}

Store ==
    INSTANCE PublishedVersions WITH
       contents <- Findable, serial <- ~overlapped,
       Order <- OrderOfVersions, SameMajor <- OneMajor,
       Kept <- KeepsShown, Unchanged <- WithoutChange

\* Consumers see one version at a time appear, change or go, although rows and
\* files are written apart and publications fail between; and when publications
\* follow one another, each is one step that sees all before it, although it is
\* compared with the latest version alone and versions are deleted meanwhile:
\* the publications implement PublishedVersions.
ImplementsPublishedVersions == Store!Spec

-----------------------------------------------------------------------------
(* What the repository says, and the code does not do.                     *)

\* CreateVersion.ts: a version with breaking changes is refused, "requiring a
\* minimum version number of" the next major one: within a major number nothing
\* that a version shows disappears, whoever publishes at the same time.
MajorNumberKeeps ==
    \A v, w \in rows :
       v[1] = w[1] /\ Below(v, w) => Shown(stored[v]) \subseteq Shown(stored[w])
=============================================================================
