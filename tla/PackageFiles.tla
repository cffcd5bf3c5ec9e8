---------------------------- MODULE PackageFiles ----------------------------
(***************************************************************************)
(* Package files, how two of them differ, and the version number a         *)
(* difference calls for (lib/src/PackageUtil.ts).                          *)
(*                                                                         *)
(* A package file is a record                                              *)
(*   schemas  a function from titles to [hidden, properties], where        *)
(*            properties is a function from names (paths, for properties   *)
(*            of nested objects) to [hidden, types, unit];                 *)
(*   sources  a function from slugs to configurations;                     *)
(*   text     the readme, description, license, website and so on;         *)
(*   stats    what an update changes without asking for a new version.     *)
(* Its version is kept apart, as <<major, minor, patch>>.                  *)
(***************************************************************************)
EXTENDS Naturals, FiniteSets

-----------------------------------------------------------------------------
(* compareProperties, compareSchemas, compareSources, comparePackages: the *)
(* types of the differences found.                                         *)

PropertyDifferences(prior, new) ==
    LET kept == DOMAIN prior \cap DOMAIN new
        Some(type, K) == {type : k \in K}
    IN  Some("REMOVE_PROPERTY", {k \in DOMAIN prior \ kept : ~prior[k].hidden})
        \cup Some("REMOVE_HIDDEN_PROPERTY", {k \in DOMAIN prior \ kept : prior[k].hidden})
        \cup Some("CHANGE_PROPERTY_TYPE", {k \in kept : prior[k].types # new[k].types})
        \cup Some("HIDE_PROPERTY", {k \in kept : ~prior[k].hidden /\ new[k].hidden})
        \cup Some("UNHIDE_PROPERTY", {k \in kept : prior[k].hidden /\ ~new[k].hidden})
        \cup Some("CHANGE_PROPERTY_UNIT", {k \in kept : prior[k].unit # new[k].unit})
        \cup Some("ADD_PROPERTY", DOMAIN new \ kept)

\* Schemas that only the new file has are no difference.
SchemaDifferences(prior, new) ==
    LET kept == DOMAIN prior \cap DOMAIN new IN
    (UNION {PropertyDifferences(prior[t].properties, new[t].properties) : t \in kept})
    \cup {IF prior[t].hidden THEN "REMOVE_HIDDEN_SCHEMA" ELSE "REMOVE_SCHEMA"
             : t \in DOMAIN prior \ kept}

SourceDifferences(prior, new) ==
    LET kept == DOMAIN prior \cap DOMAIN new IN
    {"CHANGE_SOURCE_CONFIGURATION" : s \in {s \in kept : prior[s] # new[s]}}
    \cup {"REMOVE_SOURCE" : s \in DOMAIN prior \ kept}

Differences(prior, priorVersion, new, newVersion) ==
    SchemaDifferences(prior.schemas, new.schemas)
    \cup SourceDifferences(prior.sources, new.sources)
    \cup (IF priorVersion # newVersion THEN {"CHANGE_VERSION"} ELSE {})
    \cup (IF prior.text # new.text THEN {"CHANGE_README_MARKDOWN"} ELSE {})
    \cup (IF prior.stats # new.stats THEN {"CHANGE_STREAM_STATS"} ELSE {})

-----------------------------------------------------------------------------
(* Compability, diffCompatibility and nextVersion.                         *)

Identical == 0
MinorChange == 1
CompatibleChange == 2
BreakingChange == 3

Breaking == {"REMOVE_PROPERTY", "REMOVE_SCHEMA", "CHANGE_PROPERTY_TYPE", "HIDE_PROPERTY"}
Compatible == {"ADD_PROPERTY", "UNHIDE_PROPERTY"}
Trivial == {"CHANGE_STREAM_STATS"}

\* Hiding a property counts as a minor change.
DiffCompatibilityMutant(diffs) ==
    IF diffs \cap (Breaking \ {"HIDE_PROPERTY"}) # {} THEN BreakingChange
    ELSE IF diffs \cap Compatible # {} THEN CompatibleChange
    ELSE IF diffs \subseteq Trivial THEN Identical ELSE MinorChange

DiffCompatibility(diffs) ==
    IF diffs \cap Breaking # {} THEN BreakingChange
    ELSE IF diffs \cap Compatible # {} THEN CompatibleChange
    ELSE IF diffs \subseteq Trivial THEN Identical ELSE MinorChange

NextVersion(v, compatibility) ==
    CASE compatibility = BreakingChange   -> <<v[1] + 1, 0, 0>>
      [] compatibility = CompatibleChange -> <<v[1], v[2] + 1, 0>>
      [] compatibility = MinorChange      -> <<v[1], v[2], v[3] + 1>>
      [] compatibility = Identical        -> v

\* SemVer.compare
Below(v, w) ==
    \/ v[1] < w[1]
    \/ v[1] = w[1] /\ v[2] < w[2]
    \/ v[1] = w[1] /\ v[2] = w[2] /\ v[3] < w[3]

-----------------------------------------------------------------------------
(* What the numbers promise, said without them.                            *)

\* What a consumer of `file` can rely on: the properties it shows, with their
\* types.
Shown(file) ==
    UNION {LET props == file.schemas[t].properties IN
           {<<t, k, props[k].types>> : k \in {k \in DOMAIN props : ~props[k].hidden}}
              : t \in {t \in DOMAIN file.schemas : ~file.schemas[t].hidden}}
=============================================================================
