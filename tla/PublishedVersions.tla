-------------------------- MODULE PublishedVersions --------------------------
(***************************************************************************)
(* What consumers of a package are promised about its versions.  Versions  *)
(* appear, change and go one at a time.  As long as publications follow    *)
(* one another, a version that appears is above all others and keeps what  *)
(* those of its major number show, and only the highest version changes,   *)
(* in nothing that counts.  PackageVersions implements it, with a          *)
(* transaction that finds, compares, saves, locks and writes, and a        *)
(* storage that is not part of the transaction.                            *)
(***************************************************************************)
CONSTANTS
    Versions, Files,
    Order,      \* <<v, w>>: version v is below w
    SameMajor,  \* <<v, w>>: the two have a major number in common
    Kept,       \* <<f, g>>: file g shows all that f shows
    Unchanged   \* <<v, f, g>>: from f to g nothing in version v changes that counts

VARIABLES
    contents,   \* the package file of each version that can be found
    serial      \* no two publications have been going on at once

storeVars == <<contents, serial>>

Init == contents = <<>> /\ serial = TRUE

\* Versions that are below no other.
Highest(v) == \A w \in DOMAIN contents : <<v, w>> \notin Order

Appear(v, f) ==
    /\ v \notin DOMAIN contents
    /\ serial =>
          /\ Highest(v)
          /\ \A w \in DOMAIN contents : <<w, v>> \in SameMajor => <<contents[w], f>> \in Kept
    /\ contents' = [w \in DOMAIN contents \cup {v} |-> IF w = v THEN f ELSE contents[w]]
    /\ UNCHANGED serial

Change(v, f) ==
    /\ v \in DOMAIN contents
    /\ serial => Highest(v) /\ <<v, contents[v], f>> \in Unchanged
    /\ contents' = [contents EXCEPT ![v] = f]
    /\ UNCHANGED serial

Go(v) ==
    /\ v \in DOMAIN contents
    /\ contents' = [w \in DOMAIN contents \ {v} |-> contents[w]]
    /\ UNCHANGED serial

\* A publication begins before another one has ended.
Overlap == serial' = FALSE /\ UNCHANGED contents

Next ==
    \/ Overlap
    \/ \E v \in Versions : Go(v) \/ \E f \in Files : Appear(v, f) \/ Change(v, f)

Spec == Init /\ [][Next]_storeVars
=============================================================================
