--------------------------- MODULE MCPackageUpdates ---------------------------
(* Three packages, ticks of two, and two ticks at a time.                  *)
EXTENDS PackageUpdates

CONSTANTS p1, p2, p3
=============================================================================
