-------------------------- MODULE MCLeaderServices --------------------------
(* Small instances of LeaderServices.                                      *)
EXTENDS LeaderServices

CONSTANTS s1, s2, u1, u2, r1, r2
=============================================================================
