---------------------------- MODULE MCRemoteJobs -----------------------------
(* Two or three commands, each an update of the package or one that creates it. *)
EXTENDS RemoteJobs

CONSTANTS c1, c2, c3
=============================================================================
