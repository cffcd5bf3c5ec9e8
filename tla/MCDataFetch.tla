----------------------------- MODULE MCDataFetch -----------------------------
(* Small instances of DataFetch.                                           *)
EXTENDS DataFetch
=============================================================================
