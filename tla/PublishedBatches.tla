------------------------- MODULE PublishedBatches --------------------------
(***************************************************************************)
(* What readers of a package are promised about the batches it serves: for *)
(* every stream at most one batch, and changes that are published whole.   *)
(* This is the comment of DataUploadHandler.ts, lines 67-72: the client    *)
(* tells the server to make new batches the active ones "all at once after *)
(* many stream batches are completed (so that the state of the data is     *)
(* consistent)", and readers "should read the batches numbers for all      *)
(* requested streams at once".  ActiveBatches implements it.               *)
(***************************************************************************)
EXTENDS Naturals

CONSTANTS
    Streams,        \* the streams of a package
    Batches,        \* batch numbers
    NoBatch,        \* the stream has never been published
    Publications,   \* what may be published together: functions from some
                    \* streams to batches
    InitServing     \* the batches served at the start

VARIABLE serving    \* the batch a reader of each stream gets

TypeOK == serving \in [Streams -> Batches \cup {NoBatch}]

Init == serving = InitServing

\* All streams of a publication change together, and no other stream does.
Publish(p) ==
    serving' = [s \in Streams |-> IF s \in DOMAIN p THEN p[s] ELSE serving[s]]

Next == \E p \in Publications : Publish(p)

Spec == Init /\ [][Next]_serving
=============================================================================
