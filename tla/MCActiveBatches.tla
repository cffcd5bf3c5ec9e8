-------------------------- MODULE MCActiveBatches --------------------------
(* Small instances of ActiveBatches.                                       *)
EXTENDS ActiveBatches, TLC

CONSTANTS h1, h2, h3, s1, s2

TwoStreams == {s1, s2}
FiveBatches == 1..5
AllRows == TwoStreams \X (1..4)
OneInitActive == {<<s1, 1>>}

\* Uploaders publish batches of their own, naming the streams in either order;
\* one may also name a batch that does not exist, one re-publish batch 1.
Uploaders ==
    h1 :> {<< <<s1, 2>>, <<s2, 2>> >>, << <<s1, 2>>, <<s2, 5>> >>}
 @@ h2 :> {<< <<s1, 3>>, <<s2, 3>> >>, << <<s2, 3>>, <<s1, 3>> >>}
 @@ h3 :> {<< <<s2, 4>>, <<s1, 4>> >>, << <<s1, 1>> >>}

ASSUME UploadersAssumption == OwnBatches
=============================================================================
