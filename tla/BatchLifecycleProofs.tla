------------------------ MODULE BatchLifecycleProofs -------------------------
(***************************************************************************)
(* Theorems about BatchLifecycle for any number of jobs, offsets, crashes, *)
(* lost connections and timeouts.                                          *)
(*                                                                         *)
(* Types and the batches of new uploads hold however jobs overlap.  What   *)
(* the saved offset, the active batch and the files promise holds as long  *)
(* as jobs follow one another (~overlapped), whatever connections they     *)
(* lose and whatever the server does after they have gone.  The invariant  *)
(* of jobs in turn has four parts: where jobs and handlers are and which   *)
(* rows and files there are, whatever fails (Phases, Tidy); that the       *)
(* latest batch is the active one, until a new batch is abandoned          *)
(* (Follows); that saved offsets are those of records, until the server    *)
(* stops (Received); that no record is missing, until either (Complete).   *)
(***************************************************************************)
EXTENDS BatchLifecycle, FiniteSetTheorems, SequenceTheorems, TLAPS

-----------------------------------------------------------------------------
(* Whatever jobs do: what refers to a batch refers to one of the table.    *)

Handles == {"openFile", "open", "ending", "logging", "stopped"}
Opened == {j \in Jobs : batch[j] # None}

\* What job j knows of the table.
Known(j) ==
    /\ client[j] = "idle" => handler[j] = "none" /\ batch[j] = None
    /\ handler[j] \in {"findLatest", "openBatch"} => batch[j] = None
    /\ handler[j] \in Handles \/ client[j] \in {"sending", "stopping", "publishing", "switching"} =>
          batch[j] # None
    /\ batch[j] # None => batch[j] \in 1..Len(rows)
    /\ entity[j] # None => entity[j].batch \in 1..Len(rows)
    /\ saving[j] # None => saving[j].batch \in 1..Len(rows)
    /\ handler[j] = "logging" => entity[j] # None
    /\ client[j] = "switching" => publishing[j] # None

Types ==
    /\ TypeOK
    /\ Len(rows) <= Cardinality(Opened)
    /\ \A j \in Jobs : Known(j)

-----------------------------------------------------------------------------
(* Jobs in turn.                                                           *)

\* The job runs, or the server has not finished with it.
Busy(j) == j \in Running \/ AtWork(j)

Last(b) == rows[b].lastOffset

\* Where a job and its handler are.
Phase(j) ==
    /\ client[j] = "starting" => handler[j] \in {"findLatest", "openBatch", "openFile"}
    /\ client[j] = "sending" => handler[j] = "open"
    /\ client[j] = "stopping" => handler[j] \in {"ending", "logging"}
    /\ client[j] = "publishing" => handler[j] \in {"ending", "logging", "stopped"}
    /\ client[j] = "switching" => handler[j] = "stopped" /\ saving[j] = None
    /\ client[j] = "done" => handler[j] = "stopped"
    /\ saving[j] # None => handler[j] = "stopped"

Phases ==
    /\ \A i, j \in Jobs : Busy(i) /\ Busy(j) => i = j
    /\ \A j \in Jobs : Phase(j)

\* The job that is busy writes to the end of the latest batch.
Holds(j) ==
    /\ handler[j] = "openBatch" => entity[j] = FindLatestBatch
    /\ handler[j] \in Handles => batch[j] = Len(rows)
    /\ handler[j] = "openFile" => lastObserved[j] = Last(batch[j])
    /\ handler[j] \in {"open", "ending", "logging"} \/ saving[j] # None =>
          /\ start[j] = Last(batch[j]) + 1 /\ Last(batch[j]) <= lastObserved[j]
          /\ start[j] \in DOMAIN files[batch[j]]
          /\ \A x \in files[batch[j]][start[j]] : x <= lastObserved[j]
    /\ handler[j] = "logging" => entity[j] = EntityOf(Len(rows))
    /\ saving[j] # None =>
          /\ Last(batch[j]) < lastObserved[j]
          /\ saving[j] = [EntityOf(batch[j]) EXCEPT !.lastOffset = lastObserved[j]]
    /\ client[j] = "switching" => publishing[j] = EntityOf(batch[j])

\* The files of a batch: one may start after the saved offset, what the others
\* hold is saved.
Ordered(b) ==
    /\ b > Len(rows) => DOMAIN files[b] = {}
    /\ \A o \in DOMAIN files[b] :
          /\ o <= Last(b) + 1
          /\ \A x \in files[b][o] : o <= x /\ (o <= Last(b) => x <= Last(b))

Disjoint ==
    \A b \in BatchNumbers : \A o1, o2 \in DOMAIN files[b] :
       o1 # o2 => files[b][o1] \cap files[b][o2] = {}

\* Rows and files, whatever has failed.
Tidy ==
    /\ \A b1, b2 \in DefaultBatches : b1 = b2
    /\ \A j \in Jobs : Busy(j) => Holds(j)
    /\ \A b \in BatchNumbers : Ordered(b)
    /\ Disjoint

\* A job that runs has created a batch that is to replace the active one.
Replacing == \E j \in Running : newBatch[j] /\ batch[j] # None

\* The latest batch is the active one, where no new batch was abandoned.
Follows == DefaultBatches # {} /\ ~Replacing => Len(rows) \in DefaultBatches

\* The offset a stop will save, or is about to, is that of a record in the file.
Writes(j) == Busy(j) /\ (handler[j] \in {"open", "ending", "logging"} \/ saving[j] # None)
Keeps(j) == start[j] <= lastObserved[j] => lastObserved[j] \in files[batch[j]][start[j]]

\* Saved offsets, as long as the server does not stop.
Received ==
    /\ \A b \in 1..Len(rows) : Last(b) = -1 \/ Last(b) \in Stored(b)
    /\ \A j \in Jobs : Writes(j) => Keeps(j)

\* A job sends no record too late, so it leaves none out.
Welcome(j) ==
    /\ handler[j] \in {"findLatest", "openBatch"} =>
          next[j] <= IF newBatch[j] \/ rows = <<>> THEN 0 ELSE Last(Len(rows)) + 1
    /\ handler[j] \in {"openFile", "open"} => next[j] <= lastObserved[j] + 1

\* A batch holds every record up to the saved offset, and from there to what has
\* been sent.
Whole(b) ==
    /\ \A x \in 0..Last(b) : \E o \in DOMAIN files[b] : o <= Last(b) /\ x \in files[b][o]
    /\ Last(b) + 1 \in DOMAIN files[b] =>
          \A x \in files[b][Last(b) + 1] : Last(b) + 1 .. x \subseteq files[b][Last(b) + 1]

\* The file of the upload has every record that the upload has got.
Fills(j) == start[j]..lastObserved[j] \subseteq files[batch[j]][start[j]]

\* Records, as long as the server does not stop and no new batch was abandoned.
Complete ==
    /\ \A j \in Jobs : Busy(j) => Welcome(j)
    /\ \A b \in 1..Len(rows) : Whole(b)
    /\ \A j \in Jobs : Writes(j) => Fills(j)

TurnInv ==
    /\ ~overlapped => Phases /\ Tidy
    /\ ~overlapped /\ ~Abandoned => Follows
    /\ ~overlapped /\ NoCrash => Received
    /\ ~overlapped /\ NoCrash /\ ~Abandoned => Complete

-----------------------------------------------------------------------------
(* The table.                                                              *)

LEMMA JobsFact ==
    /\ Cardinality(Jobs) \in Nat /\ MaxOffset \in Nat
    /\ \A S \in SUBSET Jobs : IsFiniteSet(S) /\ Cardinality(S) \in Nat /\ Cardinality(S) <= Cardinality(Jobs)
BY BoundsAssumption, FS_CardinalityType, FS_Subset

\* A function on 1..n is a sequence of length n.
LEMMA SequenceOf ==
    ASSUME NEW S, NEW n \in Nat, NEW s \in [1..n -> S]
    PROVE  s \in Seq(S) /\ Len(s) = n
<1>1. s \in Seq(S)
  BY SeqDef
<1>2. Len(s) \in Nat /\ DOMAIN s = 1..Len(s)
  BY <1>1
<1> QED BY <1>1, <1>2

LEMMA TableFact ==
    ASSUME TypeOK
    PROVE  /\ Len(rows) \in Nat /\ DOMAIN rows = 1..Len(rows) /\ (rows = <<>> <=> Len(rows) = 0)
           /\ 1..Len(rows) \subseteq BatchNumbers
           /\ \A b \in 1..Len(rows) :
                 /\ rows[b] \in Row /\ rows[b].default \in BOOLEAN /\ rows[b].lastOffset \in -1..MaxOffset
                 /\ EntityOf(b) \in Entity /\ EntityOf(b) # None
                 /\ EntityOf(b).batch = b /\ EntityOf(b).default = rows[b].default
                 /\ EntityOf(b).lastOffset = rows[b].lastOffset
<1>1. Len(rows) \in Nat /\ DOMAIN rows = 1..Len(rows) /\ \A b \in 1..Len(rows) : rows[b] \in Row
  BY DEF TypeOK
<1>2. rows = <<>> <=> Len(rows) = 0
  BY EmptySeq DEF TypeOK
<1>3. 1..Len(rows) \subseteq BatchNumbers
  BY JobsFact DEF TypeOK, BatchNumbers
<1>4. ASSUME NEW b \in 1..Len(rows)
      PROVE  /\ rows[b].default \in BOOLEAN /\ rows[b].lastOffset \in -1..MaxOffset
             /\ EntityOf(b) \in Entity /\ EntityOf(b).batch = b
             /\ EntityOf(b).default = rows[b].default
             /\ EntityOf(b).lastOffset = rows[b].lastOffset
  BY <1>1, <1>3 DEF Row, Entity, EntityOf
<1> QED BY <1>1, <1>2, <1>3, <1>4, NoneAssumption

LEMMA LatestFact ==
    ASSUME TypeOK
    PROVE  /\ FindLatestBatch \in Entity \cup {None}
           /\ FindLatestBatch # None => FindLatestBatch.batch \in 1..Len(rows)
           /\ rows # <<>> => FindLatestBatch # None /\ FindLatestBatch = EntityOf(Len(rows))
           /\ rows = <<>> => FindLatestBatch = None
<1>1. rows # <<>> => Len(rows) \in 1..Len(rows)
  BY TableFact
<1> QED BY <1>1, TableFact DEF FindLatestBatch

\* One more row, or another in its place.
LEMMA RowAdded ==
    ASSUME TypeOK, NEW row \in Row, rows' = Append(rows, row)
    PROVE  /\ rows' \in Seq(Row) /\ Len(rows') = Len(rows) + 1 /\ rows'[Len(rows) + 1] = row
           /\ \A b \in 1..Len(rows) : rows'[b] = rows[b]
BY DEF TypeOK

LEMMA RowSaved ==
    ASSUME TypeOK, NEW e \in Entity, e.batch \in 1..Len(rows), rows' = Saved(e)
    PROVE  /\ rows' \in Seq(Row) /\ Len(rows') = Len(rows)
           /\ rows'[e.batch] = [default |-> e.default, lastOffset |-> e.lastOffset]
           /\ \A b \in 1..Len(rows) : b # e.batch => rows'[b] = rows[b]
<1>1. [default |-> e.default, lastOffset |-> e.lastOffset] \in Row
  BY DEF Entity, Row
<1>2. rows \in [1..Len(rows) -> Row] /\ Len(rows) \in Nat
  BY DEF TypeOK
<1>3. rows' \in [1..Len(rows) -> Row]
  BY <1>1, <1>2 DEF Saved
<1> QED BY <1>2, <1>3, SequenceOf DEF Saved

LEMMA RowsPublished ==
    ASSUME TypeOK, NEW p, NEW o \in -1..MaxOffset,
           rows' = [b \in 1..Len(rows) |->
                      IF b = p THEN [default |-> TRUE, lastOffset |-> o]
                      ELSE [rows[b] EXCEPT !.default = FALSE]]
    PROVE  /\ rows' \in Seq(Row) /\ Len(rows') = Len(rows)
           /\ \A b \in 1..Len(rows) :
                 /\ b = p => rows'[b] = [default |-> TRUE, lastOffset |-> o]
                 /\ b # p => ~rows'[b].default /\ rows'[b].lastOffset = rows[b].lastOffset
<1>1. Len(rows) \in Nat /\ \A b \in 1..Len(rows) : rows[b] \in Row
  BY TableFact
<1>2. rows' \in [1..Len(rows) -> Row]
  BY <1>1 DEF Row
<1>3. \A b \in 1..Len(rows) : b # p => rows'[b] = [rows[b] EXCEPT !.default = FALSE]
  OBVIOUS
<1>4. \A b \in 1..Len(rows) : b # p => ~rows'[b].default /\ rows'[b].lastOffset = rows[b].lastOffset
  BY <1>1, <1>3 DEF Row
<1>5. \A b \in 1..Len(rows) : b = p => rows'[b] = [default |-> TRUE, lastOffset |-> o]
  OBVIOUS
<1> QED BY <1>1, <1>2, <1>4, <1>5, SequenceOf

-----------------------------------------------------------------------------
(* Types.                                                                  *)

\* What a job knows stays true when others go on: no row goes.
LEMMA KnownOther ==
    ASSUME TypeOK, NEW i, Known(i), Len(rows') \in Nat, Len(rows) <= Len(rows'),
           client'[i] = client[i], handler'[i] = handler[i], batch'[i] = batch[i],
           entity'[i] = entity[i], saving'[i] = saving[i], publishing'[i] = publishing[i]
    PROVE  Known(i)'
<1>1. \A n : n \in 1..Len(rows) => n \in 1..Len(rows')
  BY TableFact
<1> QED BY <1>1 DEF Known

\* What TypeOK says of the files of one batch.
LEMMA FileFact ==
    ASSUME TypeOK, NEW b \in BatchNumbers
    PROVE  /\ DOMAIN files[b] \subseteq Offsets \cup {MaxOffset + 1}
           /\ \A x \in DOMAIN files[b] : files[b][x] \subseteq Offsets
BY DEF TypeOK

LEMMA FilesTruncated ==
    ASSUME TypeOK, NEW b \in BatchNumbers, NEW o \in 0..MaxOffset + 1, files' = Truncated(b, o)
    PROVE  /\ DOMAIN files' = BatchNumbers
           /\ \A c \in BatchNumbers : c # b => files'[c] = files[c]
           /\ DOMAIN files'[b] = DOMAIN files[b] \cup {o} /\ files'[b][o] = {}
           /\ \A x \in DOMAIN files[b] : x # o => files'[b][x] = files[b][x]
           /\ \A c \in BatchNumbers :
                 /\ DOMAIN files'[c] \subseteq Offsets \cup {MaxOffset + 1}
                 /\ \A x \in DOMAIN files'[c] : files'[c][x] \subseteq Offsets
<1>1. /\ DOMAIN files' = BatchNumbers
      /\ \A c \in BatchNumbers : c # b => files'[c] = files[c]
      /\ files'[b] = [x \in DOMAIN files[b] \cup {o} |-> IF x = o THEN {} ELSE files[b][x]]
  BY DEF Truncated, TypeOK
<1>2. /\ DOMAIN files'[b] = DOMAIN files[b] \cup {o} /\ files'[b][o] = {}
      /\ \A x \in DOMAIN files[b] : x # o => files'[b][x] = files[b][x]
  BY <1>1
<1>3. o \in Offsets \cup {MaxOffset + 1}
  BY JobsFact DEF Offsets
<1>4. ASSUME NEW c \in BatchNumbers
      PROVE  /\ DOMAIN files'[c] \subseteq Offsets \cup {MaxOffset + 1}
             /\ \A x \in DOMAIN files'[c] : files'[c][x] \subseteq Offsets
  <2>1. /\ DOMAIN files[c] \subseteq Offsets \cup {MaxOffset + 1}
        /\ \A x \in DOMAIN files[c] : files[c][x] \subseteq Offsets
    BY FileFact
  <2>2. CASE c = b
    <3>1. DOMAIN files'[c] \subseteq Offsets \cup {MaxOffset + 1}
      BY <1>2, <1>3, <2>1, <2>2
    <3>2. ASSUME NEW x \in DOMAIN files'[c] PROVE files'[c][x] \subseteq Offsets
      BY <1>2, <2>1, <2>2, <3>2
    <3> QED BY <3>1, <3>2
  <2>3. CASE c # b
    <3>1. files'[c] = files[c]
      BY <1>1, <2>3
    <3> QED BY <2>1, <3>1
  <2> QED BY <2>2, <2>3
<1>5. /\ DOMAIN files' = BatchNumbers
      /\ \A c \in BatchNumbers : c # b => files'[c] = files[c]
  BY <1>1
<1> QED BY <1>2, <1>4, <1>5

LEMMA RecordStored ==
    ASSUME TypeOK, NEW b \in BatchNumbers, NEW o, NEW n \in Offsets,
           files' = [files EXCEPT ![b][o] = @ \cup {n}]
    PROVE  /\ DOMAIN files' = BatchNumbers
           /\ \A c \in BatchNumbers : c # b => files'[c] = files[c]
           /\ DOMAIN files'[b] = DOMAIN files[b]
           /\ o \in DOMAIN files[b] => files'[b][o] = files[b][o] \cup {n}
           /\ \A x \in DOMAIN files[b] : x # o => files'[b][x] = files[b][x]
           /\ \A c \in BatchNumbers :
                 /\ DOMAIN files'[c] \subseteq Offsets \cup {MaxOffset + 1}
                 /\ \A x \in DOMAIN files'[c] : files'[c][x] \subseteq Offsets
<1>1. /\ DOMAIN files' = BatchNumbers
      /\ \A c \in BatchNumbers : c # b => files'[c] = files[c]
      /\ files'[b] = [files[b] EXCEPT ![o] = @ \cup {n}]
  BY DEF TypeOK
<1>2. /\ DOMAIN files'[b] = DOMAIN files[b]
      /\ o \in DOMAIN files[b] => files'[b][o] = files[b][o] \cup {n}
      /\ \A x \in DOMAIN files[b] : x # o => files'[b][x] = files[b][x]
  BY <1>1
<1>3. ASSUME NEW c \in BatchNumbers
      PROVE  /\ DOMAIN files'[c] \subseteq Offsets \cup {MaxOffset + 1}
             /\ \A x \in DOMAIN files'[c] : files'[c][x] \subseteq Offsets
  <2>1. /\ DOMAIN files[c] \subseteq Offsets \cup {MaxOffset + 1}
        /\ \A x \in DOMAIN files[c] : files[c][x] \subseteq Offsets
    BY FileFact
  <2>2. CASE c = b
    <3>1. DOMAIN files'[c] \subseteq Offsets \cup {MaxOffset + 1}
      BY <1>2, <2>1, <2>2
    <3>2. ASSUME NEW x \in DOMAIN files'[c] PROVE files'[c][x] \subseteq Offsets
      <4>1. CASE x = o
        BY <1>2, <2>1, <2>2, <3>2, <4>1
      <4>2. CASE x # o
        BY <1>2, <2>1, <2>2, <3>2, <4>2
      <4> QED BY <4>1, <4>2
    <3> QED BY <3>1, <3>2
  <2>3. CASE c # b
    <3>1. files'[c] = files[c]
      BY <1>1, <2>3
    <3> QED BY <2>1, <3>1
  <2> QED BY <2>2, <2>3
<1>4. /\ DOMAIN files' = BatchNumbers
      /\ \A c \in BatchNumbers : c # b => files'[c] = files[c]
  BY <1>1
<1> QED BY <1>2, <1>3, <1>4

\* The part of TypeOK about jobs.
JobTypes ==
    /\ client \in [Jobs -> {"idle", "starting", "sending", "stopping",
                            "publishing", "switching", "done", "failed"}]
    /\ newBatch \in [Jobs -> BOOLEAN]
    /\ next \in [Jobs -> 0..(MaxOffset + 1)]
    /\ handler \in [Jobs -> {"none", "findLatest", "openBatch", "openFile",
                             "open", "ending", "logging", "stopped"}]
    /\ entity \in [Jobs -> Entity \cup {None}]
    /\ batch \in [Jobs -> BatchNumbers \cup {None}]
    /\ lastObserved \in [Jobs -> -1..MaxOffset]
    /\ start \in [Jobs -> 0..(MaxOffset + 1)]
    /\ unflushed \in [Jobs -> BOOLEAN]
    /\ saving \in [Jobs -> Entity \cup {None}]
    /\ publishing \in [Jobs -> Entity \cup {None}]
    /\ spent \in [{"timeout", "disconnect", "crash"} -> Nat]
    /\ overlapped \in BOOLEAN

FileTypes ==
    /\ DOMAIN files = BatchNumbers
    /\ \A b \in BatchNumbers : /\ DOMAIN files[b] \subseteq Offsets \cup {MaxOffset + 1}
                               /\ \A o \in DOMAIN files[b] : files[b][o] \subseteq Offsets

LEMMA TypeParts ==
    TypeOK <=> /\ rows \in Seq(Row) /\ Len(rows) \in 0..Cardinality(Jobs)
               /\ FileTypes /\ JobTypes
BY DEF TypeOK, FileTypes, JobTypes

Untouched(i) ==
    /\ client'[i] = client[i] /\ handler'[i] = handler[i] /\ batch'[i] = batch[i]
    /\ entity'[i] = entity[i] /\ saving'[i] = saving[i] /\ publishing'[i] = publishing[i]

\* A step of j that opens no batch.
LEMMA TypesOf ==
    ASSUME Types, NEW j \in Jobs, FileTypes', JobTypes', Known(j)', batch' = batch,
           rows' \in Seq(Row), Len(rows') = Len(rows), \A i \in Jobs \ {j} : Untouched(i)
    PROVE  Types'
<1>1. TypeOK'
  <2>1. Len(rows') \in 0..Cardinality(Jobs)
    BY DEF Types, TypeOK
  <2> QED BY <2>1 DEF TypeOK, FileTypes, JobTypes
<1>2. \A i \in Jobs \ {j} : Known(i)'
  BY KnownOther, TableFact DEF Types, Untouched
<1>3. Opened' = Opened
  BY DEF Opened
<1> QED BY <1>1, <1>2, <1>3 DEF Types

LEMMA BeginJobTypes == ASSUME Types, NEW j \in Jobs, BeginJob(j) PROVE Types'
<1>1. TypeOK /\ JobTypes /\ FileTypes /\ Known(j)
  BY TypeParts DEF Types
<1>2. PICK full \in BOOLEAN :
         /\ newBatch' = [newBatch EXCEPT ![j] = full \/ SinkStateMissing]
         /\ next' = [next EXCEPT ![j] = IF full THEN 0 ELSE SinkOffset + 1]
  BY DEF BeginJob
<1>3. newBatch' \in [Jobs -> BOOLEAN]
  BY <1>1, <1>2 DEF JobTypes
<1>4. next' \in [Jobs -> 0..(MaxOffset + 1)]
  <2>1. next'[j] \in 0..(MaxOffset + 1)
    BY JobsFact DEF BeginJob, Offsets
  <2>2. next' = [next EXCEPT ![j] = next'[j]]
    BY <1>1, <1>2 DEF JobTypes
  <2> QED BY <1>1, <2>1, <2>2 DEF JobTypes
<1>5. client' = [client EXCEPT ![j] = "starting"] /\ handler' = [handler EXCEPT ![j] = "findLatest"]
  BY DEF BeginJob, ClientGoes, HandlerGoes
<1>6. UNCHANGED <<rows, files, entity, batch, lastObserved, start, unflushed, saving, publishing, spent>>
  BY DEF BeginJob
<1>10. overlapped' \in BOOLEAN
  BY DEF BeginJob
<1>7. JobTypes'
  BY <1>1, <1>3, <1>4, <1>5, <1>6, <1>10 DEF JobTypes
<1>8. Known(j)'
  BY <1>1, <1>5, <1>6 DEF Known, JobTypes, Handles, BeginJob
<1>9. \A i \in Jobs \ {j} : Untouched(i)
  BY <1>1, <1>5, <1>6 DEF Untouched, JobTypes
<1> QED BY <1>1, <1>6, <1>7, <1>8, <1>9, TypesOf DEF FileTypes, TypeOK

LEMMA FindLatestTypes == ASSUME Types, NEW j \in Jobs, FindLatest(j) PROVE Types'
<1>1. TypeOK /\ JobTypes /\ FileTypes /\ Known(j) /\ handler[j] = "findLatest"
  BY TypeParts DEF Types, FindLatest
<1>2. /\ entity' = [entity EXCEPT ![j] = FindLatestBatch]
      /\ handler' = [handler EXCEPT ![j] = "openBatch"]
      /\ UNCHANGED <<rows, files, clientVars, batch, lastObserved, start,
                   unflushed, saving, publishing, historyVars>>
  BY DEF FindLatest, HandlerGoes
<1>3. JobTypes'
  BY <1>1, <1>2, LatestFact DEF historyVars, JobTypes, clientVars
<1>4. Known(j)'
  BY <1>1, <1>2, LatestFact DEF Known, JobTypes, Handles, clientVars
<1>5. \A i \in Jobs \ {j} : Untouched(i)
  BY <1>1, <1>2 DEF Untouched, JobTypes, clientVars
<1> QED BY <1>1, <1>2, <1>3, <1>4, <1>5, TypesOf DEF FileTypes, TypeOK

\* A new batch has a number that no job has had.
NewRow == [default |-> FALSE, lastOffset |-> -1]
Adds(j) ==
    /\ newBatch[j] \/ entity[j] = None
    /\ rows' = Append(rows, NewRow)
    /\ batch' = [batch EXCEPT ![j] = Len(rows) + 1]
    /\ lastObserved' = [lastObserved EXCEPT ![j] = -1]
Continues(j) ==
    /\ ~newBatch[j] /\ entity[j] # None
    /\ rows' = rows
    /\ batch' = [batch EXCEPT ![j] = entity[j].batch]
    /\ lastObserved' = [lastObserved EXCEPT ![j] = entity[j].lastOffset]

LEMMA OpenBatchFact ==
    ASSUME Types, NEW j \in Jobs, OpenBatch(j)
    PROVE  /\ Adds(j) \/ Continues(j)
           /\ handler[j] = "openBatch" /\ handler' = [handler EXCEPT ![j] = "openFile"]
           /\ UNCHANGED <<files, clientVars, entity, start, unflushed, saving, publishing, historyVars>>
BY DEF OpenBatch, Adds, Continues, NewRow, HandlerGoes

LEMMA OpenBatchTypes ==
    ASSUME Types, NEW j \in Jobs, OpenBatch(j)
    PROVE  Types'
<1>1. /\ TypeOK /\ JobTypes /\ FileTypes /\ Known(j)
      /\ handler[j] = "openBatch" /\ handler' = [handler EXCEPT ![j] = "openFile"]
      /\ batch[j] = None /\ Len(rows) \in Nat /\ Len(rows) <= Cardinality(Opened)
  BY TypeParts, OpenBatchFact, TableFact DEF Types, Known
<1>2. UNCHANGED <<files, clientVars, entity, start, unflushed, saving, publishing, historyVars>>
  BY OpenBatchFact
<1>3. /\ Len(rows') \in Nat /\ Len(rows) <= Len(rows') /\ Len(rows') <= Len(rows) + 1
      /\ rows' \in Seq(Row) /\ batch'[j] \in 1..Len(rows')
      /\ lastObserved'[j] \in -1..MaxOffset
      /\ batch' = [batch EXCEPT ![j] = batch'[j]]
      /\ lastObserved' = [lastObserved EXCEPT ![j] = lastObserved'[j]]
  <2>1. CASE Adds(j)
    <3>1. NewRow \in Row /\ -1 \in -1..MaxOffset
      BY JobsFact DEF NewRow, Row
    <3>2. rows' \in Seq(Row) /\ Len(rows') = Len(rows) + 1
      BY <1>1, <2>1, <3>1, RowAdded DEF Adds
    <3>3. batch'[j] = Len(rows) + 1 /\ lastObserved'[j] = -1
      BY <1>1, <2>1 DEF Adds, JobTypes
    <3>4. /\ Len(rows') \in Nat /\ Len(rows) <= Len(rows') /\ Len(rows') <= Len(rows) + 1
          /\ batch'[j] \in 1..Len(rows')
      BY <1>1, <3>2, <3>3
    <3>5. /\ batch' = [batch EXCEPT ![j] = batch'[j]]
          /\ lastObserved' = [lastObserved EXCEPT ![j] = lastObserved'[j]]
      BY <2>1, <3>3 DEF Adds
    <3> QED BY <3>1, <3>2, <3>3, <3>4, <3>5
  <2>2. CASE Continues(j)
    <3>1. entity[j] \in Entity /\ entity[j].batch \in 1..Len(rows)
      BY <1>1, <2>2 DEF Continues, JobTypes, Known
    <3>2. batch'[j] = entity[j].batch /\ lastObserved'[j] = entity[j].lastOffset
      BY <1>1, <2>2 DEF Continues, JobTypes
    <3> QED BY <1>1, <2>2, <3>1, <3>2 DEF Continues, Entity, TypeOK
  <2> QED BY <2>1, <2>2, OpenBatchFact
<1>4. Cardinality(Opened') = Cardinality(Opened) + 1 /\ Cardinality(Opened') <= Cardinality(Jobs)
  <2>1. batch'[j] # None
    <3>1. Len(rows') <= Cardinality(Opened) + 1
      BY <1>1, <1>3, JobsFact DEF Opened
    <3>2. CASE Adds(j)
      <4>1. Opened \cup {j} \in SUBSET Jobs /\ j \notin Opened
        BY <1>1 DEF Opened
      <4>2. Cardinality(Opened \cup {j}) = Cardinality(Opened) + 1
        BY <4>1, JobsFact, FS_AddElement DEF Opened
      <4>3. Len(rows) + 1 <= Cardinality(Jobs)
        BY <1>1, <4>1, <4>2, JobsFact DEF Opened
      <4>4. batch'[j] \in BatchNumbers
        BY <1>1, <3>2, <4>3, JobsFact DEF Adds, BatchNumbers, JobTypes
      <4> QED BY <4>4, NoneAssumption
    <3>3. CASE Continues(j)
      <4>1. batch'[j] \in BatchNumbers
        BY <1>1, <1>3, <3>3, TableFact DEF Continues
      <4> QED BY <4>1, NoneAssumption
    <3> QED BY <3>2, <3>3, OpenBatchFact
  <2>2. Opened' = Opened \cup {j} /\ j \notin Opened
    BY <1>1, <1>3, <2>1 DEF Opened, JobTypes
  <2>3. Opened \in SUBSET Jobs /\ Opened' \in SUBSET Jobs
    BY DEF Opened
  <2> QED BY <2>2, <2>3, JobsFact, FS_AddElement
<1>5. Len(rows') \in 0..Cardinality(Jobs) /\ Len(rows') <= Cardinality(Opened')
  <2>1. Cardinality(Opened) \in Nat /\ Cardinality(Jobs) \in Nat
    BY JobsFact DEF Opened
  <2> QED BY <1>1, <1>3, <1>4, <2>1
<1>6. batch'[j] \in BatchNumbers /\ batch'[j] # None
  BY <1>3, <1>5, JobsFact, NoneAssumption DEF BatchNumbers
<1>7. JobTypes'
  BY <1>1, <1>2, <1>3, <1>6 DEF historyVars, JobTypes, clientVars
<1>8. Known(j)'
  BY <1>1, <1>2, <1>3, <1>6 DEF Known, JobTypes, Handles, clientVars
<1>9. \A i \in Jobs \ {j} : Known(i)'
  <2>1. \A i \in Jobs \ {j} : Untouched(i)
    BY <1>1, <1>2, <1>3 DEF Untouched, JobTypes, clientVars
  <2> QED BY <1>1, <1>3, <2>1, KnownOther DEF Types, Untouched
<1>10. TypeOK'
  BY <1>1, <1>2, <1>3, <1>5, <1>7 DEF TypeOK, JobTypes, FileTypes
<1> QED BY <1>5, <1>8, <1>9, <1>10 DEF Types

LEMMA RefuseUploadTypes == ASSUME Types, NEW j \in Jobs, RefuseUpload(j) PROVE Types'
<1>1. TypeOK /\ JobTypes /\ FileTypes /\ Known(j) /\ handler[j] = "openBatch"
  BY TypeParts DEF Types, RefuseUpload
<1>2. /\ client' = [client EXCEPT ![j] = "failed"] /\ handler' = [handler EXCEPT ![j] = "none"]
      /\ UNCHANGED <<rows, files, newBatch, next, entity, batch, lastObserved,
                     start, unflushed, saving, publishing, historyVars>>
  BY DEF RefuseUpload, ClientGoes, HandlerGoes
<1>3. JobTypes'
  BY <1>1, <1>2 DEF historyVars, JobTypes
<1>4. Known(j)'
  BY <1>1, <1>2 DEF Known, JobTypes, Handles
<1>5. \A i \in Jobs \ {j} : Untouched(i)
  BY <1>1, <1>2 DEF Untouched, JobTypes
<1> QED BY <1>1, <1>2, <1>3, <1>4, <1>5, TypesOf DEF FileTypes, TypeOK

LEMMA OpenFileTypes == ASSUME Types, NEW j \in Jobs, OpenFile(j) PROVE Types'
<1>1. TypeOK /\ JobTypes /\ FileTypes /\ Known(j) /\ handler[j] = "openFile"
  BY TypeParts DEF Types, OpenFile
<1>2. /\ client' = [client EXCEPT ![j] = IF @ = "starting" THEN "sending" ELSE @]
      /\ handler' = [handler EXCEPT ![j] = "open"]
      /\ start' = [start EXCEPT ![j] = lastObserved[j] + 1]
      /\ files' = Truncated(batch[j], lastObserved[j] + 1)
      /\ UNCHANGED <<rows, newBatch, next, entity, batch, lastObserved, unflushed, saving, publishing,
                     historyVars>>
  BY DEF OpenFile, HandlerGoes
<1>3. lastObserved[j] + 1 \in 0..(MaxOffset + 1) /\ batch[j] \in BatchNumbers
  BY <1>1, JobsFact, TableFact DEF JobTypes, Known, Handles
<1>4. JobTypes'
  BY <1>1, <1>2, <1>3 DEF historyVars, JobTypes
<1>5. FileTypes'
  BY <1>1, <1>2, <1>3, FilesTruncated DEF FileTypes
<1>6. Known(j)'
  BY <1>1, <1>2 DEF Known, JobTypes, Handles
<1>7. \A i \in Jobs \ {j} : Untouched(i)
  BY <1>1, <1>2 DEF Untouched, JobTypes
<1> QED BY <1>1, <1>2, <1>4, <1>5, <1>6, <1>7, TypesOf DEF TypeOK

LEMMA SendTypes == ASSUME Types, NEW j \in Jobs, Send(j) PROVE Types'
<1>1. /\ TypeOK /\ JobTypes /\ FileTypes /\ Known(j) /\ handler[j] = "open"
      /\ next[j] \in Offsets
  BY TypeParts DEF Types, Send
<1>2. /\ lastObserved' = [lastObserved EXCEPT ![j] = next[j]]
      /\ files' = [files EXCEPT ![batch[j]][start[j]] = @ \cup {next[j]}]
      /\ unflushed' = [unflushed EXCEPT ![j] = TRUE]
      /\ next' = [next EXCEPT ![j] = @ + 1]
      /\ UNCHANGED <<rows, client, newBatch, handler, entity, batch, start,
                     saving, publishing, historyVars>>
  BY DEF Send
<1>3. /\ next[j] + 1 \in 0..(MaxOffset + 1) /\ next[j] \in -1..MaxOffset
      /\ batch[j] \in BatchNumbers
  BY <1>1, JobsFact, TableFact DEF Known, Handles, Offsets
<1>4. JobTypes'
  BY <1>1, <1>2, <1>3 DEF historyVars, JobTypes
<1>5. FileTypes'
  BY <1>1, <1>2, <1>3, RecordStored DEF FileTypes
<1>6. Known(j)'
  BY <1>1, <1>2 DEF Known, JobTypes, Handles
<1>7. \A i \in Jobs \ {j} : Untouched(i)
  BY <1>1, <1>2 DEF Untouched, JobTypes
<1> QED BY <1>1, <1>2, <1>4, <1>5, <1>6, <1>7, TypesOf DEF TypeOK

LEMMA FinishSendingTypes == ASSUME Types, NEW j \in Jobs, FinishSending(j) PROVE Types'
<1>1. TypeOK /\ JobTypes /\ FileTypes /\ Known(j) /\ handler[j] = "open"
  BY TypeParts DEF Types, FinishSending
<1>2. /\ client' = [client EXCEPT ![j] = "stopping"] /\ handler' = [handler EXCEPT ![j] = "ending"]
      /\ UNCHANGED <<rows, files, newBatch, next, entity, batch, lastObserved,
                     start, unflushed, saving, publishing, historyVars>>
  BY DEF FinishSending, ClientGoes, HandlerGoes
<1>3. JobTypes'
  BY <1>1, <1>2 DEF historyVars, JobTypes
<1>4. Known(j)'
  BY <1>1, <1>2 DEF Known, JobTypes, Handles
<1>5. \A i \in Jobs \ {j} : Untouched(i)
  BY <1>1, <1>2 DEF Untouched, JobTypes
<1> QED BY <1>1, <1>2, <1>3, <1>4, <1>5, TypesOf DEF FileTypes, TypeOK

LEMMA FlushTypes == ASSUME Types, NEW j \in Jobs, Flush(j) PROVE Types'
<1>1. TypeOK /\ JobTypes /\ FileTypes /\ Known(j)
  BY TypeParts DEF Types
<1>2. /\ unflushed' = [unflushed EXCEPT ![j] = FALSE]
      /\ UNCHANGED <<rows, files, clientVars, handler, entity, batch, lastObserved,
                     start, saving, publishing, historyVars>>
  BY DEF Flush
<1>3. JobTypes'
  BY <1>1, <1>2 DEF historyVars, JobTypes, clientVars
<1>4. Known(j)' /\ \A i \in Jobs \ {j} : Untouched(i)
  BY <1>1, <1>2 DEF Known, Untouched, clientVars
<1> QED BY <1>1, <1>2, <1>3, <1>4, TypesOf DEF FileTypes, TypeOK

LEMMA ReadStopEntityTypes == ASSUME Types, NEW j \in Jobs, ReadStopEntity(j) PROVE Types'
<1>1. TypeOK /\ JobTypes /\ FileTypes /\ Known(j) /\ handler[j] = "ending"
  BY TypeParts DEF Types, ReadStopEntity
<1>2. /\ entity' = [entity EXCEPT ![j] = FindLatestBatch]
      /\ handler' = [handler EXCEPT ![j] = "logging"]
      /\ UNCHANGED <<rows, files, clientVars, batch, lastObserved, start, unflushed,
                     saving, publishing, historyVars>>
  BY DEF ReadStopEntity, HandlerGoes
<1>3. JobTypes'
  BY <1>1, <1>2, LatestFact DEF historyVars, JobTypes, clientVars
<1>4. FindLatestBatch # None
  <2>1. Len(rows) # 0
    BY <1>1, TableFact DEF Known, Handles
  <2> QED BY <1>1, <2>1, TableFact, LatestFact
<1>5. Known(j)'
  BY <1>1, <1>2, <1>4, LatestFact DEF Known, JobTypes, Handles, clientVars
<1>6. \A i \in Jobs \ {j} : Untouched(i)
  BY <1>1, <1>2 DEF Untouched, JobTypes, clientVars
<1> QED BY <1>1, <1>2, <1>3, <1>5, <1>6, TypesOf DEF FileTypes, TypeOK

LEMMA EndStopTypes == ASSUME Types, NEW j \in Jobs, EndStop(j) PROVE Types'
<1>1. /\ TypeOK /\ JobTypes /\ FileTypes /\ Known(j) /\ handler[j] = "logging"
      /\ entity[j] # None
  BY TypeParts DEF Types, EndStop, Known
<1>2. /\ saving' = [saving EXCEPT ![j] =
            IF lastObserved[j] # 0 /\ lastObserved[j] > entity[j].lastOffset
            THEN [entity[j] EXCEPT !.lastOffset = lastObserved[j]]
            ELSE None]
      /\ client' = [client EXCEPT ![j] = IF @ = "stopping" THEN "publishing" ELSE @]
      /\ handler' = [handler EXCEPT ![j] = "stopped"]
      /\ UNCHANGED <<rows, files, newBatch, next, entity, batch, lastObserved, start,
                     unflushed, publishing, historyVars>>
  BY DEF EndStop, HandlerGoes
<1>3. entity[j] \in Entity /\ lastObserved[j] \in -1..MaxOffset
  BY <1>1 DEF JobTypes
<1>4. [entity[j] EXCEPT !.lastOffset = lastObserved[j]] \in Entity
  BY <1>3 DEF Entity
<1>5. [entity[j] EXCEPT !.lastOffset = lastObserved[j]].batch \in 1..Len(rows)
  BY <1>1, <1>3 DEF Entity, Known
<1>6. /\ saving'[j] \in Entity \cup {None} /\ saving' = [saving EXCEPT ![j] = saving'[j]]
      /\ saving'[j] # None => saving'[j].batch \in 1..Len(rows)
  BY <1>1, <1>2, <1>4, <1>5 DEF JobTypes
<1>7. JobTypes'
  BY <1>1, <1>2, <1>6 DEF historyVars, JobTypes
<1>8. Known(j)'
  BY <1>1, <1>2, <1>6 DEF Known, JobTypes, Handles
<1>9. \A i \in Jobs \ {j} : Untouched(i)
  BY <1>1, <1>2 DEF Untouched, JobTypes
<1> QED BY <1>1, <1>2, <1>7, <1>8, <1>9, TypesOf DEF FileTypes, TypeOK

LEMMA SaveLandsTypes == ASSUME Types, NEW j \in Jobs, SaveLands(j) PROVE Types'
<1>1. TypeOK /\ JobTypes /\ FileTypes /\ Known(j) /\ saving[j] # None
  BY TypeParts DEF Types, SaveLands
<1>2. /\ saving' = [saving EXCEPT ![j] = None] /\ rows' \in {rows, Saved(saving[j])}
      /\ UNCHANGED <<files, clientVars, handlerVars, publishing, historyVars>>
  BY DEF SaveLands
<1>3. rows' \in Seq(Row) /\ Len(rows') = Len(rows)
  <2>1. saving[j] \in Entity /\ saving[j].batch \in 1..Len(rows)
    BY <1>1 DEF JobTypes, Known
  <2> QED BY <1>1, <1>2, <2>1, RowSaved DEF TypeOK
<1>4. JobTypes'
  BY <1>1, <1>2 DEF historyVars, JobTypes, clientVars, handlerVars
<1>5. Known(j)'
  BY <1>1, <1>2, <1>3 DEF Known, JobTypes, Handles, clientVars, handlerVars
<1>6. \A i \in Jobs \ {j} : Untouched(i)
  BY <1>1, <1>2 DEF Untouched, JobTypes, clientVars, handlerVars
<1> QED BY <1>1, <1>2, <1>3, <1>4, <1>5, <1>6, TypesOf DEF FileTypes, handlerVars

LEMMA StopTimeoutTypes == ASSUME Types, NEW j \in Jobs, StopTimeout(j) PROVE Types'
<1>1. TypeOK /\ JobTypes /\ FileTypes /\ Known(j) /\ client[j] = "stopping"
  BY TypeParts DEF Types, StopTimeout
<1>2. /\ client' = [client EXCEPT ![j] = "publishing"]
      /\ spent' = [spent EXCEPT !["timeout"] = @ + 1]
      /\ UNCHANGED <<rows, files, newBatch, next, handlerVars, saving, publishing, overlapped>>
  BY DEF StopTimeout, ClientGoes
<1>3. JobTypes'
  BY <1>1, <1>2 DEF historyVars, JobTypes, handlerVars
<1>4. Known(j)'
  BY <1>1, <1>2 DEF Known, JobTypes, Handles, handlerVars
<1>5. \A i \in Jobs \ {j} : Untouched(i)
  BY <1>1, <1>2 DEF Untouched, JobTypes, handlerVars
<1> QED BY <1>1, <1>2, <1>3, <1>4, <1>5, TypesOf DEF FileTypes, TypeOK, handlerVars

LEMMA FindBatchTypes == ASSUME Types, NEW j \in Jobs, FindBatch(j) PROVE Types'
<1>1. TypeOK /\ JobTypes /\ FileTypes /\ Known(j) /\ client[j] = "publishing"
  BY TypeParts DEF Types, FindBatch
<1>2. /\ publishing' = [publishing EXCEPT ![j] = EntityOf(batch[j])]
      /\ client' = [client EXCEPT ![j] = "switching"]
      /\ UNCHANGED <<rows, files, newBatch, next, handlerVars, saving, spent>>
      /\ overlapped' \in BOOLEAN
  BY DEF FindBatch, ClientGoes
<1>3. /\ EntityOf(batch[j]) \in Entity /\ EntityOf(batch[j]) # None
      /\ EntityOf(batch[j]).batch \in 1..Len(rows)
  BY <1>1, TableFact DEF Known
<1>4. JobTypes'
  BY <1>1, <1>2, <1>3 DEF historyVars, JobTypes, handlerVars
<1>5. Known(j)'
  BY <1>1, <1>2, <1>3 DEF Known, JobTypes, Handles, handlerVars
<1>6. \A i \in Jobs \ {j} : Untouched(i)
  BY <1>1, <1>2 DEF Untouched, JobTypes, handlerVars
<1> QED BY <1>1, <1>2, <1>4, <1>5, <1>6, TypesOf DEF FileTypes, TypeOK, handlerVars

LEMMA PublishFact ==
    ASSUME Types, NEW j \in Jobs, Publish(j)
    PROVE  /\ client[j] = "switching" /\ batch[j] \in 1..Len(rows)
           /\ publishing[j] \in Entity /\ publishing[j].lastOffset \in -1..MaxOffset
           /\ rows' \in Seq(Row) /\ Len(rows') = Len(rows)
           /\ \A b \in 1..Len(rows) :
                 /\ b = batch[j] => rows'[b] = [default |-> TRUE, lastOffset |-> publishing[j].lastOffset]
                 /\ b # batch[j] => ~rows'[b].default /\ rows'[b].lastOffset = rows[b].lastOffset
<1>1. TypeOK /\ JobTypes /\ Known(j) /\ client[j] = "switching"
  BY TypeParts DEF Types, Publish
<1>2. /\ batch[j] \in 1..Len(rows) /\ publishing[j] \in Entity
      /\ publishing[j].lastOffset \in -1..MaxOffset
  BY <1>1 DEF Known, JobTypes, Entity
<1>3. rows' = [b \in 1..Len(rows) |->
                  IF b = batch[j] THEN [default |-> TRUE, lastOffset |-> publishing[j].lastOffset]
                  ELSE [rows[b] EXCEPT !.default = FALSE]]
  BY DEF Publish
<1> QED BY <1>1, <1>2, <1>3, RowsPublished

LEMMA PublishTypes == ASSUME Types, NEW j \in Jobs, Publish(j) PROVE Types'
<1>1. TypeOK /\ JobTypes /\ FileTypes /\ Known(j)
  BY TypeParts DEF Types
<1>2. /\ publishing' = [publishing EXCEPT ![j] = None]
      /\ client' = [client EXCEPT ![j] = "done"]
      /\ UNCHANGED <<files, newBatch, next, handlerVars, saving, historyVars>>
  BY DEF Publish, ClientGoes
<1>3. /\ rows' \in Seq(Row) /\ Len(rows') = Len(rows) /\ client[j] = "switching"
  BY PublishFact
<1>4. JobTypes'
  BY <1>1, <1>2 DEF historyVars, JobTypes, handlerVars
<1>5. Known(j)'
  BY <1>1, <1>2, <1>3 DEF Known, JobTypes, Handles, handlerVars
<1>6. \A i \in Jobs \ {j} : Untouched(i)
  BY <1>1, <1>2 DEF Untouched, JobTypes, handlerVars
<1> QED BY <1>1, <1>2, <1>3, <1>4, <1>5, <1>6, TypesOf DEF FileTypes, handlerVars

LEMMA DisconnectTypes == ASSUME Types, NEW j \in Jobs, Disconnect(j) PROVE Types'
<1>1. TypeOK /\ JobTypes /\ FileTypes /\ Known(j)
  BY TypeParts DEF Types
<1>2. /\ client' = [client EXCEPT ![j] = "failed"]
      /\ handler' = [handler EXCEPT ![j] = IF @ = "open" THEN "ending" ELSE @]
      /\ spent' = [spent EXCEPT !["disconnect"] = @ + 1]
      /\ UNCHANGED <<rows, files, newBatch, next, entity, batch, lastObserved, start,
                     unflushed, saving, publishing, overlapped>>
  BY DEF Disconnect, ClientGoes
<1>3. JobTypes'
  BY <1>1, <1>2 DEF historyVars, JobTypes
<1>4. Known(j)'
  BY <1>1, <1>2 DEF Known, JobTypes, Handles
<1>5. \A i \in Jobs \ {j} : Untouched(i)
  BY <1>1, <1>2 DEF Untouched, JobTypes
<1> QED BY <1>1, <1>2, <1>3, <1>4, <1>5, TypesOf DEF FileTypes, TypeOK

\* A stop of the server leaves the files that are there, with what they had or less.
LEMMA ServerStopsFiles ==
    ASSUME FileTypes, ServerStops
    PROVE  /\ DOMAIN files' = BatchNumbers
           /\ \A b \in BatchNumbers : DOMAIN files'[b] = DOMAIN files[b]
           /\ \A b \in BatchNumbers : \A o \in DOMAIN files[b] : files'[b][o] \subseteq files[b][o]
<1>1. PICK kept \in 0..(MaxOffset + 1) :
        files' = [b \in BatchNumbers |->
                     [o \in DOMAIN files[b] |->
                        IF \E j \in Jobs : unflushed[j] /\ batch[j] = b /\ start[j] = o
                        THEN {x \in files[b][o] : x < kept} ELSE files[b][o]]]
  BY DEF ServerStops
<1> QED BY <1>1 DEF FileTypes

LEMMA ServerStopsTypes == ASSUME Types, ServerStops PROVE Types'
<1>1. TypeOK /\ JobTypes /\ FileTypes /\ \A j \in Jobs : Known(j)
  BY TypeParts DEF Types
<1>2. /\ handler' = [j \in Jobs |-> IF handler[j] = "stopped" THEN "stopped" ELSE "none"]
      /\ unflushed' = [j \in Jobs |-> FALSE]
      /\ saving' = [j \in Jobs |-> None]
      /\ publishing' = [j \in Jobs |-> None]
      /\ client' = [j \in Jobs |-> IF j \in Running THEN "failed" ELSE client[j]]
      /\ spent' = [spent EXCEPT !["crash"] = @ + 1]
      /\ UNCHANGED <<rows, newBatch, next, entity, batch, lastObserved, start, overlapped>>
  BY DEF ServerStops
<1>3. JobTypes'
  BY <1>1, <1>2 DEF historyVars, JobTypes
<1>4. FileTypes'
  BY <1>1, ServerStopsFiles DEF FileTypes
<1>5. ASSUME NEW j \in Jobs PROVE Known(j)'
  <2>1. client'[j] \in {"idle", "done", "failed"} /\ (client'[j] = "idle" => client[j] = "idle")
    BY <1>1, <1>2 DEF Running, JobTypes
  <2>2. handler'[j] = IF handler[j] = "stopped" THEN "stopped" ELSE "none"
    BY <1>2
  <2> QED BY <1>1, <1>2, <2>1, <2>2 DEF Known, Handles
<1>6. TypeOK'
  BY <1>1, <1>2, <1>3, <1>4 DEF TypeOK, JobTypes, FileTypes
<1>7. Opened' = Opened
  BY <1>2 DEF Opened
<1> QED BY <1>2, <1>5, <1>6, <1>7 DEF Types

LEMMA TypesStep == Types /\ [Next]_vars => Types'
<1> SUFFICES ASSUME Types, [Next]_vars PROVE Types'
  OBVIOUS
<1>1. CASE UNCHANGED vars
  <2>1. Opened' = Opened /\ TypeOK'
    BY <1>1 DEF Opened, vars, clientVars, handlerVars, historyVars, Types, TypeOK
  <2> QED BY <1>1, <2>1 DEF vars, clientVars, handlerVars, Types, Known
<1>2. ASSUME NEW j \in Jobs, BeginJob(j) \/ Progress(j) \/ StopTimeout(j) \/ Disconnect(j)
      PROVE  Types'
  BY <1>2, BeginJobTypes, FindLatestTypes, OpenBatchTypes, RefuseUploadTypes, OpenFileTypes,
     SendTypes, FinishSendingTypes, FlushTypes, ReadStopEntityTypes, EndStopTypes, SaveLandsTypes,
     FindBatchTypes, PublishTypes, StopTimeoutTypes, DisconnectTypes, ServerStopsTypes
     DEF Progress, RejectRecord
<1> QED BY <1>1, <1>2, ServerStopsTypes DEF Next, Quiet, Crash

LEMMA TypesInit == Init => Types
<1> SUFFICES ASSUME Init PROVE Types
  OBVIOUS
<1>1. rows \in Seq(Row) /\ Len(rows) = 0
  BY EmptySeq DEF Init
<1>2. FileTypes
  <2>1. \A b \in BatchNumbers : files[b] = <<>>
    BY DEF Init
  <2>2. DOMAIN <<>> = {}
    OBVIOUS
  <2> QED BY <2>1, <2>2 DEF FileTypes, Init
<1>3. JobTypes
  <2>1. overlapped \in BOOLEAN
    BY DEF Init
  <2> QED BY <2>1, JobsFact DEF Init, JobTypes
<1>4. TypeOK /\ Opened \in SUBSET Jobs
  BY <1>1, <1>2, <1>3, TypeParts, JobsFact DEF Opened
<1>5. Len(rows) <= Cardinality(Opened)
  BY <1>1, <1>4, JobsFact
<1>6. \A j \in Jobs : Known(j)
  BY DEF Init, Known, Handles
<1> QED BY <1>4, <1>5, <1>6 DEF Types

\* A new batch has a number of its own, and no job asks for a batch twice.
LEMMA OwnStep == Types /\ NewBatchesAreOwn /\ [Next]_vars => NewBatchesAreOwn'
<1> SUFFICES ASSUME Types, NewBatchesAreOwn, [Next]_vars PROVE NewBatchesAreOwn'
  OBVIOUS
<1>1. TypeOK /\ JobTypes /\ \A j \in Jobs : Known(j)
  BY TypeParts DEF Types
<1>2. ASSUME UNCHANGED <<newBatch, batch>> PROVE NewBatchesAreOwn'
  BY <1>2 DEF NewBatchesAreOwn
<1>3. ASSUME NEW j \in Jobs, BeginJob(j) PROVE NewBatchesAreOwn'
  <2>1. batch[j] = None /\ batch' = batch
    BY <1>1, <1>3 DEF BeginJob, Known
  <2>2. \A i \in Jobs \ {j} : newBatch'[i] = newBatch[i]
    BY <1>1, <1>3 DEF BeginJob, JobTypes
  <2> QED BY <2>1, <2>2 DEF NewBatchesAreOwn
<1>4. ASSUME NEW j \in Jobs, OpenBatch(j) PROVE NewBatchesAreOwn'
  <2>0. (Adds(j) \/ Continues(j)) /\ newBatch' = newBatch
    BY <1>1, <1>4, OpenBatchFact DEF clientVars
  <2>1. newBatch' = newBatch /\ \A i \in Jobs \ {j} : batch'[i] = batch[i]
    <3>1. CASE Adds(j)
      BY <1>1, <2>0, <3>1 DEF Adds, JobTypes
    <3>2. CASE Continues(j)
      BY <1>1, <2>0, <3>2 DEF Continues, JobTypes
    <3> QED BY <2>0, <3>1, <3>2
  <2>2. CASE Adds(j)
    <3>1. batch'[j] = Len(rows) + 1 /\ Len(rows) \in Nat
      BY <1>1, <2>2, TableFact DEF Adds, JobTypes
    <3>2. \A i \in Jobs : batch[i] # None => batch[i] \in 1..Len(rows)
      BY <1>1 DEF Known
    <3>3. \A i \in Jobs : batch[i] # None => batch[i] # Len(rows) + 1
      BY <3>1, <3>2
    <3> QED BY <2>1, <3>1, <3>3 DEF NewBatchesAreOwn
  <2>3. CASE Continues(j)
    BY <2>1, <2>3 DEF Continues, NewBatchesAreOwn
  <2> QED BY <1>4, <2>2, <2>3, OpenBatchFact
<1>5. ASSUME NEW j \in Jobs, Progress(j), ~OpenBatch(j) PROVE UNCHANGED <<newBatch, batch>>
  <2>1. CASE FindLatest(j) \/ RefuseUpload(j) \/ OpenFile(j) \/ Send(j)
    BY <2>1 DEF FindLatest, RefuseUpload, OpenFile, Send, clientVars
  <2>2. CASE RejectRecord(j) \/ FinishSending(j) \/ Flush(j) \/ ReadStopEntity(j)
    BY <2>2 DEF RejectRecord, ServerStops, FinishSending, Flush, ReadStopEntity, clientVars
  <2>3. CASE EndStop(j) \/ SaveLands(j) \/ FindBatch(j) \/ Publish(j)
    BY <2>3 DEF EndStop, SaveLands, FindBatch, Publish, clientVars, handlerVars
  <2> QED BY <1>5, <2>1, <2>2, <2>3 DEF Progress
<1>6. ASSUME NEW j \in Jobs, StopTimeout(j) \/ Disconnect(j) PROVE UNCHANGED <<newBatch, batch>>
  BY <1>6 DEF StopTimeout, Disconnect, handlerVars
<1>7. ASSUME Crash PROVE UNCHANGED <<newBatch, batch>>
  BY <1>7 DEF Crash, ServerStops
<1>8. CASE UNCHANGED vars
  BY <1>2, <1>8 DEF vars, clientVars, handlerVars
<1> QED BY <1>2, <1>3, <1>4, <1>5, <1>6, <1>7, <1>8 DEF Next, Quiet

LEMMA TypesInvariance == Spec => []Types
BY TypesInit, TypesStep, PTL DEF Spec

\* Every variable keeps to its values, and the batch table has at most one row for
\* each upload, whatever jobs do at the same time and whatever is lost.
THEOREM UploadTypes == Spec => []TypeOK
<1>1. Types => TypeOK
  BY DEF Types
<1> QED BY <1>1, TypesInvariance, PTL

\* start() gives every upload that asks for a new batch one of its own, however
\* findLatestBatch and the INSERT of any number of uploads interleave, and whatever
\* times out, is disconnected or crashes in between.
THEOREM NewBatchIsOwn == Spec => []NewBatchesAreOwn
<1>1. Init => NewBatchesAreOwn
  BY DEF Init, NewBatchesAreOwn
<1> QED BY <1>1, OwnStep, TypesInvariance, PTL DEF Spec


-----------------------------------------------------------------------------
(* The steps there are.                                                    *)

\* The steps of a job that has begun, while the server lives.
Works(j) ==
    \/ FindLatest(j) \/ OpenBatch(j) \/ RefuseUpload(j) \/ OpenFile(j)
    \/ Send(j) \/ FinishSending(j)
    \/ Flush(j) \/ ReadStopEntity(j) \/ EndStop(j) \/ SaveLands(j)
    \/ FindBatch(j) \/ Publish(j) \/ StopTimeout(j) \/ Disconnect(j)

LEMMA Steps ==
    ASSUME [Next]_vars
    PROVE  \/ \E j \in Jobs : BeginJob(j) \/ Works(j)
           \/ ServerStops
           \/ UNCHANGED vars
BY DEF Next, Progress, Works, RejectRecord, Crash, Quiet

\* What a step of j leaves alone.
Same(i) ==
    /\ client'[i] = client[i] /\ handler'[i] = handler[i] /\ batch'[i] = batch[i]
    /\ entity'[i] = entity[i] /\ saving'[i] = saving[i] /\ publishing'[i] = publishing[i]
    /\ newBatch'[i] = newBatch[i] /\ next'[i] = next[i]
    /\ lastObserved'[i] = lastObserved[i] /\ start'[i] = start[i]

LEMMA OthersSame ==
    ASSUME Types, NEW j \in Jobs, BeginJob(j) \/ Works(j)
    PROVE  \A i \in Jobs \ {j} : Same(i)
<1>1. JobTypes
  BY TypeParts DEF Types
<1>2. CASE BeginJob(j)
  BY <1>1, <1>2 DEF Same, BeginJob, ClientGoes, HandlerGoes, JobTypes
<1>3. CASE FindLatest(j) \/ RefuseUpload(j) \/ OpenFile(j) \/ Send(j)
  BY <1>1, <1>3 DEF Same, FindLatest, RefuseUpload, OpenFile, Send, clientVars, ClientGoes,
                    HandlerGoes, JobTypes
<1>4. CASE FinishSending(j) \/ Flush(j) \/ ReadStopEntity(j)
  BY <1>1, <1>4 DEF Same, FinishSending, Flush, ReadStopEntity, clientVars,
                    ClientGoes, HandlerGoes, JobTypes
<1>5. CASE EndStop(j) \/ SaveLands(j) \/ FindBatch(j) \/ Publish(j)
  BY <1>1, <1>5 DEF Same, EndStop, SaveLands, FindBatch, Publish, clientVars, handlerVars,
                    ClientGoes, HandlerGoes, JobTypes
<1>6. CASE StopTimeout(j) \/ Disconnect(j)
  BY <1>1, <1>6 DEF Same, StopTimeout, Disconnect, handlerVars, ClientGoes, JobTypes
<1>7. CASE OpenBatch(j)
  <2>1. /\ handler' = [handler EXCEPT ![j] = "openFile"]
        /\ UNCHANGED <<clientVars, entity, start, saving, publishing>>
    BY <1>7, OpenBatchFact
  <2>2. ASSUME NEW i \in Jobs \ {j} PROVE batch'[i] = batch[i] /\ lastObserved'[i] = lastObserved[i]
    <3>1. CASE Adds(j)
      BY <1>1, <3>1 DEF Adds, JobTypes
    <3>2. CASE Continues(j)
      BY <1>1, <3>2 DEF Continues, JobTypes
    <3> QED BY <1>7, <3>1, <3>2, OpenBatchFact
  <2> QED BY <1>1, <2>1, <2>2 DEF Same, clientVars, JobTypes
<1> QED BY <1>2, <1>3, <1>4, <1>5, <1>6, <1>7 DEF Works

LEMMA BusySame == ASSUME NEW i \in Jobs, Same(i) PROVE Busy(i)' <=> Busy(i)
BY DEF Same, Busy, Running, AtWork, StopUnderWay

\* A file may be finished when the server is done with the job; all else is the
\* work of a job that is busy.
LEMMA WorksBusy ==
    ASSUME Types, NEW j \in Jobs, Works(j)
    PROVE  Busy(j) \/ (Flush(j) /\ Same(j))
<1>1. CASE FindLatest(j) \/ OpenBatch(j) \/ RefuseUpload(j) \/ OpenFile(j)
  BY <1>1 DEF FindLatest, OpenBatch, RefuseUpload, OpenFile, Busy, AtWork
<1>2. CASE Send(j) \/ FinishSending(j) \/ FindBatch(j) \/ Publish(j) \/ StopTimeout(j)
  BY <1>2 DEF Send, FinishSending, FindBatch, Publish, StopTimeout, Busy, Running
<1>3. CASE ReadStopEntity(j) \/ EndStop(j) \/ SaveLands(j)
  BY <1>3 DEF ReadStopEntity, EndStop, SaveLands, Busy, AtWork, StopUnderWay
<1>4. CASE Disconnect(j)
  BY <1>4 DEF Disconnect, Busy
<1>5. CASE Flush(j)
  BY <1>5 DEF Flush, Same, clientVars
<1> QED BY <1>1, <1>2, <1>3, <1>4, <1>5 DEF Works

\* Jobs in turn: nobody is busy when a job begins, and its stop is over when it
\* publishes.
LEMMA InTurn ==
    ASSUME [Next]_vars, ~overlapped'
    PROVE  /\ ~overlapped
           /\ \A j \in Jobs : BeginJob(j) => \A i \in Jobs : ~Busy(i)
           /\ \A j \in Jobs : FindBatch(j) => ~StopUnderWay(j)
<1>1. ASSUME NEW j \in Jobs, BeginJob(j) PROVE ~overlapped /\ \A i \in Jobs : ~Busy(i)
  BY <1>1 DEF BeginJob, Busy
<1>2. ASSUME NEW j \in Jobs, FindBatch(j) PROVE ~overlapped /\ ~StopUnderWay(j)
  BY <1>2 DEF FindBatch
<1>3. ASSUME NEW j \in Jobs, Works(j), ~FindBatch(j) PROVE ~overlapped
  <2>1. CASE FindLatest(j) \/ OpenBatch(j) \/ RefuseUpload(j) \/ OpenFile(j) \/ Send(j)
    BY <2>1 DEF FindLatest, OpenBatch, RefuseUpload, OpenFile, Send, historyVars
  <2>2. CASE FinishSending(j) \/ Flush(j) \/ ReadStopEntity(j) \/ EndStop(j)
    BY <2>2 DEF FinishSending, Flush, ReadStopEntity, EndStop, historyVars
  <2>3. CASE SaveLands(j) \/ Publish(j) \/ StopTimeout(j) \/ Disconnect(j)
    BY <2>3 DEF SaveLands, Publish, StopTimeout, Disconnect, historyVars
  <2> QED BY <1>3, <2>1, <2>2, <2>3 DEF Works
<1>4. ServerStops \/ UNCHANGED vars => ~overlapped
  BY DEF ServerStops, vars, historyVars
<1> QED BY <1>1, <1>2, <1>3, <1>4, Steps

\* A stop of the server is counted, and stays counted.
LEMMA NoStop ==
    ASSUME Types, [Next]_vars, NoCrash' PROVE NoCrash /\ ~ServerStops
<1>1. spent["crash"] \in Nat /\ spent \in [{"timeout", "disconnect", "crash"} -> Nat]
  BY TypeParts DEF Types, JobTypes
<1>2. ~ServerStops
  BY <1>1 DEF ServerStops, NoCrash
<1>3. ASSUME NEW j \in Jobs, Works(j), ~StopTimeout(j), ~Disconnect(j) PROVE spent' = spent
  <2>1. CASE FindLatest(j) \/ OpenBatch(j) \/ RefuseUpload(j) \/ OpenFile(j) \/ Send(j)
    BY <2>1 DEF FindLatest, OpenBatch, RefuseUpload, OpenFile, Send, historyVars
  <2>2. CASE FinishSending(j) \/ Flush(j) \/ ReadStopEntity(j) \/ EndStop(j)
    BY <2>2 DEF FinishSending, Flush, ReadStopEntity, EndStop, historyVars
  <2>3. CASE SaveLands(j) \/ FindBatch(j) \/ Publish(j)
    BY <2>3 DEF SaveLands, FindBatch, Publish, historyVars
  <2> QED BY <1>3, <2>1, <2>2, <2>3 DEF Works
<1>4. ASSUME NEW j \in Jobs, BeginJob(j) PROVE spent' = spent
  BY <1>4 DEF BeginJob
<1>5. ASSUME NEW j \in Jobs, StopTimeout(j) \/ Disconnect(j) PROVE spent'["crash"] = spent["crash"]
  BY <1>1, <1>5 DEF StopTimeout, Disconnect
<1>6. UNCHANGED vars => spent' = spent
  BY DEF vars, historyVars
<1>7. spent'["crash"] = spent["crash"]
  BY <1>2, <1>3, <1>4, <1>5, <1>6, Steps
<1> QED BY <1>2, <1>7 DEF NoCrash

\* A job that has failed stays so, with the batch it had.
LEMMA AbandonedStays ==
    ASSUME Types, [Next]_vars, ~Abandoned' PROVE ~Abandoned
<1> SUFFICES ASSUME NEW j \in Jobs, newBatch[j], client[j] = "failed", batch[j] # None
             PROVE  newBatch'[j] /\ client'[j] = "failed" /\ batch'[j] # None
  BY DEF Abandoned
<1>1. JobTypes /\ Types'
  BY TypesStep, TypeParts DEF Types
<1>2. CASE Same(j)
  BY <1>2 DEF Same
<1>3. CASE BeginJob(j)
  BY <1>3 DEF BeginJob
<1>4. CASE OpenBatch(j)
  <2>1. handler'[j] = "openFile" /\ UNCHANGED clientVars
    BY <1>1, <1>4, OpenBatchFact DEF JobTypes
  <2> QED BY <1>1, <2>1 DEF Types, Known, Handles, clientVars
<1>5. CASE FindLatest(j) \/ RefuseUpload(j) \/ OpenFile(j) \/ Flush(j) \/ ReadStopEntity(j)
  BY <1>1, <1>5 DEF FindLatest, RefuseUpload, OpenFile, Flush, ReadStopEntity, clientVars,
                    ClientGoes, JobTypes
<1>6. CASE EndStop(j) \/ SaveLands(j) \/ Disconnect(j)
  BY <1>1, <1>6 DEF EndStop, SaveLands, Disconnect, clientVars, handlerVars, ClientGoes, JobTypes
<1>7. CASE Send(j) \/ FinishSending(j) \/ FindBatch(j) \/ Publish(j) \/ StopTimeout(j)
  BY <1>7 DEF Send, FinishSending, FindBatch, Publish, StopTimeout
<1>8. CASE ServerStops
  BY <1>1, <1>8 DEF ServerStops, JobTypes, Running
<1>9. CASE UNCHANGED vars
  BY <1>9 DEF vars, clientVars, handlerVars
<1>10. ASSUME NEW i \in Jobs \ {j}, BeginJob(i) \/ Works(i) PROVE Same(j)
  BY <1>10, OthersSame
<1> QED BY <1>2, <1>3, <1>4, <1>5, <1>6, <1>7, <1>8, <1>9, <1>10, Steps DEF Works

-----------------------------------------------------------------------------
(* Where jobs and their handlers are.                                      *)

LEMMA PhaseStep ==
    ASSUME Types, NEW j \in Jobs, BeginJob(j) \/ Works(j), Phase(j),
           FindBatch(j) => ~StopUnderWay(j), BeginJob(j) => ~Busy(j)
    PROVE  Phase(j)'
<1>1. JobTypes
  BY TypeParts DEF Types
<1>2. CASE BeginJob(j)
  <2>1. client'[j] = "starting" /\ handler'[j] = "findLatest" /\ saving'[j] = None
    BY <1>1, <1>2 DEF BeginJob, ClientGoes, HandlerGoes, JobTypes, Busy, AtWork, StopUnderWay
  <2> QED BY <2>1 DEF Phase
<1>3. CASE FindLatest(j)
  <2>1. handler[j] = "findLatest" /\ handler'[j] = "openBatch" /\ UNCHANGED <<client, saving>>
    BY <1>1, <1>3 DEF FindLatest, HandlerGoes, JobTypes, clientVars
  <2> QED BY <2>1 DEF Phase
<1>4. CASE OpenBatch(j)
  <2>1. handler[j] = "openBatch" /\ handler'[j] = "openFile" /\ UNCHANGED <<client, saving>>
    BY <1>1, <1>4, OpenBatchFact DEF JobTypes, clientVars
  <2> QED BY <2>1 DEF Phase
<1>5. CASE RefuseUpload(j)
  <2>1. /\ handler[j] = "openBatch" /\ handler'[j] = "none" /\ client'[j] = "failed"
        /\ saving' = saving
    BY <1>1, <1>5 DEF RefuseUpload, HandlerGoes, ClientGoes, JobTypes
  <2> QED BY <2>1 DEF Phase
<1>6. CASE OpenFile(j)
  <2>1. /\ handler[j] = "openFile" /\ handler'[j] = "open" /\ saving' = saving
        /\ client'[j] = IF client[j] = "starting" THEN "sending" ELSE client[j]
    BY <1>1, <1>6 DEF OpenFile, HandlerGoes, JobTypes
  <2> QED BY <2>1 DEF Phase
<1>7. CASE Send(j) \/ Flush(j)
  BY <1>7 DEF Send, Flush, Phase, clientVars
<1>8. CASE FinishSending(j)
  <2>1. /\ handler[j] = "open" /\ handler'[j] = "ending" /\ client'[j] = "stopping"
        /\ saving' = saving
    BY <1>1, <1>8 DEF FinishSending, ClientGoes, HandlerGoes, JobTypes
  <2> QED BY <2>1 DEF Phase
<1>9. CASE ReadStopEntity(j)
  <2>1. handler[j] = "ending" /\ handler'[j] = "logging" /\ UNCHANGED <<client, saving>>
    BY <1>1, <1>9 DEF ReadStopEntity, HandlerGoes, JobTypes, clientVars
  <2> QED BY <2>1 DEF Phase
<1>10. CASE EndStop(j)
  <2>1. /\ handler[j] = "logging" /\ handler'[j] = "stopped"
        /\ client'[j] = IF client[j] = "stopping" THEN "publishing" ELSE client[j]
    BY <1>1, <1>10 DEF EndStop, HandlerGoes, JobTypes
  <2> QED BY <2>1 DEF Phase
<1>11. CASE SaveLands(j)
  <2>1. saving'[j] = None /\ UNCHANGED <<client, handler>>
    BY <1>1, <1>11 DEF SaveLands, JobTypes, clientVars, handlerVars
  <2> QED BY <2>1 DEF Phase
<1>12. CASE FindBatch(j)
  <2>1. client[j] = "publishing" /\ client'[j] = "switching" /\ UNCHANGED <<handler, saving>>
    BY <1>1, <1>12 DEF FindBatch, ClientGoes, JobTypes, handlerVars
  <2> QED BY <1>12, <2>1 DEF Phase, StopUnderWay
<1>13. CASE Publish(j)
  <2>1. client[j] = "switching" /\ client'[j] = "done" /\ UNCHANGED <<handler, saving>>
    BY <1>1, <1>13 DEF Publish, ClientGoes, JobTypes, handlerVars
  <2> QED BY <2>1 DEF Phase
<1>14. CASE StopTimeout(j)
  <2>1. client[j] = "stopping" /\ client'[j] = "publishing" /\ UNCHANGED <<handler, saving>>
    BY <1>1, <1>14 DEF StopTimeout, ClientGoes, JobTypes, handlerVars
  <2> QED BY <2>1 DEF Phase
<1>15. CASE Disconnect(j)
  <2>1. /\ client'[j] = "failed" /\ saving' = saving
        /\ handler'[j] = IF handler[j] = "open" THEN "ending" ELSE handler[j]
    BY <1>1, <1>15 DEF Disconnect, ClientGoes, JobTypes
  <2> QED BY <2>1 DEF Phase
<1> QED BY <1>2, <1>3, <1>4, <1>5, <1>6, <1>7, <1>8, <1>9, <1>10, <1>11, <1>12, <1>13, <1>14,
           <1>15 DEF Works

\* The server is done with everybody.
LEMMA NobodyBusy ==
    ASSUME Types, ServerStops PROVE \A i \in Jobs : ~Busy(i)' /\ saving'[i] = None
<1>1. /\ handler' = [i \in Jobs |-> IF handler[i] = "stopped" THEN "stopped" ELSE "none"]
      /\ client' = [i \in Jobs |-> IF i \in Running THEN "failed" ELSE client[i]]
      /\ saving' = [i \in Jobs |-> None]
  BY DEF ServerStops
<1>2. \A i \in Jobs : i \notin Running'
  BY <1>1, TypeParts DEF Running, Types, JobTypes
<1> QED BY <1>1, <1>2 DEF Busy, AtWork, StopUnderWay

LEMMA PhasesStep ==
    ASSUME Types, Phases, [Next]_vars, ~overlapped' PROVE Phases'
<1>1. ASSUME NEW j \in Jobs, BeginJob(j) \/ Works(j) PROVE Phases'
  <2>1. \A i \in Jobs \ {j} : Same(i) /\ (Busy(i)' <=> Busy(i))
    BY <1>1, OthersSame, BusySame
  <2>2. Phase(j)'
    BY <1>1, PhaseStep, InTurn DEF Phases
  <2>3. \A i \in Jobs \ {j} : Phase(i)'
    BY <2>1 DEF Phases, Phase, Same
  <2>4. Busy(j)' => Busy(j) \/ \A i \in Jobs : ~Busy(i)
    BY <1>1, WorksBusy, BusySame, InTurn
  <2>5. \A i, k \in Jobs : Busy(i)' /\ Busy(k)' => i = k
    BY <2>1, <2>4 DEF Phases
  <2> QED BY <2>2, <2>3, <2>5 DEF Phases
<1>2. CASE ServerStops
  <2>1. /\ handler' = [i \in Jobs |-> IF handler[i] = "stopped" THEN "stopped" ELSE "none"]
        /\ client' = [i \in Jobs |-> IF i \in Running THEN "failed" ELSE client[i]]
    BY <1>2 DEF ServerStops
  <2>2. \A i \in Jobs : ~Busy(i)' /\ saving'[i] = None
    BY <1>2, NobodyBusy
  <2>3. ASSUME NEW i \in Jobs PROVE Phase(i)'
    <3>1. client'[i] \in {"idle", "done", "failed"} /\ (client'[i] = "done" => client[i] = "done")
      BY <2>1, TypeParts DEF Running, Types, JobTypes
    <3> QED BY <2>1, <2>2, <3>1 DEF Phases, Phase
  <2> QED BY <2>2, <2>3 DEF Phases
<1>3. CASE UNCHANGED vars
  BY <1>3 DEF vars, clientVars, handlerVars, Phases, Phase, Busy, AtWork, StopUnderWay, Running
<1> QED BY <1>1, <1>2, <1>3, Steps

-----------------------------------------------------------------------------
(* The rows and files of one job after the other.                          *)

LEMMA Alone ==
    ASSUME Phases, Tidy, NEW j \in Jobs, Busy(j)
    PROVE  /\ \A i \in Jobs \ {j} : ~Busy(i)
           /\ Phase(j) /\ Holds(j)
BY DEF Phases, Tidy

LEMMA HoldsSame ==
    ASSUME NEW i, Same(i), rows' = rows, files' = files, Holds(i) PROVE Holds(i)'
BY DEF Same, Holds, FindLatestBatch, EntityOf, Last

LEMMA OrderedSame ==
    ASSUME NEW b, Ordered(b), files'[b] = files[b], Last(b)' = Last(b),
           b > Len(rows') => b > Len(rows)
    PROVE  Ordered(b)'
BY DEF Ordered

\* A step of j that leaves the rows and the files alone.
LEMMA TidyQuiet ==
    ASSUME Tidy, NEW j \in Jobs, \A i \in Jobs \ {j} : Same(i),
           rows' = rows, files' = files, Busy(j)' => Holds(j)'
    PROVE  Tidy'
<1>1. \A i \in Jobs : Busy(i)' => Holds(i)'
  BY BusySame, HoldsSame DEF Tidy
<1>2. DefaultBatches' = DefaultBatches
  BY DEF DefaultBatches
<1>3. (\A b \in BatchNumbers : Ordered(b))' /\ Disjoint'
  BY DEF Tidy, Ordered, Disjoint, Last
<1> QED BY <1>1, <1>2, <1>3 DEF Tidy

\* A step of j that changes the rows or the files.
LEMMA TidyChanged ==
    ASSUME Phases, NEW j \in Jobs, Busy(j), \A i \in Jobs \ {j} : Same(i),
           \A b1, b2 \in DefaultBatches' : b1 = b2, Busy(j)' => Holds(j)',
           \A b \in BatchNumbers : Ordered(b)', Disjoint'
    PROVE  Tidy'
<1>1. \A i \in Jobs \ {j} : ~Busy(i)'
  BY BusySame DEF Phases
<1> QED BY <1>1 DEF Tidy

LEMMA BeginJobTidy ==
    ASSUME Types, Tidy, NEW j \in Jobs, BeginJob(j), ~Busy(j) PROVE Tidy'
<1>1. \A i \in Jobs \ {j} : Same(i)
  BY OthersSame
<1>2. saving[j] = None /\ saving' = saving /\ rows' = rows /\ files' = files
  BY DEF BeginJob, Busy, AtWork, StopUnderWay
<1>3. client'[j] = "starting" /\ handler'[j] = "findLatest"
  BY TypeParts DEF Types, JobTypes, BeginJob, ClientGoes, HandlerGoes
<1>4. Holds(j)'
  BY <1>2, <1>3 DEF Holds, Handles
<1> QED BY <1>1, <1>2, <1>4, TidyQuiet

LEMMA FindLatestTidy ==
    ASSUME Types, Phases, Tidy, NEW j \in Jobs, Busy(j), FindLatest(j) PROVE Tidy'
<1>1. \A i \in Jobs \ {j} : Same(i)
  BY OthersSame DEF Works
<1>2. /\ handler[j] = "findLatest" /\ handler'[j] = "openBatch" /\ entity'[j] = FindLatestBatch
      /\ UNCHANGED <<rows, files, client, saving>>
  BY TypeParts DEF Types, JobTypes, FindLatest, HandlerGoes, clientVars
<1>3. saving[j] = None /\ client[j] # "switching"
  BY <1>2, Alone DEF Phase
<1>4. FindLatestBatch' = FindLatestBatch
  BY <1>2 DEF FindLatestBatch, EntityOf
<1>5. Holds(j)'
  BY <1>2, <1>3, <1>4 DEF Holds, Handles
<1> QED BY <1>1, <1>2, <1>5, TidyQuiet

LEMMA RefuseUploadTidy ==
    ASSUME Types, Phases, Tidy, NEW j \in Jobs, Busy(j), RefuseUpload(j) PROVE Tidy'
<1>1. \A i \in Jobs \ {j} : Same(i)
  BY OthersSame DEF Works
<1>2. /\ handler[j] = "openBatch" /\ client'[j] = "failed" /\ handler'[j] = "none"
      /\ UNCHANGED <<rows, files, saving>>
  BY TypeParts DEF Types, JobTypes, RefuseUpload, ClientGoes, HandlerGoes
<1>3. saving[j] = None
  BY <1>2, Alone DEF Phase
<1>4. Holds(j)'
  BY <1>2, <1>3 DEF Holds, Handles
<1> QED BY <1>1, <1>2, <1>4, TidyQuiet

LEMMA FinishSendingTidy ==
    ASSUME Types, Phases, Tidy, NEW j \in Jobs, Busy(j), FinishSending(j) PROVE Tidy'
<1>1. \A i \in Jobs \ {j} : Same(i)
  BY OthersSame DEF Works
<1>2. /\ client'[j] = "stopping" /\ handler[j] = "open" /\ handler'[j] = "ending"
      /\ UNCHANGED <<rows, files, saving, batch, start, lastObserved>>
  BY TypeParts DEF Types, JobTypes, FinishSending, ClientGoes, HandlerGoes
<1>3. Holds(j) /\ saving[j] = None
  BY <1>2, Alone DEF Phase
<1>4. Holds(j)'
  BY <1>2, <1>3 DEF Holds, Handles, Last
<1> QED BY <1>1, <1>2, <1>4, TidyQuiet

\* The client gives up or is lost, and its handler goes on.
LEMMA LeavingTidy ==
    ASSUME Types, Phases, Tidy, NEW j \in Jobs, Busy(j), StopTimeout(j) \/ Disconnect(j) PROVE Tidy'
<1>1. \A i \in Jobs \ {j} : Same(i)
  BY OthersSame DEF Works
<1>2. /\ client'[j] \in {"publishing", "failed"}
      /\ handler'[j] = IF handler[j] = "open" /\ Disconnect(j) THEN "ending" ELSE handler[j]
      /\ UNCHANGED <<rows, files, saving, entity, batch, start, lastObserved>>
  BY TypeParts DEF Types, JobTypes, StopTimeout, Disconnect, ClientGoes, handlerVars
<1>3. Holds(j)
  BY Alone
<1>4. FindLatestBatch' = FindLatestBatch /\ \A b : EntityOf(b)' = EntityOf(b) /\ Last(b)' = Last(b)
  BY <1>2 DEF FindLatestBatch, EntityOf, Last
<1>5. Holds(j)'
  BY <1>2, <1>3, <1>4 DEF Holds, Handles
<1> QED BY <1>1, <1>2, <1>5, TidyQuiet

LEMMA FlushTidy ==
    ASSUME Types, Tidy, NEW j \in Jobs, Flush(j) PROVE Tidy'
<1>1. \A i \in Jobs \ {j} : Same(i)
  BY OthersSame DEF Works
<1>2. Same(j) /\ rows' = rows /\ files' = files
  BY DEF Flush, Same, clientVars
<1>3. Busy(j)' => Holds(j)'
  BY <1>2, BusySame, HoldsSame DEF Tidy
<1> QED BY <1>1, <1>2, <1>3, TidyQuiet

LEMMA ReadStopEntityTidy ==
    ASSUME Types, Phases, Tidy, NEW j \in Jobs, Busy(j), ReadStopEntity(j) PROVE Tidy'
<1>1. \A i \in Jobs \ {j} : Same(i)
  BY OthersSame DEF Works
<1>2. /\ handler[j] = "ending" /\ handler'[j] = "logging" /\ entity'[j] = FindLatestBatch
      /\ UNCHANGED <<rows, files, saving, batch, start, lastObserved, client>>
  BY TypeParts DEF Types, JobTypes, ReadStopEntity, HandlerGoes, clientVars
<1>3. Holds(j) /\ saving[j] = None /\ client[j] # "switching"
  BY <1>2, Alone DEF Phase
<1>4. FindLatestBatch = EntityOf(Len(rows))
  <2>1. Len(rows) # 0
    BY <1>2, TableFact DEF Types, Known, Handles
  <2> QED BY <2>1, TableFact, LatestFact DEF Types
<1>5. EntityOf(Len(rows))' = EntityOf(Len(rows))
  BY <1>2 DEF EntityOf
<1>6. Holds(j)'
  BY <1>2, <1>3, <1>4, <1>5 DEF Holds, Handles, Last
<1> QED BY <1>1, <1>2, <1>6, TidyQuiet

LEMMA EndStopTidy ==
    ASSUME Types, Phases, Tidy, NEW j \in Jobs, Busy(j), EndStop(j) PROVE Tidy'
<1>1. \A i \in Jobs \ {j} : Same(i)
  BY OthersSame DEF Works
<1>2. /\ handler[j] = "logging" /\ handler'[j] = "stopped"
      /\ saving'[j] = IF lastObserved[j] # 0 /\ lastObserved[j] > entity[j].lastOffset
                      THEN [entity[j] EXCEPT !.lastOffset = lastObserved[j]] ELSE None
      /\ client'[j] = IF client[j] = "stopping" THEN "publishing" ELSE client[j]
      /\ UNCHANGED <<rows, files, batch, start, lastObserved>>
  BY TypeParts DEF Types, JobTypes, EndStop, HandlerGoes
<1>3. Holds(j) /\ client[j] # "switching"
  BY <1>2, Alone DEF Phase
<1>4. entity[j] = EntityOf(Len(rows)) /\ batch[j] = Len(rows)
  BY <1>2, <1>3 DEF Holds, Handles
<1>5. entity[j].lastOffset = Last(batch[j])
  BY <1>4 DEF EntityOf, Last
<1>6. saving'[j] # None =>
         /\ Last(batch[j]) < lastObserved[j]
         /\ saving'[j] = [EntityOf(batch[j]) EXCEPT !.lastOffset = lastObserved[j]]
  <2>1. /\ lastObserved[j] \in Int /\ Last(batch[j]) \in Int
    <3>1. TypeOK /\ batch[j] \in 1..Len(rows)
      BY <1>2 DEF Types, Known, Handles
    <3>2. rows[batch[j]].lastOffset \in -1..MaxOffset
      BY <3>1, TableFact
    <3> QED BY <3>2, TypeParts DEF Last, Types, JobTypes
  <2> QED BY <1>2, <1>4, <1>5, <2>1
<1>7. EntityOf(batch[j])' = EntityOf(batch[j]) /\ Last(batch[j])' = Last(batch[j])
  BY <1>2 DEF EntityOf, Last
<1>8. Holds(j)'
  BY <1>2, <1>3, <1>4, <1>6, <1>7 DEF Holds, Handles
<1> QED BY <1>1, <1>2, <1>8, TidyQuiet

LEMMA FindBatchTidy ==
    ASSUME Types, Phases, Tidy, NEW j \in Jobs, Busy(j), FindBatch(j), ~StopUnderWay(j) PROVE Tidy'
<1>1. \A i \in Jobs \ {j} : Same(i)
  BY OthersSame DEF Works
<1>2. /\ client[j] = "publishing" /\ client'[j] = "switching"
      /\ publishing'[j] = EntityOf(batch[j])
      /\ UNCHANGED <<rows, files, handler, batch, saving, start, lastObserved>>
  BY TypeParts DEF Types, JobTypes, FindBatch, ClientGoes, handlerVars
<1>3. Holds(j) /\ handler[j] = "stopped" /\ saving[j] = None
  BY <1>2, Alone DEF Phase, StopUnderWay
<1>4. EntityOf(batch[j])' = EntityOf(batch[j])
  BY <1>2 DEF EntityOf
<1>5. Holds(j)'
  BY <1>2, <1>3, <1>4 DEF Holds, Handles
<1> QED BY <1>1, <1>2, <1>5, TidyQuiet

LEMMA OpenBatchTidy ==
    ASSUME Types, Phases, Tidy, NEW j \in Jobs, Busy(j), OpenBatch(j) PROVE Tidy'
<1>1. \A i \in Jobs \ {j} : Same(i)
  BY OthersSame DEF Works
<1>2. /\ TypeOK /\ JobTypes /\ handler[j] = "openBatch" /\ handler'[j] = "openFile"
      /\ UNCHANGED <<files, client, entity, start, saving>>
  BY TypeParts, OpenBatchFact DEF Types, JobTypes, clientVars
<1>3. saving[j] = None /\ entity[j] = FindLatestBatch /\ client[j] # "switching"
  BY <1>2, Alone DEF Holds, Phase
<1>4. CASE Continues(j)
  <2>1. entity[j] = EntityOf(Len(rows)) /\ rows # <<>>
    BY <1>2, <1>3, <1>4, LatestFact DEF Continues
  <2>2. Len(rows) \in 1..Len(rows)
    BY <1>2, <2>1, TableFact
  <2>3. batch'[j] = Len(rows) /\ lastObserved'[j] = Last(Len(rows)) /\ rows' = rows
    BY <1>2, <1>4, <2>1, <2>2, TableFact DEF Continues, Last, JobTypes
  <2>4. Holds(j)'
    BY <1>2, <1>3, <2>3 DEF Holds, Handles, Last
  <2> QED BY <1>1, <1>2, <2>3, <2>4, TidyQuiet
<1>5. CASE Adds(j)
  <2> DEFINE n == Len(rows)
  <2>1. n \in Nat /\ NewRow \in Row /\ NewRow.default = FALSE /\ NewRow.lastOffset = -1
    BY <1>2, TableFact, JobsFact DEF NewRow, Row
  <2>2. Len(rows') = n + 1 /\ rows'[n + 1] = NewRow /\ \A b \in 1..n : rows'[b] = rows[b]
    BY <1>2, <1>5, <2>1, RowAdded DEF Adds
  <2>3. batch'[j] = n + 1 /\ lastObserved'[j] = -1
    BY <1>2, <1>5 DEF Adds, JobTypes
  <2>4. Holds(j)'
    BY <1>2, <1>3, <2>1, <2>2, <2>3 DEF Holds, Handles, Last
  <2>5. \A b1, b2 \in DefaultBatches' : b1 = b2
    <3>1. \A b \in DefaultBatches' : b \in DefaultBatches
      BY <2>1, <2>2 DEF DefaultBatches
    <3> QED BY <3>1 DEF Tidy
  <2>6. ASSUME NEW b \in BatchNumbers PROVE Ordered(b)'
    <3>1. b \in Int /\ Ordered(b)
      BY DEF BatchNumbers, Tidy
    <3>2. CASE b <= n
      <4>1. b \in 1..n
        BY <2>1, <3>2 DEF BatchNumbers
      <4> QED BY <1>2, <2>1, <2>2, <3>1, <3>2, <4>1, OrderedSame DEF Last
    <3>3. CASE b > n
      BY <1>2, <3>1, <3>3 DEF Ordered
    <3> QED BY <2>1, <3>1, <3>2, <3>3
  <2>7. Disjoint'
    BY <1>2 DEF Tidy, Disjoint
  <2> QED BY <1>1, <2>4, <2>5, <2>6, <2>7, TidyChanged
<1> QED BY <1>4, <1>5, OpenBatchFact

LEMMA OpenFileTidy ==
    ASSUME Types, Phases, Tidy, NEW j \in Jobs, Busy(j), OpenFile(j) PROVE Tidy'
<1>1. \A i \in Jobs \ {j} : Same(i)
  BY OthersSame DEF Works
<1> DEFINE c == batch[j]
           o == lastObserved[j] + 1
<1>2. /\ TypeOK /\ JobTypes /\ handler[j] = "openFile" /\ handler'[j] = "open"
      /\ start'[j] = o /\ files' = Truncated(c, o)
      /\ client'[j] = IF client[j] = "starting" THEN "sending" ELSE client[j]
      /\ UNCHANGED <<rows, batch, lastObserved, saving>>
  BY TypeParts DEF Types, JobTypes, OpenFile, HandlerGoes
<1>3. saving[j] = None /\ client[j] # "switching" /\ lastObserved[j] = Last(c) /\ c = Len(rows)
  BY <1>2, Alone DEF Holds, Handles, Phase
<1>4. c \in BatchNumbers /\ c \in 1..Len(rows) /\ Last(c) \in -1..MaxOffset /\ o \in 0..MaxOffset + 1
  <2>1. c \in 1..Len(rows)
    BY <1>2 DEF Types, Known, Handles
  <2> QED BY <1>2, <1>3, <2>1, TableFact, JobsFact DEF Last
<1>5. /\ \A b \in BatchNumbers : b # c => files'[b] = files[b]
      /\ DOMAIN files'[c] = DOMAIN files[c] \cup {o} /\ files'[c][o] = {}
      /\ \A x \in DOMAIN files[c] : x # o => files'[c][x] = files[c][x]
  BY <1>2, <1>4, FilesTruncated
<1> HIDE DEF c, o
<1>6. Holds(j)'
  <2>1. /\ start'[j] = rows'[c].lastOffset + 1 /\ batch'[j] = c /\ c = Len(rows')
        /\ rows'[c].lastOffset = lastObserved'[j] /\ lastObserved'[j] \in Int
    BY <1>2, <1>3, <1>4 DEF Last, c, o
  <2>2. start'[j] \in DOMAIN files'[c] /\ files'[c][start'[j]] = {}
    BY <1>2, <1>5
  <2>3. handler'[j] = "open" /\ saving'[j] = None /\ client'[j] # "switching"
    BY <1>2, <1>3
  <2>4. rows'[c].lastOffset <= lastObserved'[j]
    BY <2>1
  <2> QED BY <2>1, <2>2, <2>3, <2>4 DEF Holds, Handles, Last
<1>7. ASSUME NEW b \in BatchNumbers PROVE Ordered(b)'
  <2>1. Ordered(b) /\ Last(b)' = Last(b)
    BY <1>2 DEF Tidy, Last
  <2>2. CASE b # c
    BY <1>2, <1>5, <2>1, <2>2, OrderedSame
  <2>3. CASE b = c
    <3>1. ~(c > Len(rows)) /\ o = Last(c) + 1
      BY <1>3, <1>4 DEF o
    <3> QED BY <1>2, <1>4, <1>5, <2>1, <2>3, <3>1 DEF Ordered
  <2> QED BY <2>2, <2>3
<1>8. Disjoint'
  <2>1. ASSUME NEW b \in BatchNumbers, NEW o1 \in DOMAIN files'[b], NEW o2 \in DOMAIN files'[b], o1 # o2
        PROVE  files'[b][o1] \cap files'[b][o2] = {}
    <3>1. CASE b # c
      BY <1>5, <2>1, <3>1 DEF Tidy, Disjoint
    <3>2. CASE b = c
      <4>1. o1 = o \/ o2 = o \/ (o1 \in DOMAIN files[c] /\ o2 \in DOMAIN files[c] /\ o1 # o /\ o2 # o)
        BY <1>5, <3>2
      <4>2. o1 = o \/ o2 = o => files'[b][o1] \cap files'[b][o2] = {}
        BY <1>5, <3>2
      <4> QED BY <1>4, <1>5, <2>1, <3>2, <4>1, <4>2 DEF Tidy, Disjoint
    <3> QED BY <3>1, <3>2
  <2> QED BY <2>1 DEF Disjoint
<1> QED BY <1>1, <1>2, <1>6, <1>7, <1>8, TidyChanged DEF DefaultBatches, Tidy

LEMMA SendTidy ==
    ASSUME Types, Phases, Tidy, NEW j \in Jobs, Busy(j), Send(j) PROVE Tidy'
<1>1. \A i \in Jobs \ {j} : Same(i)
  BY OthersSame DEF Works
<1> DEFINE c == batch[j]
           o == start[j]
           n == next[j]
<1>2. /\ TypeOK /\ JobTypes /\ handler[j] = "open" /\ client[j] = "sending"
      /\ n \in Offsets /\ n > lastObserved[j] /\ lastObserved'[j] = n
      /\ files' = [files EXCEPT ![c][o] = @ \cup {n}]
      /\ UNCHANGED <<rows, client, handler, batch, start, saving>>
  BY TypeParts DEF Types, JobTypes, Send
<1>3. /\ saving[j] = None /\ c = Len(rows) /\ o = Last(c) + 1 /\ o \in DOMAIN files[c]
      /\ Last(c) <= lastObserved[j] /\ \A x \in files[c][o] : x <= lastObserved[j]
  BY <1>2, Alone DEF Holds, Handles, Phase
<1>4. c \in BatchNumbers /\ c \in 1..Len(rows) /\ Last(c) \in Int /\ o \in Int /\ n \in Int
  <2>1. c \in 1..Len(rows)
    BY <1>2 DEF Types, Known, Handles
  <2>2. Last(c) \in -1..MaxOffset /\ c \in BatchNumbers
    BY <1>2, <2>1, TableFact DEF Last
  <2> QED BY <1>2, <1>3, <2>1, <2>2, JobsFact DEF Offsets
<1>5. lastObserved[j] \in Int /\ o <= n
  <2>1. lastObserved[j] \in -1..MaxOffset
    BY <1>2 DEF JobTypes
  <2> QED BY <1>2, <1>3, <1>4, <2>1, JobsFact
<1>6. /\ \A b \in BatchNumbers : b # c => files'[b] = files[b]
      /\ DOMAIN files'[c] = DOMAIN files[c] /\ files'[c][o] = files[c][o] \cup {n}
      /\ \A x \in DOMAIN files[c] : x # o => files'[c][x] = files[c][x]
  BY <1>2, <1>3, <1>4, RecordStored
<1>7. \A x \in files[c][o] : x \in Int
  BY <1>2, <1>3, <1>4, JobsFact DEF TypeOK, Offsets
<1>8. \A b : Last(b)' = Last(b)
  BY <1>2 DEF Last
<1> HIDE DEF c, o, n
<1>9. Holds(j)'
  <2>1. /\ start'[j] = rows'[c].lastOffset + 1 /\ batch'[j] = c /\ c = Len(rows')
        /\ start'[j] = o /\ rows'[c].lastOffset <= lastObserved'[j]
    <3>1. Last(c) <= n
      BY <1>2, <1>3, <1>4, <1>5
    <3> QED BY <1>2, <1>3, <3>1 DEF Last, c, o
  <2>2. o \in DOMAIN files'[c] /\ \A x \in files'[c][o] : x <= lastObserved'[j]
    BY <1>2, <1>3, <1>4, <1>5, <1>6, <1>7
  <2>3. handler'[j] = "open" /\ saving'[j] = None /\ client'[j] = "sending"
    BY <1>2, <1>3
  <2> QED BY <2>1, <2>2, <2>3 DEF Holds, Handles, Last
<1>10. ASSUME NEW b \in BatchNumbers PROVE Ordered(b)'
  <2>1. Ordered(b) /\ Last(b)' = Last(b)
    BY <1>8 DEF Tidy
  <2>2. CASE b # c
    BY <1>2, <1>6, <2>1, <2>2, OrderedSame
  <2>3. CASE b = c
    BY <1>2, <1>3, <1>4, <1>5, <1>6, <2>1, <2>3 DEF Ordered
  <2> QED BY <2>2, <2>3
<1>11. Disjoint'
  <2>1. ASSUME NEW x \in DOMAIN files[c], x # o PROVE n \notin files[c][x]
    <3>1. Ordered(c) /\ x \in Int
      BY <1>2, <1>4, JobsFact DEF Tidy, TypeOK, Offsets
    <3>2. x <= Last(c) /\ \A y \in files[c][x] : y <= Last(c)
      BY <1>3, <1>4, <2>1, <3>1 DEF Ordered
    <3> QED BY <1>3, <1>4, <1>5, <3>2
  <2>2. ASSUME NEW b \in BatchNumbers, NEW o1 \in DOMAIN files'[b], NEW o2 \in DOMAIN files'[b], o1 # o2
        PROVE  files'[b][o1] \cap files'[b][o2] = {}
    <3>1. CASE b # c
      BY <1>6, <2>2, <3>1 DEF Tidy, Disjoint
    <3>2. CASE b = c
      <4>1. files[c][o1] \cap files[c][o2] = {} /\ o1 \in DOMAIN files[c] /\ o2 \in DOMAIN files[c]
        BY <1>4, <1>6, <2>2, <3>2 DEF Tidy, Disjoint
      <4>2. CASE o1 = o
        BY <1>6, <2>1, <2>2, <3>2, <4>1, <4>2
      <4>3. CASE o2 = o
        BY <1>6, <2>1, <2>2, <3>2, <4>1, <4>3
      <4>4. CASE o1 # o /\ o2 # o
        BY <1>6, <3>2, <4>1, <4>4
      <4> QED BY <4>2, <4>3, <4>4
    <3> QED BY <3>1, <3>2
  <2> QED BY <2>2 DEF Disjoint
<1> QED BY <1>1, <1>2, <1>9, <1>10, <1>11, TidyChanged DEF DefaultBatches, Tidy

\* Nobody else has made a batch active: the save of stop() is not refused.
LEMMA SaveLandsFact ==
    ASSUME Types, Phases, Tidy, NEW j \in Jobs, SaveLands(j)
    PROVE  /\ Busy(j) /\ handler[j] = "stopped" /\ client[j] # "switching"
           /\ batch[j] = Len(rows) /\ batch[j] \in 1..Len(rows) /\ batch[j] \in BatchNumbers
           /\ Last(batch[j]) \in -1..MaxOffset /\ Last(batch[j]) < lastObserved[j]
           /\ start[j] = Last(batch[j]) + 1 /\ start[j] \in DOMAIN files[batch[j]]
           /\ \A x \in files[batch[j]][start[j]] : x <= lastObserved[j]
           /\ rows' \in Seq(Row) /\ Len(rows') = Len(rows)
           /\ Last(batch[j])' = lastObserved[j]
           /\ \A b \in 1..Len(rows) : b # batch[j] => rows'[b] = rows[b]
           /\ DefaultBatches' = DefaultBatches
<1> DEFINE c == batch[j]
           e == saving[j]
<1>1. saving[j] # None /\ TypeOK /\ JobTypes /\ UNCHANGED handlerVars
  BY TypeParts DEF SaveLands, Types
<1>2. Busy(j)
  BY <1>1 DEF Busy, AtWork, StopUnderWay
<1>3. /\ Last(c) < lastObserved[j] /\ e = [EntityOf(c) EXCEPT !.lastOffset = lastObserved[j]]
      /\ start[j] = Last(c) + 1 /\ start[j] \in DOMAIN files[c]
      /\ \A x \in files[c][start[j]] : x <= lastObserved[j]
  BY <1>1, <1>2, Alone DEF Holds
<1>4. handler[j] = "stopped" /\ c = Len(rows) /\ client[j] # "switching"
  BY <1>1, <1>2, Alone DEF Holds, Handles, Phase
<1>5. c \in 1..Len(rows) /\ e \in Entity
  BY <1>1, <1>4 DEF Types, Known, JobTypes, Handles
<1>6. c \in BatchNumbers /\ Last(c) \in -1..MaxOffset /\ EntityOf(c) \in Entity
  BY <1>1, <1>5, TableFact DEF Last
<1>7. e.batch = c /\ e.default = rows[c].default /\ e.lastOffset = lastObserved[j]
  BY <1>1, <1>3, <1>5, <1>6, TableFact DEF Entity
<1>8. ~SecondDefault(e)
  <2>1. e.default => c \in DefaultBatches
    BY <1>5, <1>7 DEF DefaultBatches
  <2> QED BY <1>7, <2>1 DEF SecondDefault, Tidy
<1>9. rows' = Saved(e)
  BY <1>8 DEF SaveLands
<1> HIDE DEF c, e
<1>10. /\ rows' \in Seq(Row) /\ Len(rows') = Len(rows)
       /\ rows'[c] = [default |-> e.default, lastOffset |-> e.lastOffset]
       /\ \A b \in 1..Len(rows) : b # c => rows'[b] = rows[b]
  BY <1>1, <1>5, <1>7, <1>9, RowSaved
<1>11. rows'[c].default = rows[c].default /\ rows'[c].lastOffset = lastObserved[j]
  BY <1>7, <1>10
<1>12. DefaultBatches' = DefaultBatches
  BY <1>10, <1>11 DEF DefaultBatches
<1>13. Last(batch[j])' = lastObserved[j]
  BY <1>1, <1>11 DEF Last, c, handlerVars
<1> QED BY <1>2, <1>3, <1>4, <1>5, <1>6, <1>10, <1>12, <1>13 DEF c

LEMMA SaveLandsTidy ==
    ASSUME Types, Phases, Tidy, NEW j \in Jobs, SaveLands(j) PROVE Tidy'
<1>1. \A i \in Jobs \ {j} : Same(i)
  BY OthersSame DEF Works
<1>2. /\ TypeOK /\ JobTypes /\ saving[j] # None /\ saving'[j] = None
      /\ UNCHANGED <<files, clientVars, handlerVars>>
  BY TypeParts DEF SaveLands, Types, JobTypes
<1> DEFINE c == batch[j]
           m == lastObserved[j]
<1>3. /\ Busy(j) /\ handler[j] = "stopped" /\ client[j] # "switching"
      /\ c = Len(rows) /\ c \in 1..Len(rows) /\ c \in BatchNumbers
      /\ Last(c) \in -1..MaxOffset /\ Last(c) < m
      /\ start[j] = Last(c) + 1 /\ \A x \in files[c][start[j]] : x <= m
      /\ Len(rows') = Len(rows) /\ rows'[c].lastOffset = m
      /\ \A b \in 1..Len(rows) : b # c => rows'[b] = rows[b]
      /\ DefaultBatches' = DefaultBatches
  BY <1>2, SaveLandsFact DEF Last, handlerVars
<1>4. Holds(j)'
  BY <1>2, <1>3 DEF Holds, Handles, clientVars, handlerVars
<1>5. m \in Int /\ Last(c) \in Int /\ Len(rows) \in Nat
  BY <1>2, <1>3, JobsFact, TableFact DEF JobTypes
<1> HIDE DEF c, m
<1>6. ASSUME NEW b \in BatchNumbers PROVE Ordered(b)'
  <2>1. Ordered(b) /\ b \in Int /\ DOMAIN files[b] \subseteq Int
    BY <1>2, JobsFact DEF Tidy, BatchNumbers, TypeOK, Offsets
  <2>2. CASE b # c /\ b \in 1..Len(rows)
    BY <1>2, <1>3, <2>1, <2>2, OrderedSame DEF Last
  <2>3. CASE b \notin 1..Len(rows)
    <3>1. b > Len(rows)
      BY <1>5, <2>1, <2>3 DEF BatchNumbers
    <3> QED BY <1>2, <1>3, <2>1, <3>1 DEF Ordered
  <2>4. CASE b = c
    <3>1. \A x \in DOMAIN files[c] : x <= Last(c) + 1
      BY <2>1, <2>4 DEF Ordered
    <3>2. ASSUME NEW x \in DOMAIN files[c]
          PROVE  x <= m + 1 /\ \A y \in files[c][x] : x <= y /\ y <= m
      <4>1. x \in Int /\ x <= Last(c) + 1 /\ \A y \in files[c][x] : y \in Int
        BY <1>2, <1>3, <2>1, <2>4, <3>1, JobsFact DEF TypeOK, Offsets
      <4>2. CASE x <= Last(c)
        BY <1>3, <1>5, <2>1, <2>4, <4>1, <4>2 DEF Ordered
      <4>3. CASE x = Last(c) + 1
        BY <1>3, <1>5, <2>1, <2>4, <4>1, <4>3 DEF Ordered
      <4> QED BY <1>5, <4>1, <4>2, <4>3
    <3>3. Last(b)' = m /\ ~(b > Len(rows'))
      BY <1>3, <1>5, <2>4 DEF Last
    <3> QED BY <1>2, <2>4, <3>2, <3>3 DEF Ordered
  <2> QED BY <2>2, <2>3, <2>4
<1>7. Disjoint'
  BY <1>2 DEF Tidy, Disjoint
<1>8. \A b1, b2 \in DefaultBatches' : b1 = b2
  BY <1>3 DEF Tidy
<1> QED BY <1>1, <1>3, <1>4, <1>6, <1>7, <1>8, TidyChanged

\* The batch of the job becomes the active one, with the offset it has.
LEMMA PublishFacts ==
    ASSUME Types, Phases, Tidy, NEW j \in Jobs, Publish(j)
    PROVE  /\ Busy(j) /\ ~Busy(j)'
           /\ batch[j] = Len(rows) /\ batch[j] \in 1..Len(rows)
           /\ UNCHANGED <<files, newBatch, next, handlerVars, saving, spent>>
           /\ rows' \in Seq(Row) /\ Len(rows') = Len(rows)
           /\ \A b \in 1..Len(rows) : Last(b)' = Last(b)
           /\ DefaultBatches' = {batch[j]}
<1>1. client[j] = "switching" /\ client'[j] = "done"
  BY TypeParts DEF Types, JobTypes, Publish, ClientGoes
<1>2. Busy(j)
  BY <1>1 DEF Busy, Running
<1>3. /\ handler[j] = "stopped" /\ saving[j] = None /\ batch[j] = Len(rows)
      /\ publishing[j] = EntityOf(batch[j])
  BY <1>1, <1>2, Alone DEF Holds, Handles, Phase
<1>4. UNCHANGED <<files, newBatch, next, handlerVars, saving, spent>>
  BY DEF Publish, historyVars
<1>5. ~Busy(j)'
  BY <1>1, <1>3, <1>4 DEF Busy, AtWork, StopUnderWay, Running, handlerVars
<1>6. /\ batch[j] \in 1..Len(rows) /\ rows' \in Seq(Row) /\ Len(rows') = Len(rows)
      /\ \A b \in 1..Len(rows) :
            /\ b = batch[j] => rows'[b] = [default |-> TRUE, lastOffset |-> publishing[j].lastOffset]
            /\ b # batch[j] => ~rows'[b].default /\ rows'[b].lastOffset = rows[b].lastOffset
  BY PublishFact
<1>7. publishing[j].lastOffset = rows[batch[j]].lastOffset
  BY <1>3, <1>6, TableFact DEF Types
<1>8. \A b \in 1..Len(rows) : rows'[b].lastOffset = rows[b].lastOffset /\ (rows'[b].default <=> b = batch[j])
  BY <1>6, <1>7
<1>9. \A b \in 1..Len(rows) : Last(b)' = Last(b)
  BY <1>8 DEF Last
<1>10. DefaultBatches' = {batch[j]}
  BY <1>6, <1>8 DEF DefaultBatches
<1> QED BY <1>2, <1>3, <1>4, <1>5, <1>6, <1>9, <1>10

LEMMA PublishTidy ==
    ASSUME Types, Phases, Tidy, NEW j \in Jobs, Publish(j) PROVE Tidy'
<1>1. \A i \in Jobs \ {j} : Same(i)
  BY OthersSame DEF Works
<1>2. /\ Busy(j) /\ ~Busy(j)' /\ files' = files
      /\ Len(rows') = Len(rows) /\ DefaultBatches' = {batch[j]}
      /\ \A b \in 1..Len(rows) : Last(b)' = Last(b)
  BY PublishFacts
<1>3. ASSUME NEW b \in BatchNumbers PROVE Ordered(b)'
  <2>1. Ordered(b) /\ b \in Int /\ Len(rows) \in Nat
    BY TableFact DEF Types, Tidy, BatchNumbers
  <2>2. CASE b \in 1..Len(rows)
    BY <1>2, <2>1, <2>2, OrderedSame
  <2>3. CASE b \notin 1..Len(rows)
    <3>1. b > Len(rows)
      BY <2>1, <2>3 DEF BatchNumbers
    <3> QED BY <1>2, <2>1, <3>1 DEF Ordered
  <2> QED BY <2>2, <2>3
<1>4. Disjoint'
  BY <1>2 DEF Tidy, Disjoint
<1> QED BY <1>1, <1>2, <1>3, <1>4, TidyChanged

LEMMA ServerStopsTidy ==
    ASSUME Types, Tidy, ServerStops PROVE Tidy'
<1>1. rows' = rows /\ DefaultBatches' = DefaultBatches
  BY DEF ServerStops, DefaultBatches
<1>2. \A j \in Jobs : ~Busy(j)'
  BY NobodyBusy
<1>3. /\ DOMAIN files' = BatchNumbers
      /\ \A b \in BatchNumbers : DOMAIN files'[b] = DOMAIN files[b]
      /\ \A b \in BatchNumbers : \A o \in DOMAIN files[b] : files'[b][o] \subseteq files[b][o]
  BY ServerStopsFiles, TypeParts DEF Types
<1>4. ASSUME NEW b \in BatchNumbers PROVE Ordered(b)'
  BY <1>1, <1>3 DEF Tidy, Ordered, Last
<1>5. Disjoint'
  BY <1>3 DEF Tidy, Disjoint
<1> QED BY <1>1, <1>2, <1>4, <1>5 DEF Tidy

LEMMA TidySame == ASSUME Tidy, UNCHANGED vars PROVE Tidy'
<1>1. \A j \in Jobs : Same(j) /\ rows' = rows /\ files' = files
  BY DEF Same, vars, clientVars, handlerVars
<1>2. \A j \in Jobs : Busy(j)' => Holds(j)'
  BY <1>1, BusySame, HoldsSame DEF Tidy
<1>3. DefaultBatches' = DefaultBatches /\ \A b : Last(b)' = Last(b)
  BY DEF vars, Last, DefaultBatches
<1>4. \A b \in BatchNumbers : Ordered(b)'
  BY <1>3 DEF Tidy, Ordered, vars
<1>5. Disjoint'
  BY DEF Tidy, Disjoint, vars
<1> QED BY <1>2, <1>3, <1>4, <1>5 DEF Tidy

LEMMA TidyStep ==
    ASSUME Types, Phases, Tidy, [Next]_vars, ~overlapped' PROVE Tidy'
<1>1. ASSUME NEW j \in Jobs, BeginJob(j) PROVE Tidy'
  BY <1>1, BeginJobTidy, InTurn
<1>2. ASSUME NEW j \in Jobs, Works(j) PROVE Tidy'
  <2>1. CASE Flush(j)
    BY <2>1, FlushTidy
  <2>2. CASE ~Flush(j)
    <3>1. Busy(j) /\ (FindBatch(j) => ~StopUnderWay(j))
      BY <1>2, <2>2, WorksBusy, InTurn
    <3> QED BY <1>2, <2>2, <3>1, FindLatestTidy, OpenBatchTidy, RefuseUploadTidy, OpenFileTidy,
               SendTidy, FinishSendingTidy, ReadStopEntityTidy, EndStopTidy, SaveLandsTidy,
               FindBatchTidy, PublishTidy, LeavingTidy DEF Works
  <2> QED BY <2>1, <2>2
<1> QED BY <1>1, <1>2, ServerStopsTidy, TidySame, Steps

-----------------------------------------------------------------------------
(* What is active.                                                         *)

\* A step that changes no row.
LEMMA RowsSame ==
    ASSUME NEW j \in Jobs, BeginJob(j) \/ Works(j), ~OpenBatch(j), ~SaveLands(j), ~Publish(j)
    PROVE  rows' = rows
<1>1. CASE BeginJob(j) \/ FindLatest(j) \/ RefuseUpload(j) \/ OpenFile(j) \/ Send(j)
  BY <1>1 DEF BeginJob, FindLatest, RefuseUpload, OpenFile, Send
<1>2. CASE FinishSending(j) \/ Flush(j) \/ ReadStopEntity(j)
  BY <1>2 DEF FinishSending, Flush, ReadStopEntity
<1>3. CASE EndStop(j) \/ FindBatch(j) \/ StopTimeout(j) \/ Disconnect(j)
  BY <1>3 DEF EndStop, FindBatch, StopTimeout, Disconnect
<1> QED BY <1>1, <1>2, <1>3 DEF Works

\* A row that is added is not active.
LEMMA AddsDefaults ==
    ASSUME Types, NEW j \in Jobs, Adds(j)
    PROVE  /\ DefaultBatches' = DefaultBatches /\ Len(rows) \in Nat /\ Len(rows') = Len(rows) + 1
           /\ \A b \in 1..Len(rows) : rows'[b] = rows[b]
           /\ rows'[Len(rows) + 1] = NewRow /\ NewRow.lastOffset = -1
<1>1. NewRow \in Row /\ ~NewRow.default /\ NewRow.lastOffset = -1 /\ Len(rows) \in Nat
  BY JobsFact, TableFact DEF NewRow, Row, Types
<1>2. /\ Len(rows') = Len(rows) + 1 /\ rows'[Len(rows) + 1] = NewRow
      /\ \A b \in 1..Len(rows) : rows'[b] = rows[b]
  BY <1>1, RowAdded DEF Adds, Types
<1>3. DefaultBatches' = DefaultBatches
  <2>1. \A b : b \in 1..Len(rows') => b \in 1..Len(rows) \/ b = Len(rows) + 1
    BY <1>1, <1>2
  <2>2. \A b : b \in 1..Len(rows) => b \in 1..Len(rows')
    BY <1>1, <1>2
  <2> QED BY <1>1, <1>2, <2>1, <2>2 DEF DefaultBatches
<1> QED BY <1>1, <1>2, <1>3

\* Only the transaction of SetActiveBatchesHandler changes what is active.
LEMMA ActiveStep ==
    ASSUME Types, Phases, Tidy, [Next]_vars, DefaultBatches # {}
    PROVE  DefaultBatches' # {}
<1>1. ASSUME rows' = rows PROVE DefaultBatches' # {}
  BY <1>1 DEF DefaultBatches
<1>2. ASSUME NEW j \in Jobs, OpenBatch(j) PROVE DefaultBatches' # {}
  <2>1. CASE Continues(j)
    BY <1>1, <2>1 DEF Continues
  <2>2. CASE Adds(j)
    BY <2>2, AddsDefaults
  <2> QED BY <1>2, <2>1, <2>2, OpenBatchFact
<1>3. ASSUME NEW j \in Jobs, SaveLands(j) PROVE DefaultBatches' # {}
  BY <1>3, SaveLandsFact
<1>4. ASSUME NEW j \in Jobs, Publish(j) PROVE DefaultBatches' # {}
  BY <1>4, PublishFacts
<1>5. ServerStops \/ UNCHANGED vars => rows' = rows
  BY DEF ServerStops, vars
<1> QED BY <1>1, <1>2, <1>3, <1>4, <1>5, RowsSame, Steps

\* The job that replaces the data goes on doing so, publishes or is abandoned.
LEMMA ReplacingStays ==
    ASSUME Types, Replacing, [Next]_vars, ~Abandoned', \A j \in Jobs : ~Publish(j)
    PROVE  Replacing'
<1>1. PICK k \in Running : newBatch[k] /\ batch[k] # None
  BY DEF Replacing
<1>2. k \in Jobs /\ JobTypes /\ Types' /\ client[k] \notin {"idle", "done", "failed"}
  BY <1>1, TypesStep, TypeParts DEF Types, Running
<1>3. ASSUME newBatch'[k], batch'[k] # None, client'[k] \notin {"idle", "done"} PROVE Replacing'
  BY <1>2, <1>3 DEF Replacing, Abandoned, Running
<1>4. CASE Same(k)
  BY <1>1, <1>2, <1>3, <1>4 DEF Same
<1>5. CASE BeginJob(k)
  BY <1>2, <1>5 DEF BeginJob
<1>6. CASE OpenBatch(k)
  <2>1. handler'[k] = "openFile" /\ UNCHANGED clientVars
    BY <1>2, <1>6, OpenBatchFact DEF JobTypes
  <2> QED BY <1>1, <1>2, <1>3, <2>1 DEF Types, Known, Handles, clientVars
<1>7. CASE FindLatest(k) \/ RefuseUpload(k) \/ OpenFile(k) \/ Flush(k) \/ ReadStopEntity(k)
  BY <1>1, <1>2, <1>3, <1>7 DEF FindLatest, RefuseUpload, OpenFile, Flush, ReadStopEntity,
                                clientVars, ClientGoes, JobTypes
<1>8. CASE EndStop(k) \/ SaveLands(k) \/ Disconnect(k) \/ StopTimeout(k)
  BY <1>1, <1>2, <1>3, <1>8 DEF EndStop, SaveLands, Disconnect, StopTimeout, clientVars,
                                handlerVars, ClientGoes, JobTypes
<1>9. CASE Send(k) \/ FinishSending(k) \/ FindBatch(k)
  BY <1>1, <1>2, <1>3, <1>9 DEF Send, FinishSending, FindBatch, handlerVars, ClientGoes, JobTypes
<1>10. CASE ServerStops
  BY <1>1, <1>2, <1>3, <1>10 DEF ServerStops
<1>11. CASE UNCHANGED vars
  BY <1>1, <1>2, <1>3, <1>11 DEF vars, clientVars, handlerVars
<1>12. ASSUME NEW i \in Jobs \ {k}, BeginJob(i) \/ Works(i) PROVE Same(k)
  BY <1>2, <1>12, OthersSame
<1> QED BY <1>2, <1>4, <1>5, <1>6, <1>7, <1>8, <1>9, <1>10, <1>11, <1>12, Steps DEF Works

LEMMA FollowsStep ==
    ASSUME Types, Phases, Tidy, Follows, [Next]_vars, ~overlapped', ~Abandoned'
    PROVE  Follows'
<1>1. ASSUME DefaultBatches' = DefaultBatches, Len(rows') = Len(rows), \A j \in Jobs : ~Publish(j)
      PROVE  Follows'
  BY <1>1, ReplacingStays DEF Follows
<1>2. ASSUME rows' = rows, \A j \in Jobs : ~Publish(j) PROVE Follows'
  BY <1>1, <1>2 DEF DefaultBatches
<1>3. ASSUME NEW j \in Jobs, Publish(j) PROVE Follows'
  BY <1>3, PublishFacts DEF Follows
<1>4. ASSUME NEW j \in Jobs, SaveLands(j), \A i \in Jobs : ~Publish(i) PROVE Follows'
  BY <1>1, <1>4, SaveLandsFact
<1>5. ASSUME NEW j \in Jobs, OpenBatch(j), \A i \in Jobs : ~Publish(i) PROVE Follows'
  <2>1. CASE Continues(j)
    BY <1>2, <1>5, <2>1 DEF Continues
  <2>2. CASE Adds(j)
    <3>1. /\ TypeOK /\ handler[j] = "openBatch" /\ handler'[j] = "openFile"
          /\ UNCHANGED clientVars
      BY <1>5, OpenBatchFact, TypeParts DEF Types, JobTypes
    <3>2. CASE rows = <<>>
      <4>1. DefaultBatches = {}
        BY <3>1, <3>2, TableFact DEF DefaultBatches
      <4> QED BY <2>2, <4>1, AddsDefaults DEF Follows
    <3>3. CASE rows # <<>>
      <4>1. Busy(j)
        BY <3>1 DEF Busy, AtWork
      <4>2. entity[j] # None
        BY <3>1, <3>3, <4>1, Alone, LatestFact DEF Holds
      <4>3. newBatch'[j]
        BY <2>2, <3>1, <4>2 DEF Adds, clientVars
      <4>4. batch'[j] # None
        <5>1. Types'
          BY TypesStep
        <5> QED BY <3>1, <5>1 DEF Types, Known, Handles
      <4>5. client'[j] \notin {"idle", "done"}
        BY <3>1, <4>1, Alone DEF Types, Known, Phase, clientVars
      <4>6. Replacing'
        BY <4>3, <4>4, <4>5 DEF Replacing, Abandoned, Running
      <4> QED BY <4>6 DEF Follows
    <3> QED BY <3>2, <3>3
  <2> QED BY <1>5, <2>1, <2>2, OpenBatchFact
<1>6. ServerStops \/ UNCHANGED vars => rows' = rows
  BY DEF ServerStops, vars
<1> QED BY <1>2, <1>3, <1>4, <1>5, <1>6, RowsSame, Steps

-----------------------------------------------------------------------------
(* Saved offsets, as long as the server does not stop.                     *)

\* A step of j that takes no record from a file and saves no offset.
LEMMA ReceivedQuiet ==
    ASSUME Received, NEW j \in Jobs, \A i \in Jobs \ {j} : Same(i),
           rows' = rows, files' = files, Writes(j)' => Keeps(j)'
    PROVE  Received'
<1>1. \A b \in 1..Len(rows') : Last(b)' = -1 \/ Last(b)' \in Stored(b)'
  BY DEF Received, Last, Stored
<1>2. ASSUME NEW i \in Jobs \ {j} PROVE Writes(i)' => Keeps(i)'
  <2>1. Same(i) /\ (Busy(i)' <=> Busy(i))
    BY BusySame
  <2> QED BY <2>1 DEF Received, Writes, Keeps, Same
<1> QED BY <1>1, <1>2 DEF Received

\* The same where the job that the step is of is the only one at work.
LEMMA ReceivedChanged ==
    ASSUME Phases, NEW j \in Jobs, Busy(j), \A i \in Jobs \ {j} : Same(i),
           \A b \in 1..Len(rows') : Last(b)' = -1 \/ Last(b)' \in Stored(b)',
           Writes(j)' => Keeps(j)'
    PROVE  Received'
<1>1. \A i \in Jobs \ {j} : ~Busy(i)'
  BY BusySame DEF Phases
<1> QED BY <1>1 DEF Received, Writes

\* A step that leaves the rows and the files alone.
LEMMA QuietReceived ==
    ASSUME Types, Phases, Tidy, Received, NEW j \in Jobs, BeginJob(j) => ~Busy(j),
           FindBatch(j) => ~StopUnderWay(j),
           \/ BeginJob(j) \/ FindLatest(j) \/ RefuseUpload(j) \/ FinishSending(j) \/ Flush(j)
           \/ ReadStopEntity(j) \/ EndStop(j) \/ FindBatch(j) \/ StopTimeout(j) \/ Disconnect(j)
    PROVE  Received'
<1>1. \A i \in Jobs \ {j} : Same(i)
  BY OthersSame DEF Works
<1>2. JobTypes /\ Phase(j)
  BY TypeParts DEF Types, Phases
<1>3. Writes(j) => Keeps(j)
  BY DEF Received
<1>4. ASSUME rows' = rows, files' = files, Writes(j)' => Writes(j),
             UNCHANGED <<start, lastObserved, batch>>
      PROVE  Received'
  BY <1>1, <1>3, <1>4, ReceivedQuiet DEF Keeps
<1>5. ASSUME rows' = rows, files' = files, ~Writes(j)' PROVE Received'
  BY <1>1, <1>5, ReceivedQuiet
<1>6. CASE BeginJob(j)
  <2>1. handler'[j] = "findLatest" /\ saving'[j] = None
    BY <1>2, <1>6 DEF BeginJob, HandlerGoes, JobTypes, Busy, AtWork, StopUnderWay
  <2> QED BY <1>5, <1>6, <2>1 DEF BeginJob, Writes
<1>7. CASE FindLatest(j)
  <2>1. handler'[j] = "openBatch" /\ saving'[j] = None
    BY <1>2, <1>7 DEF FindLatest, HandlerGoes, JobTypes, Phase
  <2> QED BY <1>5, <1>7, <2>1 DEF FindLatest, Writes
<1>8. CASE RefuseUpload(j)
  <2>1. handler'[j] = "none" /\ saving'[j] = None
    BY <1>2, <1>8 DEF RefuseUpload, HandlerGoes, JobTypes, Phase
  <2> QED BY <1>5, <1>8, <2>1 DEF RefuseUpload, Writes
<1>9. CASE FinishSending(j)
  <2>1. Writes(j)
    BY <1>9 DEF FinishSending, Writes, Busy, Running
  <2> QED BY <1>4, <1>9, <2>1 DEF FinishSending
<1>10. CASE Flush(j)
  <2>1. Same(j) /\ rows' = rows /\ files' = files
    BY <1>10 DEF Flush, Same, clientVars
  <2>2. Writes(j)' => Writes(j)
    BY <2>1, BusySame DEF Writes, Same
  <2> QED BY <1>4, <1>10, <2>1, <2>2 DEF Flush
<1>11. CASE ReadStopEntity(j) \/ EndStop(j)
  <2>1. Writes(j)
    BY <1>11 DEF ReadStopEntity, EndStop, Writes, Busy, AtWork, StopUnderWay
  <2> QED BY <1>4, <1>11, <2>1 DEF ReadStopEntity, EndStop
<1>12. CASE FindBatch(j)
  <2>1. handler'[j] = "stopped" /\ saving'[j] = None
    BY <1>2, <1>12 DEF FindBatch, handlerVars, Phase, StopUnderWay
  <2> QED BY <1>5, <1>12, <2>1 DEF FindBatch, Writes
<1>13. CASE StopTimeout(j)
  <2>1. Writes(j)
    BY <1>2, <1>13 DEF StopTimeout, Writes, Busy, Running, Phase
  <2> QED BY <1>4, <1>13, <2>1 DEF StopTimeout, handlerVars
<1>14. CASE Disconnect(j)
  <2>1. handler'[j] = (IF handler[j] = "open" THEN "ending" ELSE handler[j]) /\ saving' = saving
    BY <1>2, <1>14 DEF Disconnect, JobTypes
  <2>2. Writes(j)' => Writes(j)
    BY <1>14, <2>1 DEF Disconnect, Writes, Busy
  <2> QED BY <1>4, <1>14, <2>2 DEF Disconnect
<1> QED BY <1>6, <1>7, <1>8, <1>9, <1>10, <1>11, <1>12, <1>13, <1>14

LEMMA OpenBatchReceived ==
    ASSUME Types, Phases, Tidy, Received, NEW j \in Jobs, Busy(j), OpenBatch(j) PROVE Received'
<1>1. \A i \in Jobs \ {j} : Same(i)
  BY OthersSame DEF Works
<1>2. /\ handler[j] = "openBatch" /\ handler'[j] = "openFile" /\ UNCHANGED <<files, saving>>
  BY TypeParts, OpenBatchFact DEF Types, JobTypes
<1>3. ~Writes(j)'
  <2>1. saving'[j] = None
    BY <1>2, Alone DEF Phase
  <2> QED BY <1>2, <2>1 DEF Writes
<1>4. CASE Continues(j)
  BY <1>1, <1>2, <1>3, <1>4, ReceivedQuiet DEF Continues
<1>5. CASE Adds(j)
  <2>1. ASSUME NEW b \in 1..Len(rows') PROVE Last(b)' = -1 \/ Last(b)' \in Stored(b)'
    <3>1. CASE b \in 1..Len(rows)
      <4>1. Last(b)' = Last(b) /\ Stored(b)' = Stored(b)
        BY <1>2, <1>5, <3>1, AddsDefaults DEF Last, Stored
      <4> QED BY <3>1, <4>1 DEF Received
    <3>2. CASE b = Len(rows) + 1
      BY <1>5, <3>2, AddsDefaults DEF Last
    <3> QED BY <1>5, <3>1, <3>2, AddsDefaults
  <2> QED BY <1>1, <1>3, <2>1, ReceivedChanged
<1> QED BY <1>4, <1>5, OpenBatchFact

LEMMA OpenFileReceived ==
    ASSUME Types, Phases, Tidy, Received, NEW j \in Jobs, Busy(j), OpenFile(j) PROVE Received'
<1> DEFINE c == batch[j]
           o == lastObserved[j] + 1
<1>1. \A i \in Jobs \ {j} : Same(i)
  BY OthersSame DEF Works
<1>2. /\ TypeOK /\ JobTypes /\ handler[j] = "openFile"
      /\ start'[j] = o /\ files' = Truncated(c, o) /\ UNCHANGED <<rows, batch, lastObserved>>
  BY TypeParts DEF Types, JobTypes, OpenFile
<1>3. lastObserved[j] = Last(c)
  BY <1>2, Alone DEF Holds
<1>4. c \in BatchNumbers /\ Last(c) \in -1..MaxOffset /\ o \in 0..MaxOffset + 1
  <2>1. c \in 1..Len(rows)
    BY <1>2 DEF Types, Known, Handles
  <2> QED BY <1>2, <1>3, <2>1, TableFact, JobsFact DEF Last
<1>5. /\ \A b \in BatchNumbers : b # c => files'[b] = files[b]
      /\ DOMAIN files'[c] = DOMAIN files[c] \cup {o}
      /\ \A x \in DOMAIN files[c] : x # o => files'[c][x] = files[c][x]
  BY <1>2, <1>4, FilesTruncated
<1>6. Keeps(j)'
  <2>1. lastObserved[j] \in Int
    BY <1>3, <1>4, JobsFact
  <2> QED BY <1>2, <2>1 DEF Keeps
<1>7. o = Last(c) + 1 /\ Last(c) \in Int
  BY <1>3, <1>4, JobsFact
<1> HIDE DEF c, o
<1>8. ASSUME NEW b \in 1..Len(rows') PROVE Last(b)' = -1 \/ Last(b)' \in Stored(b)'
  <2>1. Last(b)' = Last(b) /\ (Last(b) = -1 \/ Last(b) \in Stored(b)) /\ b \in BatchNumbers
    BY <1>2, TableFact DEF Received, Last
  <2>2. CASE b # c
    BY <1>5, <2>1, <2>2 DEF Stored
  <2>3. CASE b = c /\ Last(b) # -1
    <3>1. PICK x \in DOMAIN files[c] : Last(c) \in files[c][x]
      BY <2>1, <2>3 DEF Stored
    <3>2. x # o
      <4>1. x <= Last(c) /\ x \in Int
        BY <1>2, <1>4, <3>1, JobsFact DEF Tidy, Ordered, TypeOK, Offsets
      <4> QED BY <1>7, <4>1
    <3>3. x \in DOMAIN files'[c] /\ Last(c) \in files'[c][x]
      BY <1>5, <3>1, <3>2
    <3> QED BY <2>1, <2>3, <3>3 DEF Stored
  <2> QED BY <2>1, <2>2, <2>3
<1> QED BY <1>1, <1>6, <1>8, ReceivedChanged

LEMMA SendReceived ==
    ASSUME Types, Phases, Tidy, Received, NEW j \in Jobs, Busy(j), Send(j) PROVE Received'
<1> DEFINE c == batch[j]
           o == start[j]
           n == next[j]
<1>1. \A i \in Jobs \ {j} : Same(i)
  BY OthersSame DEF Works
<1>2. /\ TypeOK /\ JobTypes /\ handler[j] = "open" /\ n \in Offsets /\ lastObserved'[j] = n
      /\ files' = [files EXCEPT ![c][o] = @ \cup {n}] /\ UNCHANGED <<rows, batch, start>>
  BY TypeParts DEF Types, JobTypes, Send
<1>3. o \in DOMAIN files[c]
  BY <1>2, Alone DEF Holds
<1>4. c \in BatchNumbers
  BY <1>2, TableFact DEF Types, Known, Handles
<1>5. /\ \A b \in BatchNumbers : b # c => files'[b] = files[b]
      /\ DOMAIN files'[c] = DOMAIN files[c] /\ files'[c][o] = files[c][o] \cup {n}
      /\ \A x \in DOMAIN files[c] : x # o => files'[c][x] = files[c][x]
  BY <1>2, <1>3, <1>4, RecordStored
<1>6. Keeps(j)'
  BY <1>2, <1>5 DEF Keeps
<1> HIDE DEF c, o, n
<1>7. ASSUME NEW b \in BatchNumbers PROVE Stored(b) \subseteq Stored(b)'
  <2>1. DOMAIN files'[b] = DOMAIN files[b] /\ \A x \in DOMAIN files[b] : files[b][x] \subseteq files'[b][x]
    BY <1>5
  <2> QED BY <2>1 DEF Stored
<1>8. ASSUME NEW b \in 1..Len(rows') PROVE Last(b)' = -1 \/ Last(b)' \in Stored(b)'
  BY <1>2, <1>7, TableFact DEF Received, Last
<1> QED BY <1>1, <1>6, <1>8, ReceivedChanged

LEMMA SaveLandsReceived ==
    ASSUME Types, Phases, Tidy, Received, NEW j \in Jobs, SaveLands(j) PROVE Received'
<1> DEFINE c == batch[j]
           m == lastObserved[j]
<1>1. \A i \in Jobs \ {j} : Same(i)
  BY OthersSame DEF Works
<1>2. JobTypes /\ saving[j] # None /\ saving'[j] = None /\ UNCHANGED <<files, handlerVars>>
  BY TypeParts DEF SaveLands, Types, JobTypes
<1>3. /\ Busy(j) /\ handler[j] = "stopped" /\ c \in 1..Len(rows)
      /\ Last(c) \in -1..MaxOffset /\ Last(c) < m /\ start[j] = Last(c) + 1
      /\ start[j] \in DOMAIN files[c] /\ Len(rows') = Len(rows) /\ Last(batch[j])' = m
      /\ \A b \in 1..Len(rows) : b # c => rows'[b] = rows[b]
  BY SaveLandsFact
<1>4. m \in files[c][start[j]]
  <2>1. Writes(j) /\ start[j] <= m
    BY <1>2, <1>3, JobsFact DEF Writes, JobTypes
  <2> QED BY <2>1 DEF Received, Keeps
<1>5. ~Writes(j)'
  BY <1>2, <1>3 DEF Writes, handlerVars
<1> HIDE DEF c, m
<1>6. ASSUME NEW b \in 1..Len(rows') PROVE Last(b)' = -1 \/ Last(b)' \in Stored(b)'
  <2>1. Stored(b)' = Stored(b)
    BY <1>2 DEF Stored
  <2>2. CASE b # c
    <3>1. Last(b)' = Last(b)
      BY <1>3, <2>2 DEF Last
    <3> QED BY <1>3, <2>1, <3>1 DEF Received
  <2>3. CASE b = c
    <3>1. Last(b)' = m
      BY <1>2, <1>3, <2>3 DEF Last, c, handlerVars
    <3> QED BY <1>3, <1>4, <2>1, <2>3, <3>1 DEF Stored
  <2> QED BY <2>2, <2>3
<1> QED BY <1>1, <1>3, <1>5, <1>6, ReceivedChanged

LEMMA PublishReceived ==
    ASSUME Types, Phases, Tidy, Received, NEW j \in Jobs, Publish(j) PROVE Received'
<1>1. \A i \in Jobs \ {j} : Same(i)
  BY OthersSame DEF Works
<1>2. /\ Busy(j) /\ ~Busy(j)' /\ files' = files /\ Len(rows') = Len(rows)
      /\ \A b \in 1..Len(rows) : Last(b)' = Last(b)
  BY PublishFacts
<1>3. \A b \in 1..Len(rows') : Last(b)' = -1 \/ Last(b)' \in Stored(b)'
  BY <1>2 DEF Received, Stored
<1> QED BY <1>1, <1>2, <1>3, ReceivedChanged DEF Writes

LEMMA ReceivedStep ==
    ASSUME Types, Phases, Tidy, Received, [Next]_vars, ~overlapped', ~ServerStops
    PROVE  Received'
<1>1. ASSUME NEW j \in Jobs, BeginJob(j) \/ Works(j) PROVE Received'
  <2>1. (BeginJob(j) => ~Busy(j)) /\ (FindBatch(j) => ~StopUnderWay(j))
    BY InTurn
  <2>2. OpenBatch(j) \/ OpenFile(j) \/ Send(j) => Busy(j)
    BY DEF OpenBatch, OpenFile, Send, Busy, AtWork, Running
  <2> QED BY <1>1, <2>1, <2>2, QuietReceived, OpenBatchReceived, OpenFileReceived, SendReceived,
             SaveLandsReceived, PublishReceived DEF Works
<1>2. CASE UNCHANGED vars
  <2>1. \A i \in Jobs : Same(i) /\ rows' = rows /\ files' = files
    BY <1>2 DEF Same, vars, clientVars, handlerVars
  <2>2. \A i \in Jobs : Writes(i)' => Keeps(i)'
    BY <2>1, BusySame DEF Received, Writes, Keeps, Same
  <2>3. \A b \in 1..Len(rows') : Last(b)' = -1 \/ Last(b)' \in Stored(b)'
    BY <1>2 DEF Received, Last, Stored, vars
  <2> QED BY <2>2, <2>3 DEF Received
<1> QED BY <1>1, <1>2, Steps

-----------------------------------------------------------------------------
(* Records, as long as the server does not stop and no batch is abandoned. *)

LEMMA WholeSame ==
    ASSUME NEW b, Whole(b), files'[b] = files[b], Last(b)' = Last(b) PROVE Whole(b)'
BY DEF Whole

\* A step of j that leaves the rows and the files alone.
LEMMA CompleteQuiet ==
    ASSUME Complete, NEW j \in Jobs, \A i \in Jobs \ {j} : Same(i),
           rows' = rows, files' = files, Busy(j)' => Welcome(j)', Writes(j)' => Fills(j)'
    PROVE  Complete'
<1>1. \A b \in 1..Len(rows') : Whole(b)'
  BY WholeSame DEF Complete, Last
<1>2. ASSUME NEW i \in Jobs \ {j} PROVE (Busy(i)' => Welcome(i)') /\ (Writes(i)' => Fills(i)')
  <2>1. Same(i) /\ (Busy(i)' <=> Busy(i))
    BY BusySame
  <2>2. Busy(i)' => Welcome(i)'
    BY <2>1 DEF Complete, Welcome, Same, Last
  <2>3. Writes(i)' => Fills(i)'
    BY <2>1 DEF Complete, Writes, Fills, Same
  <2> QED BY <2>2, <2>3
<1> QED BY <1>1, <1>2 DEF Complete

\* A step of j that changes the rows or the files.
LEMMA CompleteChanged ==
    ASSUME Phases, NEW j \in Jobs, Busy(j), \A i \in Jobs \ {j} : Same(i),
           \A b \in 1..Len(rows') : Whole(b)', Welcome(j)', Writes(j)' => Fills(j)'
    PROVE  Complete'
<1>1. \A i \in Jobs \ {j} : ~Busy(i)'
  BY BusySame DEF Phases
<1> QED BY <1>1 DEF Complete, Writes

\* The sink state that a job reads is that of the latest batch.
LEMMA BeginJobComplete ==
    ASSUME Types, Phases, Tidy, Follows, Complete, NEW j \in Jobs, BeginJob(j),
           \A i \in Jobs : ~Busy(i)
    PROVE  Complete'
<1>1. \A i \in Jobs \ {j} : Same(i)
  BY OthersSame
<1>2. /\ handler'[j] = "findLatest" /\ rows' = rows /\ files' = files /\ saving'[j] = None
  BY TypeParts DEF Types, JobTypes, BeginJob, HandlerGoes, Busy, AtWork, StopUnderWay
<1>3. PICK full \in BOOLEAN :
         /\ newBatch'[j] = (full \/ SinkStateMissing)
         /\ next'[j] = IF full THEN 0 ELSE SinkOffset + 1
  BY TypeParts DEF Types, JobTypes, BeginJob
<1>4. rows = <<>> => DefaultBatches = {}
  BY TableFact DEF Types, DefaultBatches
<1>5. DefaultBatches = {} => SinkOffset = -1
  BY DEF SinkOffset
<1>6. DefaultBatches # {} => SinkOffset = Last(Len(rows))
  <2> SUFFICES ASSUME DefaultBatches # {} PROVE SinkOffset = Last(Len(rows))
    OBVIOUS
  <2>1. ~Replacing
    BY DEF Replacing, Busy, Running
  <2>2. Len(rows) \in DefaultBatches
    BY <2>1 DEF Follows
  <2>3. (CHOOSE b \in DefaultBatches : TRUE) = Len(rows)
    BY <2>2 DEF Tidy
  <2> QED BY <2>3 DEF SinkOffset, Last
<1>7. rows # <<>> => Last(Len(rows)) \in -1..MaxOffset
  BY TableFact DEF Types, Last
<1>8. next'[j] <= IF newBatch'[j] \/ rows = <<>> THEN 0 ELSE Last(Len(rows)) + 1
  <2>1. CASE full
    <3>1. newBatch'[j]
      BY <1>3, <2>1, Zenon
    <3>2. next'[j] = 0
      BY <1>3, <2>1
    <3> QED BY <3>1, <3>2
  <2>2. CASE ~full /\ DefaultBatches = {}
    <3>1. next'[j] = 0
      BY <1>3, <1>5, <2>2
    <3> QED BY <1>7, <3>1, JobsFact
  <2>3. CASE ~full /\ DefaultBatches # {}
    <3>1. rows # <<>> /\ ~SinkStateMissing
      BY <1>4, <2>3 DEF SinkStateMissing
    <3>2. next'[j] = Last(Len(rows)) + 1 /\ ~newBatch'[j]
      BY <1>3, <1>6, <2>3, <3>1
    <3> QED BY <1>7, <3>1, <3>2, JobsFact
  <2> QED BY <2>1, <2>2, <2>3
<1>9. Welcome(j)'
  <2>1. Last(Len(rows))' = Last(Len(rows))
    BY <1>2 DEF Last
  <2> QED BY <1>2, <1>8, <2>1 DEF Welcome
<1>10. ~Writes(j)'
  BY <1>2 DEF Writes
<1> QED BY <1>1, <1>2, <1>9, <1>10, CompleteQuiet

\* A step that leaves the rows and the files alone.
LEMMA QuietComplete ==
    ASSUME Types, Phases, Tidy, Complete, NEW j \in Jobs,
           FindBatch(j) => ~StopUnderWay(j),
           \/ FindLatest(j) \/ RefuseUpload(j) \/ FinishSending(j) \/ Flush(j)
           \/ ReadStopEntity(j) \/ EndStop(j) \/ FindBatch(j) \/ StopTimeout(j) \/ Disconnect(j)
    PROVE  Complete'
<1>1. \A i \in Jobs \ {j} : Same(i)
  BY OthersSame DEF Works
<1>2. JobTypes /\ Phase(j)
  BY TypeParts DEF Types, Phases
<1>3. (Writes(j) => Fills(j)) /\ (Busy(j) => Welcome(j))
  BY DEF Complete
<1>4. ASSUME rows' = rows, files' = files, Writes(j)' => Writes(j), Busy(j)' => Welcome(j)',
             UNCHANGED <<start, lastObserved, batch>>
      PROVE  Complete'
  BY <1>1, <1>3, <1>4, CompleteQuiet DEF Fills
<1>5. ASSUME rows' = rows, files' = files, ~Writes(j)', Busy(j)' => Welcome(j)' PROVE Complete'
  BY <1>1, <1>5, CompleteQuiet
<1>6. CASE FindLatest(j)
  <2>1. /\ handler[j] = "findLatest" /\ handler'[j] = "openBatch" /\ saving'[j] = None
        /\ UNCHANGED <<rows, files, next, newBatch>>
    BY <1>2, <1>6 DEF FindLatest, HandlerGoes, JobTypes, Phase, clientVars
  <2>2. Welcome(j)'
    BY <1>3, <2>1 DEF Welcome, Last, Busy, AtWork
  <2> QED BY <1>5, <2>1, <2>2 DEF Writes
<1>7. CASE RefuseUpload(j)
  <2>1. handler'[j] = "none" /\ saving'[j] = None /\ UNCHANGED <<rows, files>>
    BY <1>2, <1>7 DEF RefuseUpload, HandlerGoes, JobTypes, Phase
  <2> QED BY <1>5, <2>1 DEF Writes, Welcome
<1>8. CASE FinishSending(j)
  <2>1. Writes(j)
    BY <1>8 DEF FinishSending, Writes, Busy, Running
  <2>2. handler'[j] = "ending"
    BY <1>2, <1>8 DEF FinishSending, HandlerGoes, JobTypes
  <2> QED BY <1>4, <1>8, <2>1, <2>2 DEF FinishSending, Welcome
<1>9. CASE Flush(j)
  <2>1. Same(j) /\ rows' = rows /\ files' = files /\ handler[j] \in {"ending", "logging", "stopped"}
    BY <1>9 DEF Flush, Same, clientVars
  <2>2. Writes(j)' => Writes(j)
    BY <2>1, BusySame DEF Writes, Same
  <2>3. Welcome(j)'
    BY <2>1 DEF Welcome, Same
  <2> QED BY <1>4, <1>9, <2>1, <2>2, <2>3 DEF Flush
<1>10. CASE ReadStopEntity(j) \/ EndStop(j)
  <2>1. Writes(j)
    BY <1>10 DEF ReadStopEntity, EndStop, Writes, Busy, AtWork, StopUnderWay
  <2>2. handler'[j] \in {"logging", "stopped"}
    BY <1>2, <1>10 DEF ReadStopEntity, EndStop, HandlerGoes, JobTypes
  <2> QED BY <1>4, <1>10, <2>1, <2>2 DEF ReadStopEntity, EndStop, Welcome
<1>11. CASE FindBatch(j)
  <2>1. handler'[j] = "stopped" /\ saving'[j] = None
    BY <1>2, <1>11 DEF FindBatch, handlerVars, Phase, StopUnderWay
  <2> QED BY <1>5, <1>11, <2>1 DEF FindBatch, Writes, Welcome
<1>12. CASE StopTimeout(j)
  <2>1. Writes(j) /\ handler'[j] \in {"ending", "logging"}
    BY <1>2, <1>12 DEF StopTimeout, Writes, Busy, Running, Phase, handlerVars
  <2> QED BY <1>4, <1>12, <2>1 DEF StopTimeout, handlerVars, Welcome
<1>13. CASE Disconnect(j)
  <2>1. /\ handler'[j] = (IF handler[j] = "open" THEN "ending" ELSE handler[j])
        /\ UNCHANGED <<rows, files, saving, next, newBatch, lastObserved>> /\ Busy(j)
    BY <1>2, <1>13 DEF Disconnect, JobTypes, Busy
  <2>2. Writes(j)' => Writes(j)
    BY <2>1 DEF Writes
  <2>3. Welcome(j)'
    BY <1>3, <2>1 DEF Welcome, Last
  <2> QED BY <1>4, <1>13, <2>2, <2>3 DEF Disconnect
<1> QED BY <1>6, <1>7, <1>8, <1>9, <1>10, <1>11, <1>12, <1>13

LEMMA OpenBatchComplete ==
    ASSUME Types, Phases, Tidy, Complete, NEW j \in Jobs, Busy(j), OpenBatch(j) PROVE Complete'
<1>1. \A i \in Jobs \ {j} : Same(i)
  BY OthersSame DEF Works
<1>2. /\ TypeOK /\ JobTypes /\ handler[j] = "openBatch" /\ handler'[j] = "openFile"
      /\ UNCHANGED <<files, client, newBatch, next, entity, saving>>
  BY TypeParts, OpenBatchFact DEF Types, JobTypes, clientVars
<1>3. entity[j] = FindLatestBatch /\ saving[j] = None
  BY <1>2, Alone DEF Holds, Phase
<1>4. next[j] <= IF newBatch[j] \/ rows = <<>> THEN 0 ELSE Last(Len(rows)) + 1
  BY <1>2 DEF Complete, Welcome
<1>5. ~Writes(j)'
  BY <1>2, <1>3 DEF Writes
<1>6. CASE Continues(j)
  <2>1. entity[j] = EntityOf(Len(rows)) /\ rows # <<>>
    BY <1>2, <1>3, <1>6, LatestFact DEF Continues
  <2>2. Len(rows) \in 1..Len(rows)
    BY <1>2, <2>1, TableFact
  <2>3. lastObserved'[j] = Last(Len(rows)) /\ rows' = rows /\ ~newBatch[j]
    BY <1>2, <1>6, <2>1, <2>2, TableFact DEF Continues, Last, JobTypes
  <2>4. Welcome(j)'
    BY <1>2, <1>4, <2>1, <2>3 DEF Welcome
  <2> QED BY <1>1, <1>2, <1>5, <2>3, <2>4, CompleteQuiet
<1>7. CASE Adds(j)
  <2> DEFINE n == Len(rows)
  <2>1. /\ n \in Nat /\ Len(rows') = n + 1 /\ \A b \in 1..n : rows'[b] = rows[b]
        /\ rows'[n + 1] = NewRow /\ NewRow.lastOffset = -1
    BY <1>7, AddsDefaults
  <2>2. lastObserved'[j] = -1 /\ (newBatch[j] \/ rows = <<>>)
    BY <1>2, <1>3, <1>7, LatestFact DEF Adds, JobTypes
  <2>3. Welcome(j)'
    BY <1>2, <1>4, <2>2 DEF Welcome
  <2>4. ASSUME NEW b \in 1..Len(rows') PROVE Whole(b)'
    <3>1. CASE b \in 1..n
      BY <1>2, <2>1, <3>1, WholeSame DEF Complete, Last
    <3>2. CASE b = n + 1
      <4>1. b \in BatchNumbers
        <5>1. Types'
          BY OpenBatchTypes
        <5>2. Len(rows') \in 0..Cardinality(Jobs)
          BY <5>1 DEF Types, TypeOK
        <5> QED BY <2>1, <3>2, <5>2, JobsFact DEF BatchNumbers
      <4>2. DOMAIN files[b] = {}
        BY <2>1, <3>2, <4>1 DEF Tidy, Ordered
      <4>3. Last(b)' = -1
        BY <2>1, <3>2 DEF Last
      <4> QED BY <1>2, <4>2, <4>3 DEF Whole
    <3> QED BY <2>1, <3>1, <3>2
  <2> QED BY <1>1, <1>5, <2>3, <2>4, CompleteChanged
<1> QED BY <1>6, <1>7, OpenBatchFact

LEMMA OpenFileComplete ==
    ASSUME Types, Phases, Tidy, Complete, NEW j \in Jobs, Busy(j), OpenFile(j) PROVE Complete'
<1> DEFINE c == batch[j]
           o == lastObserved[j] + 1
<1>1. \A i \in Jobs \ {j} : Same(i)
  BY OthersSame DEF Works
<1>2. /\ TypeOK /\ JobTypes /\ handler[j] = "openFile" /\ handler'[j] = "open"
      /\ start'[j] = o /\ files' = Truncated(c, o)
      /\ UNCHANGED <<rows, newBatch, next, batch, lastObserved>>
  BY TypeParts DEF Types, JobTypes, OpenFile, HandlerGoes
<1>3. lastObserved[j] = Last(c)
  BY <1>2, Alone DEF Holds
<1>4. c \in BatchNumbers /\ c \in 1..Len(rows) /\ Last(c) \in -1..MaxOffset /\ o \in 0..MaxOffset + 1
  <2>1. c \in 1..Len(rows)
    BY <1>2 DEF Types, Known, Handles
  <2> QED BY <1>2, <1>3, <2>1, TableFact, JobsFact DEF Last
<1>5. /\ \A b \in BatchNumbers : b # c => files'[b] = files[b]
      /\ DOMAIN files'[c] = DOMAIN files[c] \cup {o} /\ files'[c][o] = {}
      /\ \A x \in DOMAIN files[c] : x # o => files'[c][x] = files[c][x]
  BY <1>2, <1>4, FilesTruncated
<1>6. Welcome(j)'
  BY <1>2 DEF Complete, Welcome
<1>7. Fills(j)'
  <2>1. start'[j]..lastObserved'[j] = {}
    BY <1>2, <1>3, <1>4
  <2> QED BY <2>1 DEF Fills
<1>8. (\A b : Last(b)' = Last(b)) /\ o = Last(c) + 1
  BY <1>2, <1>3 DEF Last
<1> HIDE DEF c, o
<1>9. ASSUME NEW b \in 1..Len(rows) PROVE Whole(b)'
  <2>1. Whole(b) /\ b \in BatchNumbers
    BY <1>2, TableFact DEF Complete
  <2>2. CASE b # c
    BY <1>5, <1>8, <2>1, <2>2, WholeSame
  <2>3. CASE b = c
    <3>1. ASSUME NEW x \in 0..Last(c)
          PROVE  \E y \in DOMAIN files'[c] : y <= Last(c) /\ x \in files'[c][y]
      <4>1. PICK y \in DOMAIN files[c] : y <= Last(c) /\ x \in files[c][y]
        BY <2>1, <2>3 DEF Whole
      <4>2. y # o
        BY <1>4, <1>8, <4>1
      <4> QED BY <1>5, <4>1, <4>2
    <3>2. files'[c][Last(c) + 1] = {}
      BY <1>5, <1>8
    <3> QED BY <1>8, <2>3, <3>1, <3>2 DEF Whole
  <2> QED BY <2>2, <2>3
<1> QED BY <1>1, <1>2, <1>6, <1>7, <1>9, CompleteChanged

LEMMA SendComplete ==
    ASSUME Types, Phases, Tidy, Complete, NEW j \in Jobs, Busy(j), Send(j) PROVE Complete'
<1> DEFINE c == batch[j]
           o == start[j]
           n == next[j]
<1>1. \A i \in Jobs \ {j} : Same(i)
  BY OthersSame DEF Works
<1>2. /\ TypeOK /\ JobTypes /\ handler[j] = "open" /\ n \in Offsets /\ n > lastObserved[j]
      /\ lastObserved'[j] = n /\ next'[j] = n + 1
      /\ files' = [files EXCEPT ![c][o] = @ \cup {n}]
      /\ UNCHANGED <<rows, newBatch, handler, batch, start>>
  BY TypeParts DEF Types, JobTypes, Send
<1>3. /\ o = Last(c) + 1 /\ o \in DOMAIN files[c]
      /\ \A x \in files[c][o] : x <= lastObserved[j]
  BY <1>2, Alone DEF Holds
<1>4. c \in BatchNumbers /\ Last(c) \in Int /\ o \in Int /\ n \in Int
  <2>1. c \in 1..Len(rows)
    BY <1>2 DEF Types, Known, Handles
  <2>2. Last(c) \in -1..MaxOffset /\ c \in BatchNumbers
    BY <1>2, <2>1, TableFact DEF Last
  <2> QED BY <1>2, <1>3, <2>1, <2>2, JobsFact DEF Offsets
<1>5. n = lastObserved[j] + 1 /\ lastObserved[j] \in Int
  <2>1. lastObserved[j] \in -1..MaxOffset /\ n <= lastObserved[j] + 1
    BY <1>2 DEF Complete, Welcome, JobTypes
  <2> QED BY <1>2, <1>4, <2>1, JobsFact
<1>6. o..lastObserved[j] \subseteq files[c][o]
  BY <1>2 DEF Complete, Fills, Writes
<1>7. o..n \subseteq files[c][o] \cup {n}
  <2>1. \A x \in o..n : x = n \/ x \in o..lastObserved[j]
    BY <1>4, <1>5
  <2> QED BY <1>6, <2>1
<1>8. /\ \A b \in BatchNumbers : b # c => files'[b] = files[b]
      /\ DOMAIN files'[c] = DOMAIN files[c] /\ files'[c][o] = files[c][o] \cup {n}
      /\ \A x \in DOMAIN files[c] : x # o => files'[c][x] = files[c][x]
  BY <1>2, <1>3, <1>4, RecordStored
<1>9. \A b : Last(b)' = Last(b)
  BY <1>2 DEF Last
<1>10. Welcome(j)'
  BY <1>2, <1>4 DEF Welcome
<1>11. Fills(j)'
  BY <1>2, <1>7, <1>8 DEF Fills
<1> HIDE DEF c, o, n
<1>12. ASSUME NEW b \in 1..Len(rows) PROVE Whole(b)'
  <2>1. Whole(b) /\ b \in BatchNumbers
    BY <1>2, TableFact DEF Complete
  <2>2. CASE b # c
    BY <1>8, <1>9, <2>1, <2>2, WholeSame
  <2>3. CASE b = c
    <3>1. ASSUME NEW x \in 0..Last(c)
          PROVE  \E y \in DOMAIN files'[c] : y <= Last(c) /\ x \in files'[c][y]
      <4>1. PICK y \in DOMAIN files[c] : y <= Last(c) /\ x \in files[c][y]
        BY <2>1, <2>3 DEF Whole
      <4> QED BY <1>8, <4>1
    <3>2. \A x \in files'[c][o] : o..x \subseteq files'[c][o]
      BY <1>3, <1>7, <1>8, <2>1, <2>3 DEF Whole
    <3> QED BY <1>3, <1>9, <2>3, <3>1, <3>2 DEF Whole
  <2> QED BY <2>2, <2>3
<1> QED BY <1>1, <1>2, <1>10, <1>11, <1>12, CompleteChanged

LEMMA SaveLandsComplete ==
    ASSUME Types, Phases, Tidy, Complete, NEW j \in Jobs, SaveLands(j) PROVE Complete'
<1> DEFINE c == batch[j]
           m == lastObserved[j]
<1>1. \A i \in Jobs \ {j} : Same(i)
  BY OthersSame DEF Works
<1>2. /\ TypeOK /\ JobTypes /\ saving[j] # None /\ saving'[j] = None
      /\ UNCHANGED <<files, handlerVars>>
  BY TypeParts DEF SaveLands, Types, JobTypes
<1>3. /\ Busy(j) /\ handler[j] = "stopped" /\ c \in 1..Len(rows) /\ c \in BatchNumbers
      /\ Last(c) \in -1..MaxOffset /\ Last(c) < m
      /\ start[j] = Last(c) + 1 /\ start[j] \in DOMAIN files[c]
      /\ Len(rows') = Len(rows) /\ rows'[c].lastOffset = m
      /\ \A b \in 1..Len(rows) : b # c => rows'[b] = rows[b]
  BY <1>2, SaveLandsFact DEF Last, handlerVars
<1>4. start[j]..m \subseteq files[c][start[j]]
  BY <1>2, <1>3 DEF Complete, Fills, Writes
<1>5. m \in Int /\ Last(c) \in Int
  BY <1>2, <1>3, JobsFact DEF JobTypes
<1>6. Welcome(j)' /\ ~Writes(j)'
  BY <1>2, <1>3 DEF Welcome, Writes, handlerVars
<1> HIDE DEF c, m
<1>7. ASSUME NEW b \in 1..Len(rows') PROVE Whole(b)'
  <2>1. Whole(b) /\ b \in 1..Len(rows)
    BY <1>3 DEF Complete
  <2>2. CASE b # c
    BY <1>2, <1>3, <2>1, <2>2, WholeSame DEF Last
  <2>3. CASE b = c
    <3>1. ASSUME NEW x \in 0..m PROVE \E y \in DOMAIN files[c] : y <= m /\ x \in files[c][y]
      <4>1. CASE x <= Last(c)
        <5>1. PICK y \in DOMAIN files[c] : y <= Last(c) /\ x \in files[c][y]
          BY <1>5, <2>1, <2>3, <4>1 DEF Whole
        <5>2. y \in Int
          BY <1>2, <1>3, <5>1, JobsFact DEF TypeOK, Offsets
        <5> QED BY <1>3, <1>5, <5>1, <5>2
      <4>2. CASE x > Last(c)
        <5>1. x \in start[j]..m
          BY <1>3, <1>5, <4>2
        <5> QED BY <1>3, <1>4, <1>5, <5>1
      <4> QED BY <1>5, <4>1, <4>2
    <3>2. m + 1 \notin DOMAIN files[c]
      <4>1. \A o \in DOMAIN files[c] : o <= Last(c) + 1
        BY <1>3 DEF Tidy, Ordered
      <4> QED BY <1>3, <1>5, <4>1
    <3>3. Last(b)' = m
      BY <1>3, <2>3 DEF Last
    <3> QED BY <1>2, <2>3, <3>1, <3>2, <3>3 DEF Whole
  <2> QED BY <2>2, <2>3
<1> QED BY <1>1, <1>3, <1>6, <1>7, CompleteChanged

LEMMA PublishComplete ==
    ASSUME Types, Phases, Tidy, Complete, NEW j \in Jobs, Publish(j) PROVE Complete'
<1>1. \A i \in Jobs \ {j} : Same(i)
  BY OthersSame DEF Works
<1>2. /\ Busy(j) /\ ~Busy(j)' /\ UNCHANGED <<files, handlerVars>> /\ Len(rows') = Len(rows)
      /\ \A b \in 1..Len(rows) : Last(b)' = Last(b)
  BY PublishFacts
<1>3. Welcome(j)'
  <2>1. handler[j] = "stopped"
    BY <1>2, Alone DEF Publish, Phase
  <2> QED BY <1>2, <2>1 DEF Welcome, handlerVars
<1>4. \A b \in 1..Len(rows') : Whole(b)'
  BY <1>2, WholeSame DEF Complete
<1> QED BY <1>1, <1>2, <1>3, <1>4, CompleteChanged DEF Writes

LEMMA CompleteStep ==
    ASSUME Types, Phases, Tidy, Follows, Complete, [Next]_vars, ~overlapped', ~ServerStops
    PROVE  Complete'
<1>1. ASSUME NEW j \in Jobs, BeginJob(j) PROVE Complete'
  BY <1>1, BeginJobComplete, InTurn
<1>2. ASSUME NEW j \in Jobs, Works(j) PROVE Complete'
  <2>1. FindBatch(j) => ~StopUnderWay(j)
    BY InTurn
  <2>2. OpenBatch(j) \/ OpenFile(j) \/ Send(j) => Busy(j)
    BY DEF OpenBatch, OpenFile, Send, Busy, AtWork, Running
  <2> QED BY <1>2, <2>1, <2>2, QuietComplete, OpenBatchComplete, OpenFileComplete, SendComplete,
             SaveLandsComplete, PublishComplete DEF Works
<1>3. CASE UNCHANGED vars
  <2>1. \A i \in Jobs : Same(i) /\ rows' = rows /\ files' = files
    BY <1>3 DEF Same, vars, clientVars, handlerVars
  <2>2. \A i \in Jobs : Busy(i)' => Welcome(i)'
    BY <2>1, BusySame DEF Complete, Welcome, Same, Last
  <2>3. \A i \in Jobs : Writes(i)' => Fills(i)'
    BY <2>1, BusySame DEF Complete, Writes, Fills, Same
  <2>4. \A b \in 1..Len(rows') : Whole(b)'
    BY <1>3, WholeSame DEF Complete, Last, vars
  <2> QED BY <2>2, <2>3, <2>4 DEF Complete
<1> QED BY <1>1, <1>2, <1>3, Steps

-----------------------------------------------------------------------------
(* Jobs that follow one another.                                           *)

LEMMA TurnInit == Init => TurnInv
<1> SUFFICES ASSUME Init PROVE TurnInv
  OBVIOUS
<1>1. /\ rows = <<>> /\ Len(rows) = 0
      /\ \A j \in Jobs : client[j] = "idle" /\ handler[j] = "none" /\ saving[j] = None
  BY EmptySeq DEF Init
<1>2. \A j \in Jobs : ~Busy(j)
  BY <1>1 DEF Busy, AtWork, StopUnderWay, Running
<1>3. Phases
  BY <1>1, <1>2 DEF Phases, Phase
<1>4. DefaultBatches = {}
  BY <1>1 DEF DefaultBatches
<1>5. \A b \in BatchNumbers : DOMAIN files[b] = {}
  <2>1. \A b \in BatchNumbers : files[b] = <<>>
    BY DEF Init
  <2>2. DOMAIN <<>> = {}
    OBVIOUS
  <2> QED BY <2>1, <2>2
<1>6. Tidy
  BY <1>1, <1>2, <1>4, <1>5 DEF Tidy, Ordered, Disjoint
<1>7. \A b : b \notin 1..Len(rows)
  BY <1>1
<1>8. Follows /\ Received /\ Complete
  BY <1>2, <1>4, <1>7 DEF Follows, Received, Complete, Writes
<1> QED BY <1>3, <1>6, <1>8 DEF TurnInv

LEMMA TurnStep == Types /\ TurnInv /\ [Next]_vars => TurnInv'
<1> SUFFICES ASSUME Types, TurnInv, [Next]_vars, ~overlapped'
             PROVE  /\ Phases' /\ Tidy'
                    /\ ~Abandoned' => Follows'
                    /\ NoCrash' => Received'
                    /\ NoCrash' /\ ~Abandoned' => Complete'
  BY DEF TurnInv
<1>1. ~overlapped /\ Phases /\ Tidy
  BY InTurn DEF TurnInv
<1>2. ~Abandoned' => ~Abandoned /\ Follows
  BY <1>1, AbandonedStays DEF TurnInv
<1>3. NoCrash' => NoCrash /\ ~ServerStops /\ Received
  BY <1>1, NoStop DEF TurnInv
<1>4. Phases' /\ Tidy'
  BY <1>1, PhasesStep, TidyStep
<1>5. ~Abandoned' => Follows'
  BY <1>1, <1>2, FollowsStep
<1>6. NoCrash' => Received'
  BY <1>1, <1>3, ReceivedStep
<1>7. NoCrash' /\ ~Abandoned' => Complete'
  <2> SUFFICES ASSUME NoCrash', ~Abandoned' PROVE Complete'
    OBVIOUS
  <2>1. Complete /\ Follows /\ ~ServerStops
    BY <1>1, <1>2, <1>3 DEF TurnInv
  <2> QED BY <1>1, <2>1, CompleteStep
<1> QED BY <1>4, <1>5, <1>6, <1>7

LEMMA TurnInvariance == Spec => []TurnInv
BY TurnInit, TurnStep, TypesInvariance, PTL DEF Spec

\* As long as jobs follow one another, and whatever lost connections, late answers
\* and crashes have left of the files, no record is in two files of a batch:
\* writeBatch opens a file whose name no record of the batch has reached, or the
\* one that holds what was not saved.
THEOREM NoRecordTwice == Spec => []FilesDisjoint
<1>1. TurnInv => FilesDisjoint
  BY DEF TurnInv, Tidy, Disjoint, FilesDisjoint
<1> QED BY <1>1, TurnInvariance, PTL

\* As long as jobs follow one another, the stop of an upload and the publication
\* of a batch never leave a stream that has an active batch without one, whoever
\* was disconnected, not answered in time or stopped with the server before.
THEOREM StreamStaysActive == Spec => StaysPublished
<1>1. ASSUME Types, TurnInv, [Next]_vars
      PROVE  [~overlapped /\ DefaultBatches # {} => DefaultBatches' # {}]_vars
  BY <1>1, ActiveStep DEF TurnInv
<1>2. Types /\ TurnInv /\ [Next]_vars => [~overlapped /\ DefaultBatches # {} => DefaultBatches' # {}]_vars
  BY <1>1
<1> QED BY <1>2, TypesInvariance, TurnInvariance, PTL DEF Spec, StaysPublished

\* As long as jobs follow one another and the server does not stop, the offset that
\* stop() saves, from which the next job goes on, is that of a record in the files
\* of the batch, though a disconnected upload is stopped half-way and a client that
\* gave up waiting goes on.
THEOREM SavedIsReceived == Spec => []NeverClaimsUnreceived
<1>1. TurnInv => NeverClaimsUnreceived
  BY DEF TurnInv, Received, NeverClaimsUnreceived, Last
<1> QED BY <1>1, TurnInvariance, PTL

\* As long as jobs follow one another, the server does not stop and no job leaves a
\* new batch behind, jobs that replace the data or append to it, and appends that
\* are cut off, leave an active batch in which no record precedes one that it does
\* not hold: skipping by the saved offset skips nothing that is missing.
THEOREM ActiveIsUnbroken == Spec => []PublishedHasNoGaps
<1>1. ASSUME Types, TurnInv PROVE PublishedHasNoGaps
  <2> SUFFICES ASSUME NoCrash, ~overlapped, ~Abandoned,
                      NEW b \in DefaultBatches, NEW o \in Stored(b), NEW x \in 0..o
               PROVE  x \in Stored(b)
    BY DEF PublishedHasNoGaps
  <2>1. PICK s \in DOMAIN files[b] : o \in files[b][s]
    BY DEF Stored
  <2>2. Whole(b) /\ Ordered(b) /\ Last(b) \in -1..MaxOffset /\ b \in BatchNumbers
    <3>1. b \in 1..Len(rows)
      BY DEF DefaultBatches
    <3> QED BY <1>1, <3>1, TableFact DEF TurnInv, Complete, Tidy, Last, Types
  <2>3. s \in Int /\ o \in Int /\ Last(b) \in Int
    BY <1>1, <2>1, <2>2, JobsFact DEF Types, TypeOK, Offsets
  <2>4. s <= Last(b) + 1 /\ s <= o /\ (s <= Last(b) => o <= Last(b))
    BY <2>1, <2>2 DEF Ordered
  <2>5. ASSUME NEW f \in DOMAIN files[b], x \in files[b][f] PROVE x \in Stored(b)
    BY <2>5 DEF Stored
  <2>6. CASE x <= Last(b)
    <3>1. x \in 0..Last(b)
      BY <2>3, <2>6
    <3> QED BY <2>2, <2>5, <3>1 DEF Whole
  <2>7. CASE x > Last(b)
    <3>1. s = Last(b) + 1 /\ x \in Last(b) + 1 .. o
      BY <2>3, <2>4, <2>7
    <3>2. x \in files[b][s]
      BY <2>1, <2>2, <3>1 DEF Whole
    <3> QED BY <2>5, <3>2
  <2> QED BY <2>3, <2>6, <2>7
<1>2. Types /\ TurnInv => PublishedHasNoGaps
  BY <1>1
<1> QED BY <1>2, TypesInvariance, TurnInvariance, PTL

\* As long as jobs follow one another and none leaves a new batch behind, an upload
\* that was told to go on in the active batch writes to the active batch, though
\* start() takes the latest one: an append that fails, by a lost connection or a
\* stop of the server, makes no batch the latest that is not active.
THEOREM GoesOnInActive == Spec => []AppendsToActive
<1>1. ASSUME Types, TurnInv PROVE AppendsToActive
  <2> SUFFICES ASSUME ~overlapped, ~Abandoned, NEW j \in Jobs, client[j] = "sending", ~newBatch[j],
                      DefaultBatches # {}
               PROVE  batch[j] \in DefaultBatches
    BY DEF AppendsToActive
  <2>1. Phases /\ Tidy /\ Follows /\ Busy(j)
    BY <1>1 DEF TurnInv, Busy, Running
  <2>2. ~Replacing
    BY <2>1 DEF Replacing, Phases, Busy, Running
  <2>3. batch[j] = Len(rows)
    BY <2>1, Alone DEF Phase, Holds, Handles
  <2> QED BY <2>1, <2>2, <2>3 DEF Follows
<1>2. Types /\ TurnInv => AppendsToActive
  BY <1>1
<1> QED BY <1>2, TypesInvariance, TurnInvariance, PTL
=============================================================================
