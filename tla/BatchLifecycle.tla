--------------------------- MODULE BatchLifecycle ---------------------------
(***************************************************************************)
(* The life of the data batches of one stream on a registry: upload jobs   *)
(* (client-lib, DataPMSink) read the stream's state, upload records to a   *)
(* new batch or to the end of the latest one, stop the upload and publish  *)
(* the batch; on the server each upload has a DataUploadHandler, each      *)
(* publication a SetActiveBatchesHandler.  The batch table and the data    *)
(* files are shared, and every await of a handler lets the others run.     *)
(*                                                                         *)
(* A record is its offset in the source.  What is acknowledged on a socket *)
(* (a chunk of records, the answer to a request) is one step with the      *)
(* handler step that answers it.  The per-stream lock of createLock is not *)
(* a variable: the promise of distributedLockingService.lock is never      *)
(* awaited, so the lock never keeps an upload from going on.  A TypeORM    *)
(* save (reload, compare, UPDATE of the differing columns) is one step     *)
(* that leaves the row with all columns of the saved entity.               *)
(***************************************************************************)
EXTENDS Integers, Sequences, FiniteSets

CONSTANTS
    Jobs,           \* upload jobs, each run once
    MaxOffset,      \* the source has records 0..MaxOffset
    MaxJobs,        \* jobs that clients run at the same time
    MaxTimeouts,    \* how often a client gives up waiting for a stop response
    MaxDisconnects, \* how many client connections are lost
    MaxCrashes,     \* how often the server stops without notice
    Siblings,       \* other streams of the package have an active batch
    None            \* no entity, no batch

ASSUME BoundsAssumption ==
    /\ MaxOffset \in Nat /\ MaxJobs \in Nat \ {0}
    /\ MaxTimeouts \in Nat /\ MaxDisconnects \in Nat /\ MaxCrashes \in Nat
    /\ Siblings \in BOOLEAN /\ IsFiniteSet(Jobs)

Offsets == 0..MaxOffset
BatchNumbers == 1..Cardinality(Jobs)
Row == [default : BOOLEAN, lastOffset : -1..MaxOffset]
Entity == [batch : BatchNumbers, default : BOOLEAN, lastOffset : -1..MaxOffset]

ASSUME NoneAssumption == None \notin BatchNumbers \cup Entity

VARIABLES
    rows,       \* the batch table: rows[b] is the row of batch b
    files,      \* files[b]: start offset -> the offsets stored in that file
    client,     \* where each job is
    newBatch,   \* StartUploadRequest.newBatch
    next,       \* offset of the next record the job sends
    handler,    \* where the job's DataUploadHandler is
    entity,     \* start()'s batchEntity, later the one read by stop()
    batch,      \* batchIdentifier.batch
    lastObserved, \* lastObservedOffset
    start,      \* start offset of the file the upload writes
    unflushed,  \* the file may not be on disk yet
    saving,     \* the entity of stop()'s un-awaited save, until it lands
    publishing, \* dataBatchEntity of the job's SetActiveBatchesHandler
    spent,      \* how often each bounded event has happened
    overlapped  \* somebody went on while a job or a stop was under way; only
                \* properties read it

clientVars == <<client, newBatch, next>>
handlerVars == <<handler, entity, batch, lastObserved, start, unflushed>>
historyVars == <<spent, overlapped>>
vars == <<rows, files, clientVars, handlerVars, saving, publishing, historyVars>>

TypeOK ==
    /\ rows \in Seq(Row) /\ Len(rows) \in 0..Cardinality(Jobs)
    /\ DOMAIN files = BatchNumbers
    /\ \A b \in BatchNumbers : /\ DOMAIN files[b] \subseteq Offsets \cup {MaxOffset + 1}
                               /\ \A o \in DOMAIN files[b] : files[b][o] \subseteq Offsets
    /\ client \in [Jobs -> {"idle", "starting", "sending", "stopping",
                            "publishing", "switching", "done", "failed"}]
    /\ newBatch \in [Jobs -> BOOLEAN]
    /\ next \in [Jobs -> 0..(MaxOffset + 1)]
    /\ handler \in [Jobs -> {"none", "findLatest", "openBatch", "openFile",
                             "open", "ending", "logging", "stopped"}]
    /\ entity \in [Jobs -> Entity \cup {None}]
    /\ batch \in [Jobs -> BatchNumbers \cup {None}]
    /\ lastObserved \in [Jobs -> -1..MaxOffset]
    /\ start \in [Jobs -> 0..(MaxOffset + 1)]
    /\ unflushed \in [Jobs -> BOOLEAN]
    /\ saving \in [Jobs -> Entity \cup {None}]
    /\ publishing \in [Jobs -> Entity \cup {None}]
    /\ spent \in [{"timeout", "disconnect", "crash"} -> Nat]
    /\ overlapped \in BOOLEAN

Init ==
    /\ rows = <<>>
    /\ files = [b \in BatchNumbers |-> <<>>]
    /\ client = [j \in Jobs |-> "idle"]
    /\ newBatch = [j \in Jobs |-> FALSE]
    /\ next = [j \in Jobs |-> 0]
    /\ handler = [j \in Jobs |-> "none"]
    /\ entity = [j \in Jobs |-> None]
    /\ batch = [j \in Jobs |-> None]
    /\ lastObserved = [j \in Jobs |-> -1]
    /\ start = [j \in Jobs |-> 0]
    /\ unflushed = [j \in Jobs |-> FALSE]
    /\ saving = [j \in Jobs |-> None]
    /\ publishing = [j \in Jobs |-> None]
    /\ spent = [e \in {"timeout", "disconnect", "crash"} |-> 0]
    /\ overlapped = FALSE

-----------------------------------------------------------------------------
(* Reading the batch table and the files.                                  *)

DefaultBatches == {b \in 1..Len(rows) : rows[b].default}

EntityOf(b) == [batch |-> b, default |-> rows[b].default, lastOffset |-> rows[b].lastOffset]

\* ORDER BY batch DESC: the batch uploaded last, active or not.
FindLatestBatch == IF rows = <<>> THEN None ELSE EntityOf(Len(rows))

\* PackageSinkStateHandler: the offset up to which the active batch is known
\* to hold the stream; no state at all when the package has no active batch.
SinkOffset ==
    IF DefaultBatches = {} THEN -1
    ELSE rows[CHOOSE b \in DefaultBatches : TRUE].lastOffset

SinkStateMissing == DefaultBatches = {} /\ ~Siblings

\* The UPDATE of a saved entity violates the unique index on default batches.
SecondDefault(e) == e.default /\ DefaultBatches \ {e.batch} # {}

Saved(e) == [rows EXCEPT ![e.batch] = [default |-> e.default, lastOffset |-> e.lastOffset]]

Stored(b) == UNION {files[b][o] : o \in DOMAIN files[b]}

\* createWriteStream opens <start>.msgpack.gz empty, whether it exists or not.
Truncated(b, o) ==
    [files EXCEPT ![b] = [x \in DOMAIN @ \cup {o} |-> IF x = o THEN {} ELSE @[x]]]

ClientGoes(j, c) == client' = [client EXCEPT ![j] = c]
HandlerGoes(j, h) == handler' = [handler EXCEPT ![j] = h]

Running == {j \in Jobs : client[j] \notin {"idle", "done", "failed"}}

\* A stop has not come to its end: it has yet to read or to save the entity.
StopUnderWay(j) == handler[j] \in {"ending", "logging"} \/ saving[j] # None

\* The server still works for the job, whether its client is there or not.
AtWork(j) == StopUnderWay(j) \/ handler[j] \in {"findLatest", "openBatch", "openFile"}

-----------------------------------------------------------------------------
(* Starting an upload.  (A definition whose name ends in Mutant is a       *)
(* mistake the code does not make; the properties tell it from the code.)  *)

\* The job skips one record more than the sink state says.
SkipsOneMutant(j) ==
    /\ client[j] = "idle"
    /\ Cardinality(Running) < MaxJobs
    /\ \E full \in BOOLEAN :
          /\ newBatch' = [newBatch EXCEPT ![j] = full \/ SinkStateMissing]
          /\ next' = [next EXCEPT ![j] =
                IF full \/ SinkStateMissing THEN 0 ELSE SinkOffset + 2]
    /\ next'[j] \in Offsets
    /\ ClientGoes(j, "starting")
    /\ HandlerGoes(j, "findLatest")
    /\ overlapped' = (overlapped \/ \E i \in Jobs : i \in Running \/ AtWork(i))
    /\ UNCHANGED <<rows, files, entity, batch, lastObserved, start, unflushed,
                   saving, publishing, spent>>

\* A job that appends reads the sink state and sends the records after it; a
\* job that replaces the data, or finds no state, starts a new batch at 0.
\* The first record makes DataPMSink send START_DATA_UPLOAD.
BeginJob(j) ==
    /\ client[j] = "idle"
    /\ Cardinality(Running) < MaxJobs
    /\ \E full \in BOOLEAN :
          /\ newBatch' = [newBatch EXCEPT ![j] = full \/ SinkStateMissing]
          /\ next' = [next EXCEPT ![j] = IF full THEN 0 ELSE SinkOffset + 1]
    /\ next'[j] \in Offsets
    /\ ClientGoes(j, "starting")
    /\ HandlerGoes(j, "findLatest")
    /\ overlapped' = (overlapped \/ \E i \in Jobs : i \in Running \/ AtWork(i))
    /\ UNCHANGED <<rows, files, entity, batch, lastObserved, start, unflushed,
                   saving, publishing, spent>>

\* start(): let batchEntity = await findLatestBatch.
FindLatest(j) ==
    /\ handler[j] = "findLatest"
    /\ entity' = [entity EXCEPT ![j] = FindLatestBatch]
    /\ HandlerGoes(j, "openBatch")
    /\ UNCHANGED <<rows, files, clientVars, batch, lastObserved, start,
                   unflushed, saving, publishing, historyVars>>

\* The batch table without its unique constraint: an upload whose batch number
\* has been taken by another one uses that batch.
SharesBatchMutant(j) ==
    /\ handler[j] = "openBatch"
    /\ LET b == IF entity[j] = None THEN 1 ELSE entity[j].batch + 1
       IN  /\ rows' = IF b = Len(rows) + 1
                     THEN Append(rows, [default |-> FALSE, lastOffset |-> -1]) ELSE rows
           /\ batch' = [batch EXCEPT ![j] = b]
    /\ lastObserved' = [lastObserved EXCEPT ![j] = -1]
    /\ HandlerGoes(j, "openFile")
    /\ UNCHANGED <<files, clientVars, entity, start, unflushed, saving,
                   publishing, historyVars>>

\* A new batch replaces the active one when its upload starts.
ReplacesAtOnceMutant(j) ==
    /\ handler[j] = "openBatch"
    /\ LET b == IF entity[j] = None THEN 1 ELSE entity[j].batch + 1
       IN  /\ b = Len(rows) + 1
           /\ rows' = Append([i \in 1..Len(rows) |-> [rows[i] EXCEPT !.default = FALSE]],
                             [default |-> FALSE, lastOffset |-> -1])
           /\ batch' = [batch EXCEPT ![j] = b]
    /\ lastObserved' = [lastObserved EXCEPT ![j] = -1]
    /\ HandlerGoes(j, "openFile")
    /\ UNCHANGED <<files, clientVars, entity, start, unflushed, saving,
                   publishing, historyVars>>

\* start(): a new batch is saved as a row of its own, if no other upload has
\* taken its number; otherwise the upload goes on in the latest batch.
OpenBatch(j) ==
    /\ handler[j] = "openBatch"
    /\ IF newBatch[j] \/ entity[j] = None
       THEN LET b == IF entity[j] = None THEN 1 ELSE entity[j].batch + 1
            IN  /\ b = Len(rows) + 1
                /\ rows' = Append(rows, [default |-> FALSE, lastOffset |-> -1])
                /\ batch' = [batch EXCEPT ![j] = b]
                /\ lastObserved' = [lastObserved EXCEPT ![j] = -1]
       ELSE /\ batch' = [batch EXCEPT ![j] = entity[j].batch]
            /\ lastObserved' = [lastObserved EXCEPT ![j] = entity[j].lastOffset]
            /\ UNCHANGED rows
    /\ HandlerGoes(j, "openFile")
    /\ UNCHANGED <<files, clientVars, entity, start, unflushed, saving,
                   publishing, historyVars>>

\* start() answers with an error: no version, no such schema, or the unique
\* constraint on the batch number.
RefuseUpload(j) ==
    /\ handler[j] = "openBatch"
    /\ HandlerGoes(j, "none")
    /\ ClientGoes(j, "failed")
    /\ UNCHANGED <<rows, files, newBatch, next, entity, batch, lastObserved,
                   start, unflushed, saving, publishing, historyVars>>

\* start(): after the activity log, writeBatch opens the file, the handlers of
\* the channel are registered and StartUploadResponse is sent.
OpenFile(j) ==
    /\ handler[j] = "openFile"
    /\ start' = [start EXCEPT ![j] = lastObserved[j] + 1]
    /\ files' = Truncated(batch[j], lastObserved[j] + 1)
    /\ HandlerGoes(j, "open")
    /\ client' = [client EXCEPT ![j] = IF @ = "starting" THEN "sending" ELSE @]
    /\ UNCHANGED <<rows, newBatch, next, entity, batch, lastObserved, unflushed,
                   saving, publishing, historyVars>>

-----------------------------------------------------------------------------
(* A stop of the server.                                                   *)

\* The server stops: handlers and un-awaited saves are gone, and of a file
\* that was not yet complete only the records before some offset remain.
ServerStops ==
    /\ spent' = [spent EXCEPT !["crash"] = @ + 1]
    /\ \E kept \in 0..(MaxOffset + 1) :
          files' = [b \in BatchNumbers |->
                     [o \in DOMAIN files[b] |->
                        IF \E j \in Jobs : unflushed[j] /\ batch[j] = b /\ start[j] = o
                        THEN {x \in files[b][o] : x < kept} ELSE files[b][o]]]
    /\ handler' = [j \in Jobs |-> IF handler[j] = "stopped" THEN "stopped" ELSE "none"]
    /\ unflushed' = [j \in Jobs |-> FALSE]
    /\ saving' = [j \in Jobs |-> None]
    /\ publishing' = [j \in Jobs |-> None]
    /\ client' = [j \in Jobs |-> IF j \in Running THEN "failed" ELSE client[j]]
    /\ UNCHANGED <<rows, newBatch, next, entity, batch, lastObserved, start,
                   overlapped>>

-----------------------------------------------------------------------------
(* Sending records.                                                        *)

\* UPLOAD_DATA: a record after the last observed one goes to the file.
Send(j) ==
    /\ client[j] = "sending" /\ handler[j] = "open"
    /\ next[j] \in Offsets
    /\ next[j] > lastObserved[j]
    /\ lastObserved' = [lastObserved EXCEPT ![j] = next[j]]
    /\ files' = [files EXCEPT ![batch[j]][start[j]] = @ \cup {next[j]}]
    /\ unflushed' = [unflushed EXCEPT ![j] = TRUE]
    /\ next' = [next EXCEPT ![j] = @ + 1]
    /\ UNCHANGED <<rows, client, newBatch, handler, entity, batch, start,
                   saving, publishing, historyVars>>

\* UPLOAD_DATA: the transform calls back with an error for any other record.
\* Nothing listens to the errors of the stream, so the error ends the server.
RejectRecord(j) ==
    /\ client[j] = "sending" /\ handler[j] = "open"
    /\ next[j] <= lastObserved[j]
    /\ ServerStops

\* The source has no more records: final() sends UPLOAD_STOP, stop("client").
\* A job sends at least the record for which it started the upload.
FinishSending(j) ==
    /\ client[j] = "sending" /\ handler[j] = "open"
    /\ lastObserved[j] >= start[j]
    /\ ClientGoes(j, "stopping")
    /\ HandlerGoes(j, "ending")
    /\ UNCHANGED <<rows, files, newBatch, next, entity, batch, lastObserved,
                   start, unflushed, saving, publishing, historyVars>>

-----------------------------------------------------------------------------
(* Stopping an upload.                                                     *)

\* The gzip stream and the file are finished some time after stream.end().
Flush(j) ==
    /\ unflushed[j] /\ handler[j] \in {"ending", "logging", "stopped"}
    /\ unflushed' = [unflushed EXCEPT ![j] = FALSE]
    /\ UNCHANGED <<rows, files, clientVars, handler, entity, batch, lastObserved,
                   start, saving, publishing, historyVars>>

\* stop(): batchEntity = await findLatestBatch, after stream.end().
ReadStopEntity(j) ==
    /\ handler[j] = "ending"
    /\ entity' = [entity EXCEPT ![j] = FindLatestBatch]
    /\ HandlerGoes(j, "logging")
    /\ UNCHANGED <<rows, files, clientVars, batch, lastObserved, start, unflushed,
                   saving, publishing, historyVars>>

\* stop() saves an offset one too high.
SavesNextOffsetMutant(j) ==
    /\ handler[j] = "logging"
    /\ saving' = [saving EXCEPT ![j] =
          [entity[j] EXCEPT !.lastOffset = lastObserved[j] + 1]]
    /\ HandlerGoes(j, "stopped")
    /\ client' = [client EXCEPT ![j] = IF @ = "stopping" THEN "publishing" ELSE @]
    /\ UNCHANGED <<rows, files, newBatch, next, entity, batch, lastObserved, start,
                   unflushed, publishing, historyVars>>

\* stop() saves the offset at which the upload started.
SavesFirstOffsetMutant(j) ==
    /\ handler[j] = "logging"
    /\ saving' = [saving EXCEPT ![j] =
          IF start[j] \in files[batch[j]][start[j]]
          THEN [entity[j] EXCEPT !.lastOffset = start[j]] ELSE None]
    /\ HandlerGoes(j, "stopped")
    /\ client' = [client EXCEPT ![j] = IF @ = "stopping" THEN "publishing" ELSE @]
    /\ UNCHANGED <<rows, files, newBatch, next, entity, batch, lastObserved, start,
                   unflushed, publishing, historyVars>>

\* stop() throws before it answers and nobody reports the error.
StopHangsMutant(j) ==
    /\ handler[j] = "logging"
    /\ HandlerGoes(j, "stopped")
    /\ UNCHANGED <<rows, files, clientVars, entity, batch, lastObserved, start,
                   unflushed, saving, publishing, historyVars>>

\* stop(): after the activity log, the offset is saved without an await (an
\* offset of 0 counts as no offset); UploadStopResponse is sent.
EndStop(j) ==
    /\ handler[j] = "logging"
    /\ saving' = [saving EXCEPT ![j] =
          IF lastObserved[j] # 0 /\ lastObserved[j] > entity[j].lastOffset
          THEN [entity[j] EXCEPT !.lastOffset = lastObserved[j]]
          ELSE None]
    /\ HandlerGoes(j, "stopped")
    /\ client' = [client EXCEPT ![j] = IF @ = "stopping" THEN "publishing" ELSE @]
    /\ UNCHANGED <<rows, files, newBatch, next, entity, batch, lastObserved, start,
                   unflushed, publishing, historyVars>>

\* The save of stop() reaches the database, or fails on the unique index.
SaveLands(j) ==
    /\ saving[j] # None
    /\ rows' = IF SecondDefault(saving[j]) THEN rows ELSE Saved(saving[j])
    /\ saving' = [saving EXCEPT ![j] = None]
    /\ UNCHANGED <<files, clientVars, handlerVars, publishing, historyVars>>

\* final(): the client waits 5 seconds for UploadStopResponse, then goes on.
StopTimeout(j) ==
    /\ client[j] = "stopping"
    /\ spent["timeout"] < MaxTimeouts
    /\ spent' = [spent EXCEPT !["timeout"] = @ + 1]
    /\ ClientGoes(j, "publishing")
    /\ UNCHANGED <<rows, files, newBatch, next, handlerVars, saving, publishing,
                   overlapped>>

-----------------------------------------------------------------------------
(* Publishing the batch: commitAfterWrites and SetActiveBatchesHandler.     *)

\* findBatchOrFail, outside the transaction.  The save that the job's own stop
\* did not await may still be on its way.
FindBatch(j) ==
    /\ client[j] = "publishing"
    /\ publishing' = [publishing EXCEPT ![j] = EntityOf(batch[j])]
    /\ ClientGoes(j, "switching")
    /\ overlapped' = (overlapped \/ StopUnderWay(j))
    /\ UNCHANGED <<rows, files, newBatch, next, handlerVars, saving, spent>>

\* The publication names the first batch of the stream.
PublishFirstMutant(j) ==
    /\ client[j] = "switching"
    /\ rows' = [b \in 1..Len(rows) |-> [rows[b] EXCEPT !.default = (b = 1)]]
    /\ publishing' = [publishing EXCEPT ![j] = None]
    /\ ClientGoes(j, "done")
    /\ UNCHANGED <<files, newBatch, next, handlerVars, saving, historyVars>>

\* The transaction: the active batch is saved with default = false and the
\* entity found before with default = true.  (Two concurrent transactions
\* are the subject of ActiveBatches.)
Publish(j) ==
    /\ client[j] = "switching"
    /\ rows' = [b \in 1..Len(rows) |->
                  IF b = batch[j]
                  THEN [default |-> TRUE, lastOffset |-> publishing[j].lastOffset]
                  ELSE [rows[b] EXCEPT !.default = FALSE]]
    /\ publishing' = [publishing EXCEPT ![j] = None]
    /\ ClientGoes(j, "done")
    /\ UNCHANGED <<files, newBatch, next, handlerVars, saving, historyVars>>

-----------------------------------------------------------------------------
(* Failures.                                                               *)

\* The client's connection is lost: stop("disconnect") if start() has come
\* to register it; an upload that is still starting is not told.  A publication
\* the server has begun it also ends.
Disconnect(j) ==
    /\ j \in Running /\ client[j] # "switching"
    /\ spent["disconnect"] < MaxDisconnects
    /\ spent' = [spent EXCEPT !["disconnect"] = @ + 1]
    /\ ClientGoes(j, "failed")
    /\ handler' = [handler EXCEPT ![j] = IF @ = "open" THEN "ending" ELSE @]
    /\ UNCHANGED <<rows, files, newBatch, next, entity, batch, lastObserved, start,
                   unflushed, saving, publishing, overlapped>>

\* The server process ends without notice.
Crash == spent["crash"] < MaxCrashes /\ ServerStops

-----------------------------------------------------------------------------
\* What the server does by itself, and what a client does that keeps going.
Progress(j) ==
    \/ FindLatest(j) \/ OpenBatch(j) \/ RefuseUpload(j) \/ OpenFile(j)
    \/ Send(j) \/ RejectRecord(j) \/ FinishSending(j)
    \/ Flush(j) \/ ReadStopEntity(j) \/ EndStop(j) \/ SaveLands(j)
    \/ FindBatch(j) \/ Publish(j)

Quiet ==
    /\ \A j \in Jobs : client[j] # "idle" /\ j \notin Running
    /\ UNCHANGED vars

Next ==
    \/ \E j \in Jobs : \/ BeginJob(j) \/ Progress(j)
                       \/ StopTimeout(j) \/ Disconnect(j)
    \/ Crash
    \/ Quiet

Spec == Init /\ [][Next]_vars
FairSpec == Spec /\ \A j \in Jobs : WF_vars(Progress(j))

-----------------------------------------------------------------------------
(* Properties.                                                             *)

\* Two uploads that each asked for a new batch never write into the same one,
\* however they interleave between findLatestBatch and the INSERT: the one
\* that comes second is refused.
NewBatchesAreOwn ==
    \A i, j \in Jobs :
       i # j /\ newBatch[i] /\ newBatch[j] /\ batch[i] # None => batch[i] # batch[j]

\* No job hangs: whatever is lost, refused, timed out or crashed, each job
\* ends, published or failed.
EveryJobEnds == \A j \in Jobs : client[j] = "starting" ~> client[j] \in {"done", "failed"}

\* No crash, and no record that made the server stop.
NoCrash == spent["crash"] = 0

\* A job that was to replace the data has failed after it created its batch: its
\* connection was lost, or the server stopped.  The batch stays the latest one.
Abandoned == \E j \in Jobs : newBatch[j] /\ client[j] = "failed" /\ batch[j] # None

\* While jobs follow one another, whatever connections they lose and however
\* late their stops are answered, the offset saved with a batch (the state the
\* next job goes on from) is that of a record the batch holds.
NeverClaimsUnreceived ==
    NoCrash /\ ~overlapped =>
       \A b \in 1..Len(rows) :
          rows[b].lastOffset = -1 \/ rows[b].lastOffset \in Stored(b)

\* While jobs follow one another and none leaves a new batch behind, a reader of
\* the active batch, who reads file after file, misses no record that precedes
\* one it gets, though jobs that append may fail at any step.
PublishedHasNoGaps ==
    NoCrash /\ ~overlapped /\ ~Abandoned =>
       \A b \in DefaultBatches : \A o \in Stored(b) : 0..o \subseteq Stored(b)

\* While jobs follow one another and none leaves a new batch behind, a job that
\* was told the state of the active batch, and sends only what comes after it,
\* adds its records to that batch, though others crashed or lost a connection.
AppendsToActive ==
    ~overlapped /\ ~Abandoned =>
       \A j \in Jobs :
          client[j] = "sending" /\ ~newBatch[j] /\ DefaultBatches # {}
             => batch[j] \in DefaultBatches

\* While jobs follow one another no record is in two files of a batch, so no
\* reader gets it twice, whatever lost connections and crashes have left of the
\* files and of batches that were never published.
FilesDisjoint ==
    ~overlapped =>
       \A b \in BatchNumbers : \A o1, o2 \in DOMAIN files[b] :
          o1 # o2 => files[b][o1] \cap files[b][o2] = {}

\* While jobs follow one another, some batch of a stream is active once one has
\* been: no lost connection, late answer, crash or abandoned batch takes the
\* stream away from readers.
StaysPublished == [][~overlapped /\ DefaultBatches # {} => DefaultBatches' # {}]_vars

-----------------------------------------------------------------------------
(* What the repository says, and the code does not do.                     *)

\* DataUploadHandler.ts: "Only one upload per batch at at time."
OneUploadPerBatch ==
    \A i, j \in Jobs :
       i # j /\ client[i] = "sending" /\ client[j] = "sending" => batch[i] # batch[j]

\* SinkState.ts: "The state of an individual stream from a streamSet as written
\* to a sink": the offset saved with a batch is that of a record written to it.
StateAsWritten ==
    NoCrash => \A b \in 1..Len(rows) :
                  rows[b].lastOffset = -1 \/ rows[b].lastOffset \in Stored(b)

\* SinkState.ts: "The last read offset value for a single stream": once all is
\* over, the offset saved with the active batch is that of its last record.
StateIsLastRead ==
    NoCrash /\ ~overlapped /\ (\A j \in Jobs : j \notin Running /\ ~AtWork(j)) =>
       \A b \in DefaultBatches : \A o \in Stored(b) : o <= rows[b].lastOffset

\* DataUploadHandler.ts: "A new batch replaces an old batch. Each batch can be
\* added to indefinitely."  What jobs one after another make active has no gap,
\* for a batch that was begun and never made active replaces nothing.
ServesWholeBatch ==
    NoCrash /\ ~overlapped =>
       \A b \in DefaultBatches : \A o \in Stored(b) : 0..o \subseteq Stored(b)

\* DataUploadHandler.ts: "the client must tell the server to make the new batch
\* the active batch - so that other clients are served the correct batch": a
\* batch that was made active is served until another one is.
StaysServed == [][DefaultBatches # {} => DefaultBatches' # {}]_vars
=============================================================================
