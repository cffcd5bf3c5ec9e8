--------------------------- MODULE ActiveBatches ---------------------------
(***************************************************************************)
(* How the registry server changes which data batch of each stream it      *)
(* serves: SetActiveBatchesHandler.start                                   *)
(* (backend/src/socket/SetActiveBatchesHandler.ts).                        *)
(*                                                                         *)
(* A request names one batch for each of several streams.  Its handler     *)
(* opens one READ COMMITTED transaction and, stream after stream, looks    *)
(* for the named batch, looks for the batch whose row has default = true,  *)
(* saves that one with default = false and the named one with default =    *)
(* true.  A TypeORM save reloads the row and issues an UPDATE only when    *)
(* the reloaded row differs from the entity.  Several handlers run at      *)
(* once, on one or several servers; only the database (row locks and a     *)
(* partial unique index) and the connection pool are between them.         *)
(*                                                                         *)
(* A row of the batch table is a pair <<stream, batch>>; of its columns    *)
(* only "default" is kept here (BatchLifecycle adds lastOffset).           *)
(***************************************************************************)
EXTENDS Naturals, FiniteSets, Sequences, Relation

CONSTANTS
    Streams,        \* the (package, source, stream set, stream, schema) keys
    Batches,        \* batch numbers
    NoBatch,        \* findDefaultBatch found no row
    Existing,       \* the rows of the batch table
    InitActive,     \* the rows whose default column is true at the start
    Handlers,       \* requests to set active batches, one handler each
    Requests,       \* Requests[h]: the lists of batch identifiers h may carry
    PoolSize        \* connections of the server's database pool

Rows == Streams \X Batches

SameStream(r1, r2) == r1[1] = r2[1]

\* The partial unique index one_default_batch_per_package_major_version.
AtMostOnePerStream(rows) ==
    \A r1, r2 \in rows : SameStream(r1, r2) => r1 = r2

ASSUME RowsAssumption ==
    /\ NoBatch \notin Batches
    /\ Existing \subseteq Rows
    /\ InitActive \subseteq Existing
    /\ AtMostOnePerStream(InitActive)

ASSUME RequestsAssumption ==
    \A h \in Handlers : Requests[h] \subseteq Seq(Rows)

\* A request names a stream once, and no batch is named by two handlers: DataPMSink
\* publishes the batches of its own uploads.
OwnBatches ==
    /\ \A h \in Handlers : \A r \in Requests[h] : \A i, j \in 1..Len(r) :
          SameStream(r[i], r[j]) => i = j
    /\ \A g, h \in Handlers : g # h =>
          \A r \in Requests[g], q \in Requests[h] : \A i \in 1..Len(r), j \in 1..Len(q) :
             r[i] # q[j]

VARIABLES
    active,     \* committed rows whose default column is true
    pc,         \* where each handler is
    request,    \* the batch identifiers each handler works through
    pos,        \* index of the identifier each handler is working on
    current,    \* currentlyActiveBatch: what findDefaultBatch returned
    on,         \* rows a handler's open transaction has set to default = true
    off         \* rows a handler's open transaction has set to default = false

vars == <<active, pc, request, pos, current, on, off>>

Ended == {"committed", "rolledBack"}

\* Control points inside connection.transaction(...).
InTransaction ==
    {"find", "findDefault", "reloadOld", "clearOld", "reloadNew", "setNew",
     "checkIndex", "log", "commit"}

TypeOK ==
    /\ active \subseteq Existing
    /\ pc \in [Handlers -> {"idle", "queued"} \cup InTransaction \cup Ended]
    /\ request \in [Handlers -> Seq(Rows)]
    /\ pos \in [Handlers -> Nat \ {0}]
    /\ current \in [Handlers -> Batches \cup {NoBatch}]
    /\ on \in [Handlers -> SUBSET Existing]
    /\ off \in [Handlers -> SUBSET Existing]

Init ==
    /\ active = InitActive
    /\ pc = [h \in Handlers |-> "idle"]
    /\ request = [h \in Handlers |-> <<>>]
    /\ pos = [h \in Handlers |-> 1]
    /\ current = [h \in Handlers |-> NoBatch]
    /\ on = [h \in Handlers |-> {}]
    /\ off = [h \in Handlers |-> {}]

-----------------------------------------------------------------------------
(* The database and the pool, as the handlers see them.                    *)

\* The row the handler is working on, and the row it found to be the default.
Target(h) == request[h][pos[h]]
CurrentRow(h) == <<Target(h)[1], current[h]>>

\* READ COMMITTED: what has been committed by now, and the handler's own writes.
Seen(h) == (active \ off[h]) \cup on[h]

\* Rows whose row lock the handler holds.
Held(h) == on[h] \cup off[h] \cup (IF pc[h] = "checkIndex" THEN {Target(h)} ELSE {})

Rivals(r) == {q \in Existing : SameStream(q, r) /\ q # r}

\* An UPDATE of row r waits for the transaction that holds the row's lock.
RowHolders(h, r) == {g \in Handlers \ {h} : r \in Held(g)}

\* The unique index makes an UPDATE that sets default = true wait for every
\* open transaction that inserts or deletes an entry with the same key.
IndexHolders(h, r) ==
    {g \in Handlers \ {h} : Rivals(r) \cap (on[g] \cup (off[g] \cap active)) # {}}

WaitsFor(h) ==
    CASE pc[h] = "clearOld"   -> RowHolders(h, CurrentRow(h))
      [] pc[h] = "setNew"     -> RowHolders(h, Target(h))
      [] pc[h] = "checkIndex" -> IndexHolders(h, Target(h))
      [] OTHER                -> {}

\* A transaction keeps its connection until it ends; a query on
\* socketContext.connection, outside the transaction, needs a second one.
Connected == {h \in Handlers : pc[h] \in InTransaction}
ConnectionFree == Cardinality(Connected) < PoolSize

GoTo(h, next) == pc' = [pc EXCEPT ![h] = next]

Rollback(h) ==
    /\ GoTo(h, "rolledBack")
    /\ on' = [on EXCEPT ![h] = {}]
    /\ off' = [off EXCEPT ![h] = {}]
    /\ UNCHANGED <<active, request, pos, current>>

-----------------------------------------------------------------------------
(* The handler's steps.  A definition whose name ends in Mutant is a       *)
(* mistake the code does not make; the properties tell it from the code.   *)

\* The SET_STREAM_ACTIVE_BATCHES message arrives and start() is called.
Receive(h) ==
    /\ pc[h] = "idle"
    /\ \E r \in Requests[h] : request' = [request EXCEPT ![h] = r]
    /\ GoTo(h, "queued")
    /\ UNCHANGED <<active, pos, current, on, off>>

\* connection.transaction takes a connection from the pool.
Begin(h) ==
    /\ pc[h] = "queued"
    /\ ConnectionFree
    /\ GoTo(h, IF request[h] = <<>> THEN "commit" ELSE "find")
    /\ UNCHANGED <<active, request, pos, current, on, off>>

\* findBatch in place of findBatchOrFail.
FindBatchMutant(h) ==
    /\ pc[h] = "find"
    /\ ConnectionFree
    /\ GoTo(h, "findDefault")
    /\ UNCHANGED <<active, request, pos, current, on, off>>

\* checkPackagePermission and findBatchOrFail query socketContext.connection.
FindBatch(h) ==
    /\ pc[h] = "find"
    /\ ConnectionFree
    /\ Target(h) \in Existing
    /\ GoTo(h, "findDefault")
    /\ UNCHANGED <<active, request, pos, current, on, off>>

\* A missing batch leaves the promise of the transaction unsettled.
NotFoundHangsMutant(h) ==
    /\ pc[h] = "find"
    /\ Target(h) \notin Existing
    /\ UNCHANGED vars

\* A missing batch is skipped and the loop goes on.
NotFoundSkippedMutant(h) ==
    /\ pc[h] = "find"
    /\ ConnectionFree
    /\ Target(h) \notin Existing
    /\ GoTo(h, "log")
    /\ UNCHANGED <<active, request, pos, current, on, off>>

\* findBatchOrFail throws: the transaction is rolled back.
BatchNotFound(h) ==
    /\ pc[h] = "find"
    /\ ConnectionFree
    /\ Target(h) \notin Existing
    /\ Rollback(h)

\* findDefaultBatch, inside the transaction.
FindDefault(h) ==
    LET stream == Target(h)[1]
        found  == {b \in Batches : <<stream, b>> \in Seen(h)}
    IN  /\ pc[h] = "findDefault"
        /\ IF found = {}
           THEN /\ current' = [current EXCEPT ![h] = NoBatch]
                /\ GoTo(h, "reloadNew")
           ELSE /\ \E b \in found : current' = [current EXCEPT ![h] = b]
                /\ GoTo(h, "reloadOld")
        /\ UNCHANGED <<active, request, pos, on, off>>

\* save(currentlyActiveBatch): reload the row; no difference, no UPDATE.
ReloadOld(h) ==
    /\ pc[h] = "reloadOld"
    /\ GoTo(h, IF CurrentRow(h) \in Seen(h) THEN "clearOld" ELSE "reloadNew")
    /\ UNCHANGED <<active, request, pos, current, on, off>>

\* The old default is saved on socketContext.connection, outside the transaction.
ClearOldOutsideMutant(h) ==
    /\ pc[h] = "clearOld"
    /\ RowHolders(h, CurrentRow(h)) = {}
    /\ active' = active \ {CurrentRow(h)}
    /\ GoTo(h, "reloadNew")
    /\ UNCHANGED <<request, pos, current, on, off>>

\* save(currentlyActiveBatch): UPDATE ... SET default = false.
ClearOld(h) ==
    /\ pc[h] = "clearOld"
    /\ RowHolders(h, CurrentRow(h)) = {}
    /\ on' = [on EXCEPT ![h] = @ \ {CurrentRow(h)}]
    /\ off' = [off EXCEPT ![h] = @ \cup {CurrentRow(h)}]
    /\ GoTo(h, "reloadNew")
    /\ UNCHANGED <<active, request, pos, current>>

\* save(dataBatchEntity): reload the row; no difference, no UPDATE.
ReloadNew(h) ==
    /\ pc[h] = "reloadNew"
    /\ GoTo(h, IF Target(h) \in Seen(h) THEN "log" ELSE "setNew")
    /\ UNCHANGED <<active, request, pos, current, on, off>>

\* save(dataBatchEntity): UPDATE ... SET default = true locks the row ...
LockNew(h) ==
    /\ pc[h] = "setNew"
    /\ RowHolders(h, Target(h)) = {}
    /\ GoTo(h, "checkIndex")
    /\ UNCHANGED <<active, request, pos, current, on, off>>

\* The batch table without the partial unique index.
SetNewNoIndexMutant(h) ==
    /\ pc[h] = "checkIndex"
    /\ on' = [on EXCEPT ![h] = @ \cup {Target(h)}]
    /\ off' = [off EXCEPT ![h] = @ \ {Target(h)}]
    /\ GoTo(h, "log")
    /\ UNCHANGED <<active, request, pos, current>>

\* ... and then enters the unique index, once nobody works on the same key,
SetNew(h) ==
    /\ pc[h] = "checkIndex"
    /\ IndexHolders(h, Target(h)) = {}
    /\ Rivals(Target(h)) \cap Seen(h) = {}
    /\ on' = [on EXCEPT ![h] = @ \cup {Target(h)}]
    /\ off' = [off EXCEPT ![h] = @ \ {Target(h)}]
    /\ GoTo(h, "log")
    /\ UNCHANGED <<active, request, pos, current>>

\* ... or fails because another row of the stream has default = true.
UniqueViolation(h) ==
    /\ pc[h] = "checkIndex"
    /\ IndexHolders(h, Target(h)) = {}
    /\ Rivals(Target(h)) \cap Seen(h) # {}
    /\ Rollback(h)

\* createActivityLog, on socketContext.connection; then the next identifier.
Log(h) ==
    /\ pc[h] = "log"
    /\ ConnectionFree
    /\ IF pos[h] < Len(request[h])
       THEN pos' = [pos EXCEPT ![h] = @ + 1] /\ GoTo(h, "find")
       ELSE GoTo(h, "commit") /\ UNCHANGED pos
    /\ UNCHANGED <<active, request, current, on, off>>

\* COMMIT, and the SetStreamActiveBatchesResponse.
Commit(h) ==
    /\ pc[h] = "commit"
    /\ active' = Seen(h)
    /\ on' = [on EXCEPT ![h] = {}]
    /\ off' = [off EXCEPT ![h] = {}]
    /\ GoTo(h, "committed")
    /\ UNCHANGED <<request, pos, current>>

\* A query fails, the connection is lost, or the server stops.
Fail(h) ==
    /\ pc[h] \in InTransaction
    /\ Rollback(h)

\* The database finds the handler on a cycle of waiting transactions.
DeadlockAbort(h) ==
    /\ WaitsFor(h) # {}
    /\ LET waits == [p \in Handlers \X Handlers |-> p[2] \in WaitsFor(p[1])]
       IN  TransitiveClosure(waits, Handlers)[h, h]
    /\ Rollback(h)

Step(h) ==
    \/ Begin(h)
    \/ FindBatch(h)
    \/ BatchNotFound(h)
    \/ FindDefault(h)
    \/ ReloadOld(h)
    \/ ClearOld(h)
    \/ ReloadNew(h)
    \/ LockNew(h)
    \/ SetNew(h)
    \/ UniqueViolation(h)
    \/ Log(h)
    \/ Commit(h)
    \/ DeadlockAbort(h)

\* Every request has been answered.
Quiet ==
    /\ \A h \in Handlers : pc[h] \in Ended
    /\ UNCHANGED vars

Next ==
    \/ \E h \in Handlers : Receive(h) \/ Step(h) \/ Fail(h)
    \/ Quiet

\* The event loop, the pool and the database keep working: a step that can be
\* taken is taken.  Nothing is assumed of arrivals or failures.
Fairness == \A h \in Handlers : WF_vars(Step(h))

Spec == Init /\ [][Next]_vars
FairSpec == Spec /\ Fairness

-----------------------------------------------------------------------------
(* Properties.                                                             *)

\* A reader that asks for the default batch of a stream never has to choose:
\* no interleaving of handlers commits two default batches of one stream
\* (findDefaultBatch is a getOne without an ORDER BY).
AtMostOneActive == AtMostOnePerStream(active)

\* A stream that has been published stays published: while batches are being
\* switched, and whatever handler fails or loses a race, no reader finds a
\* stream without a default batch once it has had one.
StaysPublished ==
    [][\A r \in active : \E q \in active' : SameStream(q, r)]_vars

\* No request hangs: a handler that has been given a request always answers
\* it, with success or with an error, although handlers wait for each other's
\* row locks, for the unique index and for pooled connections.
EveryRequestEnds ==
    \A h \in Handlers : pc[h] = "queued" ~> pc[h] \in Ended

\* A request for several streams is never half applied: when the response is
\* sent, the batch the request names is the active one of each of its streams.
SwitchedAllAtOnce ==
    [][\A h \in Handlers :
          pc[h] = "commit" /\ pc'[h] = "committed" =>
             \A i \in 1..Len(request[h]) : request[h][i] \in active']_vars

\* The batch a reader of each stream gets from findDefaultBatch.
Serving ==
    [s \in Streams |->
        IF \E b \in Batches : <<s, b>> \in active
        THEN CHOOSE b \in Batches : <<s, b>> \in active
        ELSE NoBatch]

InitServing ==
    [s \in Streams |->
        IF \E b \in Batches : <<s, b>> \in InitActive
        THEN CHOOSE b \in Batches : <<s, b>> \in InitActive
        ELSE NoBatch]

\* A request, as the function from its streams to the batches it names.
AsPublication(r) ==
    [s \in {r[i][1] : i \in 1..Len(r)} |->
        r[CHOOSE i \in 1..Len(r) : r[i][1] = s][2]]

Publications == {AsPublication(r) : r \in UNION {Requests[h] : h \in Handlers}}

Published == INSTANCE PublishedBatches WITH serving <- Serving

\* Readers see requests take effect one after the other and whole, whatever
\* handlers do in between: the handlers implement PublishedBatches.  It needs
\* uploaders that publish batches of their own (OwnBatches): a request that
\* names a batch another one has just published locks nothing.
ImplementsPublishedBatches == Published!Spec
=============================================================================
