# DataPM registry: TLA+ models, checks and proofs

DataPM is a package manager for data. A **registry** (`src/backend`) keeps package files and, for packages
that publish their data, the data itself; **clients** (`src/client-lib`, used by the command line in `src/client`
and by the registry's own jobs) inspect sources, publish package versions, upload records and fetch them into sinks.
`src/lib` holds what both share: package files, their comparison, and the socket messages.

This directory models the parts of that system in which several actors, failures or long sequences of calls decide
whether it is correct: TLA+ modules, small instances that TLC checks, and proofs that TLAPS checks.

## 1. Inventory

| Part | State it keeps | Operations | Talks to | What is hard |
|---|---|---|---|---|
| Publishing batches (`SetActiveBatchesHandler`, `DataBatchRepository`) | rows of the table `batch`, one of each stream with `default = true` | one transaction per request | uploads write the same rows; fetches and the sink state read them | interleaved transactions, row locks and a unique index, a pool of connections, half-applied requests |
| Uploading (`DataUploadHandler`, `DataPMSink`) | batch rows with their `lastoffset`, data files named by their first offset | start, data, stop, disconnect; the client's job around them | publishes through the part above; resumes from `PackageSinkStateHandler` | awaits between reads and writes, a save nobody waits for, a lock nobody holds, crashes, time-outs |
| Fetching (`DataFetchHandler`, `DataPMSource`) | a cursor over the files of a batch, chunks under way, the client's last offset | open, start, chunk, acknowledge, stop | reads files that uploads add | flow control, order across files, errors in the middle, resume at an offset |
| Leader election (`LeaderElectionService`, `DistributedLockingService`) | a lock bound to a database session | try, win, stop | starts the cron services | crash of the leader, a lock that is lost unnoticed |
| Notifications (`notification-service.ts`) | the time up to which events have been mailed | a cron job per frequency | activity log written by every transaction | overlapping runs, failures between mails, events committed late |
| Package versions (`CreateVersion.ts`, `PackageUtil.ts`) | version rows, package files in storage | publish, retry, delete | activity log; clients retry | two stores, one transaction; concurrent publications; what a version number promises |
| WebSocket dispatch (`SocketHandler`) | handlers of a socket | route, forget | all of the above | handlers never forgotten, listeners added again on disconnect |
| Client fetch pipeline (`FetchPackageJob`, `StreamToSinkUtil`, `SchemaUtil`, the sinks) | the state kept with each sink: an offset and a hash per stream set | decide, stream, filter, open, write, complete, commit | sources and sinks | partial fetches recorded as whole, state written in place, stream sets that end at different times |
| Package update service | time of the last update of each package | a cron tick that lists, saves and runs jobs | versions, uploads; users change the same rows | overlapping ticks, jobs that hang, entities saved long after they were read |
| Remote jobs (`PackageUpdateHandler`, `WebsocketJobContext`, the command modal) | a lock per package, prompts under way, what the modal shows | start, prompt, answer, end, leave | sockets, database locks | lost connections, releases nobody waits for, locks nobody releases |
| Group members (`GroupResolver`, `GroupUserRepository`) | rows of `group_user` | add or change, remove, delete group or user | permissions of everything else | lists of changes in one transaction, a transaction within a transaction, no unique key |
| Visibility and follows (`CatalogResolver`, `PackageResolver`, `FollowResolver`, the permission resolvers and their repositories) | `is_public` and creators, levels of users, follows | update, move, grant, withdraw, follow | notifications read the follows | entities read before and saved after a check; cascades in four places |
| Session cache | promises by key | load, reload, clear | every resolver | rejected promises that stay |
| Schema inspection and combination | statistics of properties | add a record, combine | versions | sequential |

Everything else (the other resolvers, sources, detectors, front end, command line, upgrade of old package
files, migrations, deployment) is listed in `PROJECT.json` with the reason it is not modelled.

What makes each part correct, and the property that says so, is in section 3; the places where the code is exposed,
line by line, are the hazards of `PROJECT.json`.

## 2. Modules and plan

| Module | What it models | State |
|---|---|---|
| `PublishedBatches` | abstract: readers see a function from streams to batches; a publication replaces several of them at once | done |
| `ActiveBatches` | the transactions of `SetActiveBatchesHandler`; implements `PublishedBatches` | done |
| `ActiveBatchesProofs` | inductive invariants and five theorems of `ActiveBatches`, among them that it implements `PublishedBatches` | done |
| `BatchLifecycle` | jobs that upload to the batches of one stream and publish them | done |
| `RecordDelivery` | abstract: a sink is given runs of consecutive records, in sessions that it keeps as a whole or not at all | done |
| `DataFetch` | sessions that read a batch while uploads go on; implements `RecordDelivery` | done |
| `LeaderServices` | election of a leader, and its notification job | done |
| `PackageFiles` | how package files differ, and the version a difference asks for (pure operators) | done |
| `PublishedVersions` | abstract: versions appear, change and go one at a time, each above all others when publications follow one another | done |
| `PackageVersions` | publishing and deleting versions; implements `PublishedVersions` | done |
| `FetchPipeline` | fetching a package into a sink again and again, for each kind of sink | done |
| `GroupMembers` | requests that change the members of a group | done |
| `PackageUpdates` | ticks of the package update service, and the users they race | done |
| `Sharing` | who may see and who follows catalogs and packages | done |
| `RemoteJobs` | update and creation jobs over a socket, and the modal that shows them | done |
| `RemoteJobsProofs` | inductive invariant of `RemoteJobs`, and mutual exclusion | done |
| `FollowsProofs` | inductive invariants and theorems of `Sharing` (two) and `LeaderServices` (three) | done |
| `PackagesProofs` | what the comparison of `PackageFiles` guarantees for all files; inductive invariants and theorems of `PackageVersions` (five, among them that it implements `PublishedVersions`) and `PackageUpdates` (two) | done |
| `GroupMembersProofs` | inductive invariant and two theorems of `GroupMembers` | done |
| `BatchLifecycleProofs` | inductive invariants and seven theorems of `BatchLifecycle` | done |
| `FetchPipelineProofs` | inductive invariants and four theorems of `FetchPipeline` | done |
| `DataFetchProofs` | inductive invariant and six theorems of `DataFetch`, among them that it implements `RecordDelivery` | done |

`MC<Module>` instantiates a module for TLC; the constants are in its `.cfg` files. Extensions planned next: groups' levels
and collections in `Sharing`, several streams of one sink in `BatchLifecycle`.

In every module a definition whose name ends in `Mutant` is a mistake the code does not make. It is there to show
that a property tells such a mistake from the code: with the mutant in place of the definition after it, TLC finds
the property violated. No specification uses one.

## 3. How the modules correspond to the code, and what the runs show

### ActiveBatches (`backend/src/socket/SetActiveBatchesHandler.ts`)

A handler works through the list of batch identifiers of its request, in one READ COMMITTED transaction. Per
identifier: `FindBatch` (`findBatchOrFail`, on a connection of its own, outside the transaction), `FindDefault`,
`ReloadOld` / `ClearOld` (TypeORM's `save` reloads the row and issues an UPDATE only when it differs), `ReloadNew` /
`LockNew` / `SetNew` for the named batch, then `Log`; `Commit` at the end, and `Rollback` when anything fails. PostgreSQL
is the environment: row locks to the end of the transaction (`RowHolders`), the partial unique index
`one_default_batch_per_package_major_version` (`IndexHolders`: a writer waits for another transaction's entry, and
fails when that one commits), deadlock detection, and a pool of `PoolSize` connections.

* `active_batches` (3 handlers, 2 streams, 5 batches, a pool of 4). The types hold (`TypeOK`, which every module has, and this run checks); at most one default batch of a stream
  (`AtMostOneActive`); a published stream stays published in every step (`StaysPublished`); a request that is answered
  with success has taken effect whole (`SwitchedAllAtOnce`); every request is answered (`EveryRequestEnds`); and the
  whole implements `PublishedBatches` by the mapping `serving <- Serving` (`ImplementsPublishedBatches`). Uploaders
  publish batches of their own, as `DataPMSink` does. Three handlers give every pattern of two that conflict and a
  third that waits for either; two streams allow opposite orders.

`EveryRequestEnds` says nothing of the pool. Each request holds a connection and needs a second one
(`SetActiveBatchesHandler.ts:42`); the run has one to spare. With a pool of 3, TLC finds the three requests waiting for each
other for ever, and nothing in the code prevents it: it is a hazard that no property covers, because no document promises
anything about as many requests as the pool has connections (node-postgres' default is ten).

`findBatchOrFail` is followed by a permission check whose result is ignored (`SetActiveBatchesHandler.ts:34`), so a request that
is not permitted goes on like any other; who sends requests is not modelled.

### BatchLifecycle (`DataUploadHandler.ts`, `PackageSinkStateHandler.ts`, `DataPMSink.ts`, `data-storage.ts`)

One stream. A job reads the sink state, starts an upload (to a new batch, or to the end of the latest one), sends
records, stops the upload, waits for the answer and publishes the batch. On the server each await of
`DataUploadHandler.start` and `stop` is a point where others run: `FindLatest`, `OpenBatch`, `OpenFile`, then
`ReadStopEntity`, `EndStop`, and `SaveLands` for the save `stop` does not await. A file is on disk only after `Flush`.
`createLock` does not appear as state because the promise of the lock is never awaited (line 285).

* `uploads_in_turn` (3 jobs, 3 records, two lost connections, a client that gives up waiting, two crashes, each at any step). The run
  asks what holds when jobs follow one another: a job begins when the one before it has ended and its handler and its
  save have too, and publishes after its own save. `overlapped` becomes TRUE when one does not wait, no property says anything after
  that, and the constraint `StillInTurn` leaves those states without successors. No record is in two files
  (`FilesDisjoint`) and the stream stays published (`StaysPublished`), whatever is lost or crashes; as long as the server does not
  crash, a saved offset is that of a record the batch has (`NeverClaimsUnreceived`). A job that was to replace the data and failed
  leaves its batch as the latest one (`Abandoned`); until then the published batch has no gap (`PublishedHasNoGaps`, without a crash), and an
  append goes to the active batch (`AppendsToActive`, with crashes too). Three jobs give: create, append, and go on after either has failed.
* `uploads_concurrent` (2 jobs at once, late saves, a time-out, a lost connection, a crash). Uploads that ask for a new
  batch never share one, and every job ends.

The conditions of `uploads_in_turn` are not promises of the code: nothing makes a job wait for the stop of the one before, and a
lost connection of a job that replaces the data is enough for `Abandoned`. Without them `StaysPublished`, `NeverClaimsUnreceived`, `PublishedHasNoGaps` and `AppendsToActive` fail, with one
lost connection or none and no crash. What the repository says without conditions is in the module too, and TLC refutes it (section 5):

* `OneUploadPerBatch`: the lock that should keep a second upload of the stream out never does; two that append write to one batch.
* `StateAsWritten`: after a lost connection `stop` runs by itself, and saves the offset with the batch that is the latest *then*, which
  may be one the next job has created: its state claims records it does not have.
* `ServesWholeBatch`: after a lost connection of a job that replaces the data, the next append, though in turn, goes on in the batch
  that was left behind, from the offset of the active one, and publishes it with a gap.
* `StaysServed`: with nothing lost, the client publishes before the save that its own stop did not await; the save takes
  the batch away from readers again. A late stop does the same to what the next job has published.
* `StateIsLastRead`: with nothing lost, the offset 0 is taken for none and never saved.

A record that is not after the last one observed makes the transform of `writeBatch` fail. Nothing listens to the errors of that stream, so
the server process ends (`RejectRecord`, the same step as `Crash`). In turn this needs a crash before it, or a batch that was left behind: either
may have put the saved offset of the latest batch ahead of what is active.

### DataFetch (`DataFetchHandler.ts`, `data-storage.ts`, `BatchingTransform.ts`, `DataPMSource.ts`)

The server lists the files of the batch and skips by counting (`FirstIndex`), reads file after file (`OpenFile`, `ReadFails`), and sends
chunks, each after the acknowledgement of the one before *in the same file* (`SendChunk`, `Acknowledged`, `EndOfFile`,
`NoMoreFiles`, `SendStop`). The client takes chunks in order (`TakeChunk`), may stall in the middle of one
(`StallOnChunk`, `StallTimeout`), does not pass on an error (`TakeError`), and ends at the stop message (`TakeStop`);
the offset it saves is the start of the next session (`StateOffset`, `AfterState`). Uploads add files at the same time.

* `fetch` (6 records, chunks of 2, 3 sessions, one file that cannot be opened). Records reach the sink in order and once
  over all sessions (`InOrder`), without a gap in a session (`NoGapInSession`), at most two chunks are under way
  (`FlowControl`), a session without an error reaches the end of the files listed when it began (`Commit` of `RecordDelivery`), and
  every session ends. What the sink sees implements `RecordDelivery` (`ImplementsRecordDelivery`). With 6 records a batch may have a file with several chunks followed by others.
* `fetch_skipped_file` (expected violation): counting the files at or after the offset skips a file when an offset falls
  within one and two more follow (`data-storage.ts:38`).

`RecordDelivery` is the promise to the sink without files, chunks, messages or offsets of chunks: a session delivers runs of
consecutive records, each where the session is and after all that the sink has (`Deliver`); it has to bring all that was there
when it began, `due`, unless something could not be read (`Find`, `Excuse`); it ends with everything kept (`Commit`) or, after a
stall, with nothing (`Abandon`). The mapping is `open <- client = "reading"`, `whole <- ~stalled` and `due <- Due`, which is the end
of the last file listed while the server's session lasts and no file has failed to open. The first record of a session is free,
because of the skipped file.

After an error the client treats what it has as everything: `RecordDelivery` excuses such a session (`Excuse`), and `SessionComplete`,
which is proved, is about sessions without one: the sink then has every record from the first one the session has delivered to the last
one of the files listed, and the last one of those files at any rate. What lies before the first delivered record, `fetch_skipped_file` is about. A
client that disappears leaves its session on the server for ever (`DataFetchHandler` has no listener for it); the
model has no such client.

### LeaderServices (`leader-election-service.ts`, `distributed-locking-service.ts`, `notification-service.ts`)

Servers try for a lock that lives as long as a database session (`BecomeLeader`; `Crash`, `LoseLock`). On a leader, cron
starts runs of the notification job whether earlier ones are over or not: `Fire` reads the stored time, `TakeTime` is
`now = new Date()`, `Query` finds the events in the window, `Mail` goes through the users (`TurnOf`), and `Save` is
the `finally` block. A mail that the mail server refuses costs its user and nobody else (`MailLost`: `sendEmail` logs the error and
goes on); a query or template that fails for one user ends the run (`UserFails`), and so does the look-up of the events
(`QueryFails`); the time is stored all the same. Events are written in transactions (`BeginEvent`, `CommitEvent`): `created_at` is the time
a transaction *began*.

* `leader_services` (2 servers, 2 users, 2 events, 2 runs at once, one fault: a crash, a broken lock session, a
  refused mail or a failed query). One leader, as long as no lock session breaks (`OneLeader`); no event is passed over, even when runs overlap
  and there are two leaders (`NoEventSkipped`); runs that do not overlap tell nothing twice (`ToldOnce`); everybody is
  told in the end as long as a server is up (`EveryoneTold`). One fault at a time keeps the run small; two events are the
  fewest for which a slow run sets the stored time back.

What these properties leave out, the code does lose. `OthersAreTold`: the users after a failed query (`leftOut`) are never told.
`CommittedIsTold`: an event that is committed after a run has passed its `created_at` (`passedBy`) is never found, without any fault.
The third loss is that of a user's own mail (`given`). Overlapping runs mail the same events
twice, which `ToldOnce` leaves out. The clocks of servers and database agree in the model; in the code they need not.

### PackageFiles and PackageVersions (`PackageUtil.ts`, `CreateVersion.ts`, `VersionRepository.ts`, `VersionResolver.ts`)

`PackageFiles` translates `compareProperties`, `compareSchemas`, `compareSources` and `comparePackages` into the set of difference types, and
`diffCompatibility` and `nextVersion` into operators. Nested properties are paths, which is what the code's recursion comes to, except when the prior property has an `object` type
without `objectProperties`: then it compares nothing below (`PackageUtil.ts:443`), and the model has no such file. Text fields are one field and what
never asks for a new version another. `Shown` says what a consumer relies on without mentioning differences.

`PackageVersions` is the transaction of `createOrUpdateVersion`: `FindLatest`, `Compare` (with the file in storage),
then `SaveSame`, `SaveNew`, `SaveFails` (unique key) or `Refuse` (with one retry at the number asked for, as both clients do), `LockPackage`
(the readme vectors lock the package row) with the comparison row, `WritePackageFile`, `Commit`. `Fail` rolls back the rows
and leaves the file. `DeleteVersion` deletes the row and leaves the file. Writing a file is one step; local storage streams over the file in place, so
a process that dies within leaves a torn one, which is not modelled.

* `package_versions` (2 publishers, 3 publications of 5 files that cover every level of compatibility, one failure, one deletion, 6
  version numbers). A version that can be found always has its file (`RowHasFile`, as `PublishedVersions` asks); a published file is replaced only by one without changes
  that count (`ReplacedOnlyBySame`); versions of one major number keep what earlier ones show (`SameMajorKeeps`); every publication
  ends. Together they implement `PublishedVersions` (`ImplementsPublishedVersions`). `SameMajorKeeps` is about publications that do not overlap: overlapping ones are compared with the same latest
  version and not with each other, and break it, as `MajorNumberKeeps` says, which fails. Deadlock is not
  checked here because the system stops when the publications of the bound have been made.
* `PublishedVersions` is what consumers see: `Findable`, a function from the rows to their files. A publication is one step
  that makes a version appear or changes its file, a deletion one that makes it go; steps of the transaction before, and files written
  for rows that are rolled back, are seen by nobody. While publications are `serial` (`~overlapped`), a version that appears is above
  all that can be found and keeps what those of its major number show, and only the highest version changes, in nothing that counts.
  How versions are ordered and files compared are constants of the abstract module, given by `Below`, `Shown` and the comparison.
* The files keep the `hidden` flag of whole schemas (`FilesAssumption`): `compareSchema` does not look at it, so hiding a schema and then
  removing it takes no new major version. No job of the client hides a schema.

### FetchPipeline (`FetchPackageJob.ts`, `StreamToSinkUtil.ts`, `SchemaUtil.ts`, the sinks)

A package is a function from stream sets to the schemas their records take in turn; what is fetched into what by which
update method is the constant `Combinations`. `StartFetch` loads the state and chooses the stream sets with new
records (`NewRecordsAvailable` compares hashes); `Read` passes records through the offset filter (`Passes`); each kind of
sink opens (`OpenFile`, `OpenObject`, `OpenTable`, `OpenRedshift`, `OpenWarehouse`, `OpenCollection`, `OpenTopic`), writes
(`Flush`) and completes (`CloseDirect`, `Upload`, `DropOld` then `RenameNew`) in its own way; `BeginCommit` and `SaveState` are
`commitAfterWrites`. The `format` of a file is "records", of which each has an offset, or "blocks" (AVRO), which carry none (`Notes`).
A new table left behind stops PostgreSQL's
sink (`OpenFails`); MySQL's does not hear the error and goes on with the table (`Exists`). A record is how often it is in the sink, so records lost, kept and doubled are told apart. `Stop` is
SIGINT, `EndsEarly` a source that ends without its error, `Reconnect` a continuous source opened again, `Fail` a write or a
source that fails, `Crash` the death of the process, and `SaveState` may tear the file that two stream sets write at once.

* `fetch_pipeline` (15 combinations, 2 records, 2 events). What the state says has been written has been
  (`SavedIsWritten`); "no new records available" is said only of a sink that has everything (`UpToDateIsComplete`);
  one stream of one schema reaches its sink once as long as nothing fails (`ExactlyOnce`, but for AVRO files that are appended to); and fetching again and again
  gets everything there (`CatchesUp`). Two records give: part written, saved, gone on from; two events
  give a stop after a forced fetch, a fault while another stream set is under way, a tear.

The state of an AVRO file never has an offset, so the next fetch filters nothing and appends every record again, with nothing
failing: `AppendedOnce`, which does not leave such files out, fails.

The properties name what the code gives up: `Rewrites` (below), `wiped` (a forced fetch has emptied the sink and not come to
its end, so the old state promises what is gone), and `cut` (a source that ended early was taken for complete).

### GroupMembers (`GroupResolver.ts`, `GroupUserRepository.ts`)

A request works through a list of users and levels in one transaction: `ExamineChange`, `Ensure` (`ensureOtherManagers`),
`Find`, then `Insert` or `Reload` and `Update` (TypeORM's `save` reloads and writes what differs; `Reinsert` when the row has
gone), `Commit`. Level "none" is `removeUserFromGroup`, with a transaction and a connection of its own, committed at once
(`ExamineRemoval`, `RemoveRow`). PostgreSQL's row locks, foreign-key locks of the activity log, and deadlock detection are
the environment. A request may wait for its own removal, which waits for a row the request has locked; no one finds that
out (`mixed`).

* `group_members` (3 users, 3 requests of 9 lists, 2 at a time, a failure, a deleted user). Without overlap a group keeps a
  manager, however many one list demotes and wherever it fails (`ManagedWhenAlone`), and a member has one row
  (`OneRowPerMember`); requests that wait for each other all end (`EveryRequestEnds`). Three users give: the one who asks,
  one who is demoted, and another manager; the lists cross each other and name a user twice.

Two requests at once can each demote the manager the other one relies on (`EveryGroupManaged` fails), and insert a user twice. A
removal takes a second connection while the request holds one (`GroupResolver.ts:137`): as many such requests as the pool has
connections wait for ever; the pool is not modelled here.

### PackageUpdates (`package-update-service.ts`, `PackageRepository.ts`)

A tick lists the packages whose last job is oldest (`List`), and saves each with a new date (`Save`) before it runs its job
(`StartJob`, `EndJob`). The dates are abstracted to the order of the rows and how many are more than a day old, since no
decision looks at anything else. `HangJob` is a job nothing ends; the tick of it is of no further interest. `wanted` is what
users last made of a package, and `raced` the packages they changed between list and save.

* `package_updates` (3 packages, 2 ticks of 2 at a time, a crash, a change to one of the packages). What users have made of a
  package stands unless it was changed in that window (`ChangesStand`); a package that is due gets a job in the end,
  whatever other jobs do (`EveryPackageUpdated`). Three packages are one more than a tick takes. Packages differ in nothing
  but their place in the order, so one initial order and one package that users touch stand for all. Of what saves a package
as a whole only the service is modelled: `updatePackage` changes it in one step (`Edit`), and the counting of a view or a fetch (`PackageResolver.ts:320-324`,
`344-350`), which saves an entity read before, is left out. So `ChangesStand` says what the *service* undoes.

### Sharing (`CatalogResolver.ts`, `PackageResolver.ts`, `FollowResolver.ts`, the permission resolvers and the repositories)

`Begin...` reads the entities of a request and makes its checks, the action named after the mutation writes: `UpdateCatalog`
(which saves the packages it has read too, and so fails when one has come: `FailUpdateCatalog`), `SetCatalogPermission`,
`UpdatePackage`, `MovePackage`, `SetPackagePermission`, `SaveFollow`. In between another request may do as much. `raced` are
the catalogs and packages that two open requests were about. When the entity that `updatePackage` saves has both a new
`catalogId` and the loaded relation to the old catalog, either may win.

* `sharing` (2 catalogs, a package, 2 users, 4 requests, 2 at a time). A user who follows a catalog may view it
  (`CatalogFollowersCanView`) and a public package is in a public catalog (`PublicInPublic`), after any sequence of
  requests that do not overlap on it. Four requests give: grant, follow, and two changes that each remove half of what
  lets the user see. `MCInit` leaves the visibility open and lets one user create everything. One request suffices for
  `PublicWhereCatalogIs`, which has no exceptions, to fail: `updatePackage` moves a public package to a catalog that is not public.

### RemoteJobs (`PackageUpdateHandler.ts`, `PackageHandler.ts`, `WebsocketJobContext.ts`, `distributed-locking-service.ts`, `command-modal.component.ts`)

A command is a modal with a socket of its own. The server's side is `Start`, `CheckPermission`, `CreateLock` (for an update),
`Register` or `StartFails`, `StartJob`, then the job: `Ask`, `Answered`, `EndJob`. The modal's side is `RunCommand`, `Receive`,
`SendPromptResponse` and `Leave`. `Disconnected` is the server's listener for the end of the connection, and `RemoveLock`
the release that `stop` sends and does not wait for: locks are released by key, whoever holds them (`stolen`). One process of
the server; the lock of PostgreSQL goes with its sessions in `Crash`.

* `remote_jobs` (2 commands on one package, either an update or not, 2 questions, a crash or broken connection). Two updates
  are at work together only if one has lost its user or a release hit the lock of another (`OneUpdateAtATime`);
  every command that has been run shows a result, waits for its user, is left, or broke before the first answer
  (`EveryCommandEnds`); an update gives its lock up, unless it waits for its user or was lost between lock and answer
  (`LockComesBack`). Two commands are enough for a lock; two questions let a user leave between them.

With three commands and nothing lost, the second release of the first update frees the lock of the second, and the third updates
beside it (`LockedByAnother` fails); a start that is refused after it has taken the lock keeps it (`RefusedUpdateUnlocks` fails).
Two things are not modelled: a user who leaves while the socket is still connecting, whose command starts all the same
(`command-modal.component.ts:102-103`), and a `createPackage` that nobody awaits (`PackageHandler.ts:71`), whose failure would end the server.

### Known departures

What the code does although a name, a comment or a document suggests otherwise. Each is in the model as the code has it, and a
property that excludes it says by which condition.

| Where | What happens | In the model |
|---|---|---|
| `SetActiveBatchesHandler.ts:66` | of requests that name the *same* batch, one whose `save` finds the row as it should be takes no lock, and may be answered with success although another batch is active | `OwnBatches`: uploaders publish batches of their own; hypothesis of `SwitchedAllAtOnce` |
| `DataUploadHandler.ts:277` | `stop` does not wait for its save, which may un-publish the batch published meanwhile | `overlapped`; `StaysServed` fails |
| `DataUploadHandler.ts:256` | the stop of an upload that lost its connection saves its offset, and the flag it has read, with the batch that is the latest by then | `overlapped`; `StateAsWritten`, `StaysServed` fail |
| `DataUploadHandler.ts:176` | an append goes on in the latest batch, which a failed job has left behind and nobody published | `Abandoned`; `ServesWholeBatch` fails |
| `DataUploadHandler.ts:190` | nothing listens to the stream that refuses a record: the server process ends | action `RejectRecord` |
| `DataUploadHandler.ts:274` | the offset 0 is taken for none, so the next append begins at the file of record 0 and empties it | `StateIsLastRead` fails |
| `DataUploadHandler.ts:285` | the promise of the upload lock is taken for the lock: two uploads run at once | `overlapped`; `OneUploadPerBatch` fails |
| `DataUploadHandler.ts:222` | files that a failed upload left are found by later fetches | files stay on disk |
| `DataFetchHandler.ts:239` | a client that disappears leaves its session waiting on the server | no such client |
| `data-storage.ts:38` | counting the files at or after the offset may skip one | run `fetch_skipped_file` |
| `data-storage.ts:57` | with local storage a file being written is listed, and the error of its gzip stream, which nothing listens to, ends the server | files are read when they have been written |
| `notification-service.ts:122` | the window ends at the server's clock, `created_at` is the database's | one clock |
| `notification-service.ts:126-129` | a query or template that fails for one user ends the run, whose time is stored: the users after him are not told | `leftOut`; `OthersAreTold` fails |
| `CreateVersion.ts:157` | an event's time is the start of its transaction; one that commits after a run has passed it is never mailed | `passedBy`; `CommittedIsTold` fails |
| `CreateVersion.ts:63` | two publications at once are compared with the version before and not with each other | `overlapped`; `MajorNumberKeeps` fails |
| `PackageUtil.ts:374` | hiding a schema as a whole is no difference, so in two steps it goes without a new major version | `FilesAssumption` |
| `PostgresSink.ts:199` and the other sinks that make a table beside the old one | an append fetch reads only what is new and replaces the table with it: old records go, and the state says they are there | `Rewrites` |
| `AbstractFileSink.ts:57` | the state is written in place, so a crash leaves a file that does not parse: the next fetch appends everything again | `ExactlyOnce` is about fetches without faults |
| `RecordSerializerAVRO.ts:177` | blocks of an AVRO file carry no record, so no offset is saved and the next append repeats everything | `format`; `AppendedOnce` fails |
| `GroupResolver.ts:137` | a removal in a list does not see what the list did before: the last manager goes although `ensureOtherManagers` (:228) forbids it; nor does one request see another | `mixed`, `overlapped`; `EveryGroupManaged` fails |
| `package-update-service.ts:50` | a tick saves what it read before the jobs that came first: an edit is undone, a deleted package is back | `raced` |
| `CatalogResolver.ts:269` | editing the description of a public catalog passes no `isPublic`, which deletes follows as if it had been closed; and packages' follows are kept by direct permissions only, so users of a group or of the catalog lose theirs | actions `UpdateCatalog`, `PackageStrangers` |
| `PackageRepository.ts:391` | a package that moves with `newCatalogSlug` is checked against the catalog it leaves | `carried`; `PublicWhereCatalogIs` fails |
| `PackageResolver.ts:517` | `movePackage` removes all levels and gives the mover his level on the new catalog: nobody may manage the package | action `MovePackage` |
| `PackageUpdateHandler.ts:103` | every `stop` releases the lock, so an update releases it twice, the second time maybe that of another | `stolen`; `LockedByAnother` fails |
| `PackageUpdateHandler.ts:65-86` | an update that fails, or loses its user, between lock and answer keeps its lock | exceptions of `LockComesBack`; `RefusedUpdateUnlocks` fails |
| `command-modal.component.ts:185-191` | a connection that breaks before the first answer leaves the modal at "Starting..." | `lost` |
| `session-cache.ts:189` | a rejected promise stays in the cache of its request or socket | not modelled |

### Bounds

Every bound is a constant: `MaxOffset`, `MaxJobs`, `MaxTimeouts`, `MaxDisconnects`, `MaxCrashes`, `MaxSessions`, `MaxReadErrors`,
`MaxEvents`, `MaxFaults`, `MaxPublications`, `MaxFailures`, `MaxDeletes`, `MaxRecords`, `MaxProduced`, `MaxRequests`, `MaxDeletedUsers`, `MaxChanges`,
`MaxAsked`, and the size of the sets. Symmetry and a constraint are used only in `uploads_in_turn`, which has no liveness
property; the constraint (`StillInTurn`) cuts off states in which its properties say nothing, and from which no others are reached.

### Fairness

Weak fairness of the steps of what has been started: event loops, sockets, disks and PostgreSQL go on (a lock that has been
freed is granted). Nothing is assumed of clients that start something, of failures, or of uploads during a fetch. In addition

* `LeaderServices`: a server goes on trying for the lock (the loop of `start`), and cron goes on firing on a leader;
* `FetchPipeline`: each stream set that is open goes on, and the package is fetched again (a user or a cron job does it;
  without that nothing can catch up). Continuous sources need not end;
* `GroupMembers`: each open request goes on. A deadlock that PostgreSQL sees is broken by `Deadlock`; one between a request
  and its own removal is not, and the property excludes it;
* `PackageUpdates`: packages become due as days pass, cron goes on firing, and each tick goes on with its list, or its job hangs;
* `RemoteJobs`: messages arrive, handlers and jobs go on and releases are carried out. No user has to answer or to leave;
* `Sharing`: none, since nothing is said about what must happen.

## 4. Proofs

Each proof module states an inductive invariant `Inv`, proves `Init => Inv` and `Inv /\ [Next]_vars => Inv'`, and draws the
theorems from it. They hold for all values of the constants that satisfy the assumptions of the module, which TLC evaluates
on the instance of the run.

`ActiveBatchesProofs` (`RowsAssumption`, `RequestsAssumption`): `Typing`, `OneActive` (`Spec => []AtMostOneActive`) and
`NeverUnpublished` (`Spec => StaysPublished`). `AtMostOneActive` is not inductive: nothing in it says what transactions that
have not committed are about to do. The invariant adds

* `PositionInv`: how far a handler is in its request, so that `Target` is a row;
* `LocksInv`: no two transactions have written the same row;
* `IndexInv`: a row about to become active is alone in its stream, among the active rows that its transaction does not clear
  and among all rows that other transactions set. This is what the unique index adds to the locks;
* `ReplacementInv`: an active row that a transaction clears is one whose stream the transaction gives another row, at once or
  later.

With `OwnBatches`, which TLC evaluates on the instance of the run, the same module proves `WholeOrNotAtAll`
(`Spec => SwitchedAllAtOnce`) and `Implementation` (`Spec => ImplementsPublishedBatches`). To the invariant above it adds, of each
handler, that its request is one it may make (`RequestInv`), that its transaction has set the rows it has worked through
and no others (`DoneInv`), and that `save` never finds the row it is to set as it should be (`UnsetInv`). The last is where
`OwnBatches` is needed: only the handler that names a batch makes it active, so `save` writes it and holds its lock to the
commit, and the commit is the one step that readers see. Without the hypothesis the refinement is false (the table of known departures).

`FollowsProofs`, of `LeaderServices` (`LeaderAssumption`): `AtMostOneLeader`, `NothingSkipped` and `NothingTwice`, for any number of servers,
runs, events and faults, a refused mail costing only its user. `OneLeader` needs only that leaders hold the lock (`LeadersHold`). `NoEventSkipped` is about the stored
time, which any run may overwrite, so the invariant says of each run (`RunInv`) that everything before its window is settled
and everything within is in its batch or came too late: whatever run is the next to store the end of its window, nothing
before that is open. `ToldOnce` needs that undisturbed runs follow each other and that nothing has been told after the
stored time but what the one run has just mailed (`InTurn`).

`PackagesProofs`, of `PackageUpdates` (`ConstantsAssumption`): `TypeCorrect` (the order has each stored package once, whatever is moved, deleted
and put back) and `UserChangesStand` (`Spec => []ChangesStand`). What a tick has still to save is what users want, or they have
overtaken it and it is in `raced` (`StaleOnlyIfRaced`).

`RemoteJobsProofs` (`NoneAssumption`, `BoundsAssumption`): `UpdatesExclude` (`Spec => []OneUpdateAtATime`). A handler with the lock
keeps it until it is stopped (`KeepsLock`), because only a handler that has been stopped has releases on their way
(`ReleasesWhenStopped`), and it is started once (`StartedOnce`, `IdleIsQuiet`); a job that works on after its handler was stopped
has lost its user (`WorksAnswered`).

`FollowsProofs`, of `Sharing` (`GrantsAssumption`, `NamesAssumption`, `BoundAssumption`): `FollowersSeeCatalogs` and `PublicStaysInPublic`. The
checks of a request are about what it has read, the properties about what it writes over: what connects them is that a
request writes only what it is about (`Confined`), and that two open requests about the same thing have been noted
(`RacesKnown`). So what is not in `raced` is as each open request has read it (`Fresh`), and its checks still hold when it
writes. `GrantsFit` (who has a level for the packages of a catalog has one for the catalog) is why a user with a row keeps
his follow rightly.

`PackagesProofs` first proves `NonBreakingKeeps`: for all package files, if the comparison does not find a breaking change and no
schema is hidden as a whole, the new file shows all that the prior one shows, with the same types. It is what makes
`SameMajorKeeps` a property of sequences and not of the comparison.

With `FilesAssumption` and `VersionsAssumption` it proves `Typing`, `FileBeforeRow`, `MajorKeeps` and `FilesStay`, for any
publishers, files and version numbers. Two publications that hold a row hold different ones (`Apart`), so nobody else writes
the file of a row about to be committed (`FilesInv`), and the number of a publication with changes stays free (`NewInv`).
`SameMajorKeeps` relates all pairs of versions, the code compares one: in turn (`InTurn`), the version found is above every other
and shows what all of its major number show (`LatestInv`), even after it has been deleted; `NonBreakingKeeps` carries that over
to the new file, and the number asked for puts the new version above all (`NextVersionFact`). That a latest version exists at
all is an invariant too (`MaxInv`): the set of rows grows by one at a time.

`PublishesVersions` (`Spec => ImplementsPublishedVersions`) follows from the same invariant, step by step. Only three actions are seen by
consumers: `Commit` of a new row (`VersionAppears`), `WritePackageFile` for a row there is (`FileChanges`), and `DeleteVersion`; a first
`Publish` beside another one ends `serial`, and every other step is a stutter. The invariant keeps of a written version that nothing
found is above it (in `Turn`), because the version a publication has been compared with may have gone by the time it commits.

`GroupMembersProofs` (the assumptions of `GroupMembers`): `MemberHasOneRow` (`Spec => []OneRowPerMember`) and `GroupKeepsManager`
(`Spec => []ManagedWhenAlone`), for any users, lists, failures and deleted accounts. Both are about committed rows, while the
checks of a request run between its own changes. The invariant is therefore about the *view* of a request, what the group
would be if it committed now (`ViewOf`): requests that do not overlap keep the view proper, one row per user and per id
(`InTurn`), and, as long as nobody has removed after changing, managed (`Kept`), so the group is so wherever the request ends. A
removal looks at the committed rows instead; it does so while nothing has been changed, when they are the view.

`BatchLifecycleProofs` (`BoundsAssumption`, `NoneAssumption`) has two invariants. `Types` holds however jobs overlap and whatever
is lost: what a job refers to is a row of the table (`Known`), and the table has no more rows than there are uploads that
have opened a batch. It gives `UploadTypes` and, with the constraint on the batch number, `NewBatchIsOwn`
(`Spec => []NewBatchesAreOwn`). `TurnInv` is for jobs that follow one another (`~overlapped`), with any number of jobs, records, lost
connections, time-outs and crashes at any step. A job publishes after its own save, and begins after the stop of the one before:

* `Phases`: one job or handler is at work at a time, and how far it is;
* `Tidy`: at most one batch is active; whoever works writes to the latest batch, from the record after the saved offset, and has seen
  everything in its file (`Holds`); of the files of a batch at most the last one begins after the saved offset, and what
  the others hold ends there (`Ordered`). It survives whatever is lost, because a crash takes records and not files. From
  it follow `NoRecordTwice` (`[]FilesDisjoint`) and `StreamStaysActive` (`StaysPublished`);
* `Follows`, until a new batch has been left behind (`Abandoned`): unless a job is replacing it, the latest batch is the active one. From
  it follows `GoesOnInActive` (`[]AppendsToActive`);
* `Received`, until the server stops: a saved offset, and what is on its way to be saved, is that of a record in the files. From it follows
  `SavedIsReceived` (`[]NeverClaimsUnreceived`);
* `Complete`, until either: every upload begins where the saved offset says (`Welcome`), so no record is refused; a batch holds all
  records up to the saved offset, and from there to what has been sent (`Whole`, `Fills`). From it follows `ActiveIsUnbroken`
  (`[]PublishedHasNoGaps`).

`FetchPipelineProofs` (`CombinationsAssumption`, `RecordsAssumption`, `NoneAssumption`): `TypeCorrect`, `OffsetsAreWritten`
(`Spec => []SavedIsWritten`) and `UpToDateSinks` (`Spec => []UpToDateIsComplete`), for any packages, however many stream sets are
read at once, and whatever is stopped, fails, dies or is opened again. What is saved is only right if the fetch is, so the
invariant says of every stream set (`SetInv`)

* `Covered`: of all that a fetch has read, holds or was told by the state, each record is still held or is where the fetch
  writes, in the sink or beside it. The offset of a fetch is that of the last record *some* writable has written, and is
  saved only when nothing is held (`PhaseSays`);
* `Unopened`: a fetch that replaces still holds every record of a schema it has not opened, so that emptying the schema
  loses nothing of this fetch;
* `NewsOnly`: a fetch that is not forced is about records that no state says are there, so that emptying the schema makes
  no state wrong. A forced one does; that is what `wiped` is for;
* `Stands`: what the state that is kept, and the one that has been loaded, say of the sink is so. Both are needed, because a
  stream set that is saved writes the loaded state of all others over what they have saved in the meantime;
* `OpenThere`: what is open is there, and a table that has been dropped has nothing.

The same module proves `EachRecordOnce` (`Spec => []ExactlyOnce`) from a second inductive invariant, `OnceInv`, about one
stream set of one schema while nothing fails (`Calm`; the counters only grow, so what is calm now was calm before). That a
record comes at most once rests on what is *not* there yet, so `OnceInv` bounds what is written from above where `Inv` bounds
it from below:

* `Fresh`: what is open has nothing of what the fetch holds, or will still read and not filter;
* `Filters`: a fetch that appends, and whose records carry offsets (AVRO blocks do not), filters exactly when it has loaded a state, and
  holds only records after its offset;
* `EndsAtState`, `EndsAtNote`: a file that is appended to ends at the offset that is kept, and then at the offset of the fetch.
  A forced fetch has forgotten the offset; it may differ until the file is opened, which empties it. That is why it must not
  be stopped before its first record: the state it would save says 0 of a file that has not been emptied;
* `Settled`: what stands beside the sink belongs to the fetch that is under way, so a new table begins empty, and the state
  does not parse only while it is being saved.

`OnceInv` is inductive together with the types and `OpenThere`; it needs nothing else of `Inv`.

`DataFetchProofs` (`FetchAssumption`): `TypeCorrect`, `SinkInOrder` (`Spec => []InOrder`), `SessionsHaveNoGap`
(`[]NoGapInSession`), `FlowIsControlled` (`[]FlowControl`) and `SessionsAreComplete` (`Spec => SessionComplete`), for any number
of records, sessions and failed files and any size of a chunk. Four places follow each other: what the sink has, what the
session has handed over, what is on the wire, and what is left of the current file. The invariant says so link by link

* `FilesInv`: each file begins where the one before ends, the first one at 0;
* `WireFollows`, `WireInv`, `ServerFollows`: the first chunk on the wire goes on where the session is, each chunk where the one
  before ends, and the server where the wire ends. They start to bind with the first record of the session: where it begins
  does not matter, and that a session may begin too late (`fetch_skipped_file`) does not disturb them;
* `Delivered`: what the session has begins after what the sink has, because the one record that is sent again, the one at
  the state's offset, is dropped (`AfterState`). A stall makes a hole in the session; it breaks no order;
* `Paces`: of the current file at most one chunk is on its way or not yet acknowledged, and a file's second chunk is only
  sent when nothing of the files before is on its way. Otherwise the last chunks of several short files could add up;
* `Complete`, until a file cannot be opened or the reader stalls: the last record of what has been read is on the wire, in
  the session or in the sink (`Reaches`). It is in the sink when the session begins at the last record of its first file.

`SessionComplete` says more than `Reaches`: every record from the first one the session has delivered is in the sink. It follows with two more
invariants: what a session has is consecutive (`Consecutive`, by `NoGapInSession` and the order), and its last record is the greatest the
sink will have (`LastIsGreatest`); so the run from its first to its last record has no hole (`RunIsWhole`), and ends where the files do.

`DeliversInSessions` (`Spec => ImplementsRecordDelivery`) takes the same invariant: what a chunk adds to the session is one run that goes on
where the session is (`ChunkDelivered`, from `Before` of the first chunk on the wire), an end without an error or a stall keeps what was due
(`EndDelivered`, from `Complete`), uploads change no record of a file that has been listed (`LastStays`), and the steps of the
handler are stutters (`HiddenSteps`).

Three abstract specifications are so implemented for all values of the constants: `PublishedBatches`, `RecordDelivery` and
`PublishedVersions`. Only model-checked: all liveness properties (`ENABLED` and fairness are out of the prover's reach).

## 5. Findings and what is not modelled

The run `fetch_skipped_file` shows that the code skips a file where a comment says how the offset is to be read
(`data-storage.ts:38`, quoted in `PROJECT.json`).

### What the code does not keep

The modules state, beside the properties that hold, some that the repository promises and the code breaks. No run of the project
has them; put in place of the properties of the configuration named here, TLC refutes each, with the code's steps as the trace. What is
left when their cases are taken out is what the runs check and the proofs prove.

| Property | Configuration | What the repository says |
|---|---|---|
| `BatchLifecycle.OneUploadPerBatch` | `MCBatchLifecycleConcurrent.cfg` with `Siblings = TRUE` | "Only one upload per batch at at time." (`DataUploadHandler.ts:58`) |
| `BatchLifecycle.StateAsWritten` | `MCBatchLifecycleConcurrent.cfg` | "The state of an individual stream from a streamSet as written to a sink" (`SinkState.ts:16`) |
| `BatchLifecycle.ServesWholeBatch` | `MCBatchLifecycleInTurn.cfg` | "A new batch replaces an old batch. Each batch can be added to indefinitely." (`DataUploadHandler.ts:64`) |
| `BatchLifecycle.StaysServed` | `MCBatchLifecycleConcurrent.cfg` | "the client must tell the server to make the new batch the active batch - so that other clients are served the correct batch" (`DataUploadHandler.ts:67`) |
| `BatchLifecycle.StateIsLastRead` | `MCBatchLifecycleInTurn.cfg` | "The last read offset value for a single stream" (`SinkState.ts:24`) |
| `LeaderServices.OthersAreTold`, `CommittedIsTold` | `MCLeaderServices.cfg` | "Use the 'follow' button throughout this registry to be notified of changes." (`user-following.component.html:8`) |
| `PackageVersions.MajorNumberKeeps` | `MCPackageVersions.cfg` | "changes - requiring a minimum version number of" (`CreateVersion.ts:106`) |
| `FetchPipeline.AppendedOnce` | `MCFetchPipeline.cfg` | "New records are appended to the end of a stream (uses offsets)" (`DataHandlingUtil.ts:4`) |
| `GroupMembers.EveryGroupManaged` | `MCGroupMembers.cfg` | "Can not remove the last manager from the group" (`GroupResolver.ts:245`) |
| `Sharing.PublicWhereCatalogIs` | `MCSharing.cfg` | "This package will no longer be public, because the ... catalog is not public" (`move-package.component.html:42`) |
| `RemoteJobs.LockedByAnother` | `MCRemoteJobs.cfg` with `Commands = {c1, c2, c3}`, `MaxAsked = 0` | " is locked by another session: " (`PackageUpdateHandler.ts:169`) |
| `RemoteJobs.RefusedUpdateUnlocks` | `MCRemoteJobs.cfg` | "This package has no versions. Publish a version of this package first" (`PackageUpdateHandler.ts:68`) |

The other places where the code departs from what its names, comments or documents suggest are in the table of known departures
above. Updates that the package update service starts take no lock at all, so they exclude neither each other nor the updates that
users start from the web: `OneUpdateAtATime` is about the latter.

Not modelled, or only in part:

* `BatchLifecycle` has one stream; a sink with several streams publishes their batches in one request, which is
  `ActiveBatches`. Deleting batches is not there.
* `LeaderServices` has the window of events and not the contents of mails; all notification frequencies run the same code.
* `FetchPipeline` leaves out the choice of sink and parameters, deduplication, and what a record contains; databases and
  object stores do what their documentation says of one call.
* `GroupMembers` has one group, without its levels on catalogs and packages. `Sharing` leaves groups, collections and
  personal catalogs out.
* `RemoteJobs` has one server process; a client that asks to exit, which the modal never does, and `FetchHandler` are left
  out. That `pg-mutex-lock` refuses a key its process already holds, and releases by key, is taken from how the code uses it.
* The session cache, `SocketHandler`, schema inspection, stream transforms, detectors, the upgrade of old package files,
  accounts and mail, migrations, the command line, the rest of the front end, and deployment are listed in `PROJECT.json`
  with the reason. Most are sequential conversions, whose tests of sample values say more than a model; they are also most
  of the lines of the repository, and the reason why the models stand for a small part of those.

## 6. Running

    tlc -workers 2 -config MCActiveBatches.cfg MCActiveBatches
    tlapm ActiveBatchesProofs.tla

The longest runs (`uploads_in_turn`, `sharing`, `package_versions`) take a few minutes, the proofs a few minutes each.
