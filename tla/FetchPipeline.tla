---------------------------- MODULE FetchPipeline ---------------------------
(***************************************************************************)
(* Fetching a package into a sink, again and again: fetchMultiple of       *)
(* FetchPackageJob.ts, fetch of StreamToSinkUtil.ts, streamRecords of      *)
(* SchemaUtil.ts, and what the sinks do when they are opened, written,     *)
(* completed and told to keep the state of the sink.                       *)
(*                                                                         *)
(* A package has stream sets, read at the same time; record i of a stream  *)
(* set has offset i and a schema, and goes to the file, table, collection  *)
(* or topic of that schema.  The state says, per stream set, the offset    *)
(* written last and a hash of the source; it decides what the next fetch   *)
(* reads.                                                                  *)
(***************************************************************************)
EXTENDS Naturals, Sequences, Functions

CONSTANTS
    Combinations,   \* <<package, sink, update method, format>>: what is fetched into what
    MaxRecords,     \* records of a stream set
    MaxProduced,    \* records of a package
    MaxEvents,      \* events of the kinds below, together
    None, Torn      \* no state, and a state file that does not parse

FullSet == "BATCH_FULL_SET"
AppendOnly == "APPEND_ONLY_LOG"
Continuous == "CONTINUOUS"
Sinks == {"file", "object", "table", "mysql", "redshift", "warehouse", "collection", "log"}
\* The serializer of AVRO hands on blocks, which name no record.
Formats == {"records", "blocks"}

StreamSets == UNION {DOMAIN combination[1] : combination \in Combinations}
Schemas == UNION {Range(f) : f \in UNION {Range(combination[1]) : combination \in Combinations}}

\* A package is a function from stream sets to the schemas their records take
\* in turn; no two stream sets share a schema.
ASSUME CombinationsAssumption ==
    \A combination \in Combinations :
       /\ combination = <<combination[1], combination[2], combination[3], combination[4]>>
       /\ \A s \in DOMAIN combination[1] : combination[1][s] \in Seq(Schemas) \ {<<>>}
       /\ combination[2] \in Sinks
       /\ combination[3] \in {FullSet, AppendOnly, Continuous}
       /\ combination[4] \in Formats
       /\ \A s, t \in DOMAIN combination[1] :
             s # t => Range(combination[1][s]) \cap Range(combination[1][t]) = {}

VARIABLES
    package, sink, method, format,  \* the combination; it never changes
    source,     \* records of each stream set
    target,     \* per schema how often each record is in the sink, or None
    staging,    \* the same of what stands beside: x_new, a local file
    saved,      \* the state kept with the sink
    base,       \* the state a fetch has loaded
    forced,     \* the fetch does not look at the state
    fetch,      \* per stream set, the fetch under way
    wiped,      \* stream sets a forced fetch has emptied, the state kept
    cut,        \* stream sets that were saved after the source ended early
    counts      \* how often each bounded event has happened

sinkVars == <<target, staging>>
fixed == <<package, sink, method, format>>
vars == <<fixed, source, sinkVars, saved, base, forced, fetch, wiped, cut, counts>>

Sets == DOMAIN package
Records == 1..MaxRecords
SchemaOf(s, i) == package[s][((i - 1) % Len(package[s])) + 1]
SchemasOf(s) == Range(package[s])
Nothing == [i \in Records |-> 0]
Once(content, written) ==
    [i \in Records |-> IF i \in written /\ content[i] < 2 THEN content[i] + 1 ELSE content[i]]

\* Forced fetches, interrupts of the user, writes that fail or mix and processes
\* that die, sources that end early without an error, streams opened again.
Bounded == {"forced", "stops", "faults", "cuts", "reconnects"}
Count(event) ==
    /\ SumFunction(counts) < MaxEvents
    /\ counts' = [counts EXCEPT ![event] = @ + 1]

Off == [phase |-> "off", read |-> 0, preview |-> 0, note |-> 0, held |-> {}, filtering |-> FALSE,
        stopped |-> FALSE, short |-> FALSE, open |-> [c \in Schemas |-> "closed"]]
Phases == {"off", "reading", "ending", "committing"}
Running == \E s \in Sets : fetch[s].phase # "off"
Content == [Records -> 0..2]
SetState == [offset : 0..MaxRecords, hash : {None} \cup 0..MaxRecords]
State == [StreamSets -> {None} \cup SetState]

ASSUME RecordsAssumption == MaxRecords \in Nat
ASSUME NoneAssumption ==
    /\ None # Torn /\ {None, Torn} \cap State = {}
    /\ None \notin Content /\ None \notin SetState /\ None \notin 0..MaxRecords

TypeOK ==
    /\ <<package, sink, method, format>> \in Combinations
    /\ source \in [Sets -> 0..MaxRecords]
    /\ {target, staging} \subseteq [Schemas -> {None} \cup Content]
    /\ saved \in State \cup {None, Torn} /\ base \in State \cup {None}
    /\ forced \in BOOLEAN /\ wiped \subseteq Sets /\ cut \subseteq Sets
    /\ \A s \in Sets :
          /\ fetch[s].phase \in Phases /\ fetch[s].held \subseteq Records
          /\ fetch[s].read \in 0..source[s] /\ fetch[s].note \in 0..MaxRecords
    /\ counts \in [Bounded -> Nat]

Init ==
    /\ \E combination \in Combinations :
          /\ package = combination[1] /\ sink = combination[2]
          /\ method = combination[3] /\ format = combination[4]
    /\ source = [s \in Sets |-> 0]
    /\ target = [c \in Schemas |-> None] /\ staging = [c \in Schemas |-> None]
    /\ saved = None /\ base = None /\ forced = FALSE
    /\ fetch = [s \in Sets |-> Off]
    /\ wiped = {} /\ cut = {}
    /\ counts = [event \in Bounded |-> 0]

\* The source gets another record.
Produce(s) ==
    /\ source[s] < MaxRecords /\ SumFunction(source) < MaxProduced
    /\ source' = [source EXCEPT ![s] = @ + 1]
    /\ UNCHANGED <<fixed, sinkVars, saved, base, forced, fetch, wiped, cut, counts>>

-----------------------------------------------------------------------------
(* Opening a fetch.                                                        *)

\* getSinkState: a state that does not parse is none.
Loaded == IF saved = Torn THEN None ELSE saved

NewRecordsAvailable(s, state) ==
    \/ state = None \/ state[s] = None
    \/ state[s].hash = None \/ state[s].hash # source[s]

\* The fetch of a stream set goes on from the state that has been loaded.
Known(s, state) == state # None /\ state[s] # None

\* A batch of a whole set does not look at offsets.
Filtering(s, state) == method # FullSet /\ Known(s, state)

StartFetch(force) ==
    /\ ~Running
    /\ IF force THEN Count("forced") ELSE UNCHANGED counts
    /\ LET state == IF force THEN None ELSE Loaded
           chosen == {s \in Sets : NewRecordsAvailable(s, state)}
       IN /\ chosen # {}
          /\ base' = state
          /\ fetch' = [s \in Sets |->
                IF s \notin chosen THEN Off
                ELSE [Off EXCEPT !.phase = "reading", !.preview = source[s],
                                 !.note = IF Known(s, state) THEN state[s].offset ELSE 0,
                                 !.filtering = Filtering(s, state)]]
    /\ forced' = force
    /\ UNCHANGED <<fixed, source, sinkVars, saved, wiped, cut>>

\* The first record of a schema opens its writable.
HeldFor(s, c) == {i \in fetch[s].held : SchemaOf(s, i) = c}
Needs(s, c) == HeldFor(s, c) # {} /\ fetch[s].open[c] = "closed"

\* A fetch without a state appends.
ReplaceMutant == method = FullSet

\* replaceExistingData
Replace == base = None \/ method = FullSet

Opened(s, c, how) == fetch' = [fetch EXCEPT ![s].open[c] = how]
Emptied(content, c) == [content EXCEPT ![c] = Nothing]
Created(content, c) == IF content[c] = None THEN Emptied(content, c) ELSE content

\* The old content has gone, and the old state says it is there.
Wipe(s, c) ==
    wiped' = IF forced /\ target[c] # None /\ saved \notin {None, Torn} THEN wiped \cup {s} ELSE wiped

\* A local file is opened for writing or for appending.
OpenFile(s, c) ==
    /\ sink = "file" /\ Needs(s, c)
    /\ IF Replace THEN target' = Emptied(target, c) /\ Wipe(s, c)
                  ELSE target' = Created(target, c) /\ UNCHANGED wiped
    /\ Opened(s, c, "direct")
    /\ UNCHANGED <<fixed, source, staging, saved, base, forced, cut, counts>>

\* An S3 object is written to a local file first.
OpenObject(s, c) ==
    /\ sink = "object" /\ Needs(s, c)
    /\ staging' = Emptied(staging, c)
    /\ Opened(s, c, "staged")
    /\ UNCHANGED <<fixed, source, target, saved, base, forced, wiped, cut, counts>>

\* A table to be replaced is not dropped.
ExistsMutant(c) == target[c] # None

\* PostgreSQL and MySQL: a table that is there, and is not to be replaced,
\* gets a new one beside it.  Where one has been left behind, MySqlSink does
\* not hear that it cannot be made, and goes on with it.
Exists(c) == target[c] # None /\ ~Replace

OpenTable(s, c) ==
    /\ sink \in {"table", "mysql"} /\ Needs(s, c)
    /\ IF Exists(c)
       THEN /\ sink = "table" => staging[c] = None
            /\ staging' = Created(staging, c) /\ Opened(s, c, "staged")
            /\ UNCHANGED <<target, wiped>>
       ELSE /\ target' = Emptied(target, c) /\ Wipe(s, c) /\ Opened(s, c, "direct")
            /\ UNCHANGED staging
    /\ UNCHANGED <<fixed, source, saved, base, forced, cut, counts>>

\* Redshift always makes the table anew, and collects records in a CSV file.
OpenRedshift(s, c) ==
    /\ sink = "redshift" /\ Needs(s, c)
    /\ target' = Emptied(target, c) /\ Wipe(s, c)
    /\ staging' = Emptied(staging, c)
    /\ Opened(s, c, "staged")
    /\ UNCHANGED <<fixed, source, saved, base, forced, cut, counts>>

\* BigQuery deletes a new table left behind.
OpenWarehouse(s, c) ==
    /\ sink = "warehouse" /\ Needs(s, c)
    /\ IF target[c] # None
       THEN staging' = Emptied(staging, c) /\ Opened(s, c, "staged") /\ UNCHANGED target
       ELSE target' = Emptied(target, c) /\ Opened(s, c, "direct") /\ UNCHANGED staging
    /\ UNCHANGED <<fixed, source, saved, base, forced, wiped, cut, counts>>

\* MongoDB goes on with a new collection left behind.
OpenCollection(s, c) ==
    /\ sink = "collection" /\ Needs(s, c)
    /\ IF target[c] # None
       THEN staging' = Created(staging, c) /\ Opened(s, c, "staged") /\ UNCHANGED target
       ELSE target' = Emptied(target, c) /\ Opened(s, c, "direct") /\ UNCHANGED staging
    /\ UNCHANGED <<fixed, source, saved, base, forced, wiped, cut, counts>>

\* A topic of Kafka.
OpenTopic(s, c) ==
    /\ sink = "log" /\ Needs(s, c)
    /\ target' = Created(target, c)
    /\ Opened(s, c, "direct")
    /\ UNCHANGED <<fixed, source, staging, saved, base, forced, wiped, cut, counts>>

Open(s, c) ==
    \/ OpenFile(s, c) \/ OpenObject(s, c) \/ OpenTable(s, c) \/ OpenRedshift(s, c)
    \/ OpenWarehouse(s, c) \/ OpenCollection(s, c) \/ OpenTopic(s, c)

\* What a process leaves when it ends: the sink, and the state as it was saved.
Die == fetch' = [s \in Sets |-> Off] /\ base' = None /\ forced' = FALSE

\* PostgreSQL: a new table has been left behind, and the error of CREATE TABLE
\* is not caught.
OpenFails(s, c) ==
    /\ sink = "table" /\ Needs(s, c) /\ Exists(c) /\ staging[c] # None
    /\ Die
    /\ UNCHANGED <<fixed, source, sinkVars, saved, wiped, cut, counts>>

-----------------------------------------------------------------------------
(* Reading, writing and ending.                                            *)

Reading(s) == fetch[s].phase = "reading"

\* The filter drops a record, or it goes on to be written.
Passes(s, i) == ~(fetch[s].filtering /\ i <= fetch[s].note)

Read(s) ==
    /\ Reading(s) /\ fetch[s].read < source[s]
    /\ LET i == fetch[s].read + 1
       IN fetch' = [fetch EXCEPT ![s].read = i,
                                 ![s].held = IF Passes(s, i) THEN @ \cup {i} ELSE @]
    /\ UNCHANGED <<fixed, source, sinkVars, saved, base, forced, wiped, cut, counts>>

\* What SinkStateWritable notes: the offset of the last record, if it is given one.
Notes(s, last) == IF format = "blocks" THEN fetch[s].note ELSE last

\* A writable writes what it has buffered; the last record sets the offset,
\* whatever the writables of other schemas still hold.
Flush(s, c) ==
    /\ fetch[s].open[c] # "closed"
    /\ IF fetch[s].open[c] = "direct"
       THEN /\ target' = [target EXCEPT ![c] = Once(@, HeldFor(s, c))]
            /\ UNCHANGED staging
       ELSE /\ staging' = [staging EXCEPT ![c] = Once(@, HeldFor(s, c))]
            /\ UNCHANGED target
    /\ \E last \in HeldFor(s, c) :
          /\ \A i \in HeldFor(s, c) : i <= last
          /\ fetch' = [fetch EXCEPT ![s].note = Notes(s, last), ![s].held = @ \ HeldFor(s, c)]
    /\ UNCHANGED <<fixed, source, saved, base, forced, wiped, cut, counts>>

EndOfSource(s) ==
    /\ Reading(s) /\ fetch[s].read = source[s] /\ method # Continuous
    /\ fetch' = [fetch EXCEPT ![s].phase = "ending"]
    /\ UNCHANGED <<fixed, source, sinkVars, saved, base, forced, wiped, cut, counts>>

\* A source ends before its last record without an error, as the source of
\* the registry does when the server reports one.
EndsEarly(s) ==
    /\ Reading(s) /\ fetch[s].read < source[s] /\ method # Continuous /\ Count("cuts")
    /\ fetch' = [fetch EXCEPT ![s].phase = "ending", ![s].short = TRUE]
    /\ UNCHANGED <<fixed, source, sinkVars, saved, base, forced, wiped, cut>>

\* A continuous stream is opened again, and may begin at its first record.
\* The filter then looks at the offset of this fetch, unless there was no state.
Reconnect(s) ==
    /\ Reading(s) /\ method = Continuous /\ fetch[s].read > 0 /\ Count("reconnects")
    /\ fetch' = [fetch EXCEPT ![s].read = 0, ![s].filtering = base # None]
    /\ UNCHANGED <<fixed, source, sinkVars, saved, base, forced, wiped, cut>>

\* SIGINT: no more is read, what has been read is written.
Stop ==
    /\ \E s \in Sets : Reading(s)
    /\ Count("stops")
    /\ fetch' = [s \in Sets |->
          IF Reading(s) THEN [fetch[s] EXCEPT !.phase = "ending", !.stopped = TRUE] ELSE fetch[s]]
    /\ UNCHANGED <<fixed, source, sinkVars, saved, base, forced, wiped, cut>>

Completing(s, c, how) ==
    /\ fetch[s].phase = "ending" /\ fetch[s].open[c] = how /\ HeldFor(s, c) = {}
    /\ \A i \in fetch[s].held : fetch[s].open[SchemaOf(s, i)] # "closed"

CloseDirect(s, c) ==
    /\ Completing(s, c, "direct")
    /\ Opened(s, c, "closed")
    /\ UNCHANGED <<fixed, source, sinkVars, saved, base, forced, wiped, cut, counts>>

\* An upload to S3 replaces the object; COPY into Redshift is a transaction.
Upload(s, c) ==
    /\ sink \in {"object", "redshift"} /\ Completing(s, c, "staged")
    /\ target' = [target EXCEPT ![c] = staging[c]]
    /\ staging' = [staging EXCEPT ![c] = None]
    /\ Wipe(s, c)
    /\ Opened(s, c, "closed")
    /\ UNCHANGED <<fixed, source, saved, base, forced, cut, counts>>

\* The old table is dropped, then the new one renamed (in BigQuery: copied).
DropOld(s, c) ==
    /\ sink \in {"table", "mysql", "warehouse", "collection"} /\ Completing(s, c, "staged")
    /\ target' = [target EXCEPT ![c] = IF sink = "warehouse" THEN Nothing ELSE None]
    /\ Wipe(s, c)
    /\ Opened(s, c, "dropped")
    /\ UNCHANGED <<fixed, source, staging, saved, base, forced, cut, counts>>

RenameNew(s, c) ==
    /\ Completing(s, c, "dropped")
    /\ target' = [target EXCEPT ![c] = staging[c]]
    /\ staging' = [staging EXCEPT ![c] = None]
    /\ Opened(s, c, "closed")
    /\ UNCHANGED <<fixed, source, saved, base, forced, wiped, cut, counts>>

\* The state is saved while writables are still closing.
BeginCommitMutant(s) ==
    /\ fetch[s].phase = "ending"
    /\ fetch' = [fetch EXCEPT ![s].phase = "committing", ![s].note = fetch[s].read]
    /\ UNCHANGED <<fixed, source, sinkVars, saved, base, forced, wiped, cut, counts>>

\* commitAfterWrites.  The state file is emptied before it is written.
BeginCommit(s) ==
    /\ fetch[s].phase = "ending" /\ fetch[s].held = {}
    /\ \A c \in SchemasOf(s) : fetch[s].open[c] = "closed"
    /\ fetch' = [fetch EXCEPT ![s].phase = "committing"]
    /\ saved' = IF sink = "file" THEN Torn ELSE saved
    /\ UNCHANGED <<fixed, source, sinkVars, base, forced, wiped, cut, counts>>

\* Nothing else of this fetch is under way.
Finished(s) ==
    LET over == \A t \in Sets \ {s} : fetch[t].phase = "off"
    IN /\ fetch' = [fetch EXCEPT ![s] = Off]
       /\ base' = IF over THEN None ELSE base
       /\ forced' = (forced /\ ~over)

\* The hash is kept although the user has stopped the fetch.
FinalStateMutant(s) ==
    [t \in StreamSets |->
       IF t = s THEN [offset |-> fetch[s].note, hash |-> fetch[s].preview]
       ELSE IF base = None THEN None ELSE base[t]]

\* The state that was loaded, with the stream set of this fetch renewed.
FinalState(s) ==
    [t \in StreamSets |->
       IF t = s THEN [offset |-> fetch[s].note,
                      hash |-> IF fetch[s].stopped THEN None ELSE fetch[s].preview]
       ELSE IF base = None THEN None ELSE base[t]]

\* Two stream sets that write the state file at once may leave the end of the
\* longer text after the shorter one.
SaveState(s) ==
    /\ fetch[s].phase = "committing"
    /\ \/ /\ saved' = IF sink = "log" THEN saved ELSE FinalState(s)
          /\ UNCHANGED counts
       \/ /\ sink = "file" /\ saved # Torn /\ Count("faults")
          /\ saved' = Torn
    /\ wiped' = IF Replace THEN wiped \ {s} ELSE wiped
    /\ cut' = IF fetch[s].short THEN cut \cup {s} ELSE cut \ {s}
    /\ Finished(s)
    /\ UNCHANGED <<fixed, source, sinkVars>>

\* A write or the source fails: this fetch is over, the others go on.
Fail(s) ==
    /\ fetch[s].phase # "off" /\ Count("faults")
    /\ Finished(s)
    /\ UNCHANGED <<fixed, source, sinkVars, saved, wiped, cut>>

Crash ==
    /\ Running /\ Count("faults")
    /\ Die
    /\ UNCHANGED <<fixed, source, sinkVars, saved, wiped, cut>>

Writing(s, c) == Open(s, c) \/ Flush(s, c) \/ CloseDirect(s, c) \/ Upload(s, c) \/ DropOld(s, c) \/ RenameNew(s, c)

Progress(s) ==
    \/ Read(s) \/ EndOfSource(s) \/ BeginCommit(s) \/ SaveState(s)
    \/ \E c \in SchemasOf(s) : Writing(s, c) \/ OpenFails(s, c)

Next ==
    \/ \E force \in BOOLEAN : StartFetch(force)
    \/ \E s \in Sets :
          \/ Produce(s) \/ Progress(s) \/ EndsEarly(s) \/ Reconnect(s) \/ Fail(s)
    \/ Stop \/ Crash

Spec == Init /\ [][Next]_vars

\* Node runs what is ready; the package is fetched again when there are new
\* records, as the user or a schedule does.
FairSpec ==
    /\ Spec
    /\ \A s \in StreamSets : WF_vars(s \in Sets /\ Progress(s))
    /\ WF_vars(StartFetch(FALSE))

-----------------------------------------------------------------------------
(* Properties.                                                             *)

Written(s, i) == target[SchemaOf(s, i)] # None /\ target[SchemaOf(s, i)][i] > 0
HasState(s) == Known(s, Loaded)

\* The offset in the state is that of the sink: the next fetch goes on after
\* it, so every record up to it has to be there.
OffsetIsWritten ==
    method # FullSet =>
       \A s \in Sets \ wiped :
          HasState(s) => \A i \in 1..Loaded[s].offset : Written(s, i)

\* A sink that makes a new table beside an old one, or writes a whole object,
\* has only the new records of a source that appends.
Rewrites == method # FullSet /\ sink \notin {"file", "log"}

\* The saved offset of a sink that appends is never ahead of what has been
\* written, whatever was stopped, failed, died, was read again or saved by another
\* stream set.  A forced fetch that has emptied the sink and not come to its end
\* is the exception: what is lost then stays lost until the next forced one.
SavedIsWritten == Rewrites \/ OffsetIsWritten

\* "No new records available" is said only of a sink that has everything: a
\* fetch that was stopped, has failed or has died half-way is done again.
\* (A source that ends early without an error is taken for complete.)
UpToDateIsComplete ==
    Rewrites \/
    \A s \in Sets \ (wiped \cup cut) :
       HasState(s) /\ ~NewRecordsAvailable(s, Loaded) =>
          \A i \in 1..source[s] : Written(s, i)

OneSchema == \A s, t \in Sets : s = t /\ Len(package[s]) = 1
NoneTwice ==
    \A s \in Sets, i \in Records : target[SchemaOf(s, i)] # None => target[SchemaOf(s, i)][i] <= 1

\* One stream of one schema reaches a file, a table or an object once, however
\* often it is fetched and stopped, as long as nothing fails.  (A forced fetch
\* that ends before its first record has forgotten the state and not emptied
\* the sink.  A file of blocks that is appended to never gets an offset:
\* AppendedOnce.)
ExactlyOnce ==
    /\ OneSchema
    /\ method # Continuous /\ sink # "log" /\ counts["faults"] = 0
    /\ counts["forced"] = 0 \/ counts["stops"] + counts["cuts"] = 0
    /\ format = "blocks" => method = FullSet
    => NoneTwice

\* "New records are appended to the end of a stream (uses offsets)"
\* (DataHandlingUtil.ts): fetched again and again, with nothing failing, a sink
\* that appends has each record once.  With AVRO no offset is ever saved, and
\* every fetch that finds a new record appends all of them.
AppendedOnce ==
    OneSchema /\ method = AppendOnly /\ sink # "log" /\ SumFunction(counts) = 0 => NoneTwice

\* Whatever has gone wrong, the sink has every record of the source in the
\* end, when the package is fetched again and again.
CatchesUp ==
    Rewrites \/
    <>[](\A s \in Sets \ (wiped \cup cut) : \A i \in 1..source[s] : Written(s, i))
=============================================================================
