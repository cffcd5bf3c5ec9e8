------------------------------ MODULE DataFetch ------------------------------
(***************************************************************************)
(* Reading a data batch from the registry: DataFetchHandler on the server, *)
(* DataPMSource in the client, a socket between them, and the files that   *)
(* uploads add to the batch in the meantime (DataStorageService).          *)
(*                                                                         *)
(* A client reads the batch in several sessions.  It keeps what it has     *)
(* written to its sink, and the offset of the last such record; the next   *)
(* session asks for the records from that offset on.                       *)
(*                                                                         *)
(* A record is its offset.  The file an upload writes is named by its      *)
(* first offset and holds the records up to the next file's first one; it  *)
(* and what is sent of it are given by their first and their last offset.  *)
(* Opening a channel and sending StartProxyFetchRequest are one step.      *)
(***************************************************************************)
EXTENDS Naturals, FiniteSets, Sequences

CONSTANTS
    MaxOffset,      \* the uploads write records 0..MaxOffset
    ChunkSize,      \* records in a DataSend (BatchingTransform: 250)
    MaxSessions,    \* sessions of the client
    MaxReadErrors,  \* how often a file cannot be opened
    PartialFiles,   \* a file can be read while it is written: FileStorage, but
                    \* not GoogleCloudStorage
    MayStall        \* the reader of the client's stream may stop reading

ASSUME FetchAssumption ==
    /\ MaxOffset \in Nat /\ ChunkSize \in Nat \ {0}
    /\ MaxSessions \in Nat /\ MaxReadErrors \in Nat
    /\ PartialFiles \in BOOLEAN /\ MayStall \in BOOLEAN

VARIABLES
    files,      \* the batch's files, by first offset: [start, last, closed]
    server,     \* where the session's DataFetchHandler is
    listed,     \* how many files readDataBatch has listed
    index,      \* readDataBatch's index: the next file, from 1
    rest,       \* records of the current file not sent yet: [first, last]
    paused,     \* the current file's batchTransform is paused
    wire,       \* messages on their way to the client
    acks,       \* DataAcknowledges on their way: the file each belongs to
    client,     \* "idle" between sessions, "reading" in one
    offset,     \* StartProxyFetchRequest.offset
    session,    \* records the session has handed to the client's sink
    stalled,    \* a chunk is waiting for the stream to drain
    have,       \* records of earlier sessions, which the sink has committed
    sessions,   \* sessions begun
    readErrors  \* files that could not be opened

fetchVars == <<server, listed, index, rest, paused, wire, acks, offset>>
clientVars == <<client, session, stalled, have, sessions>>
vars == <<files, fetchVars, clientVars, readErrors>>

Offsets == 0..MaxOffset
Message == [type : {"data"}, file : Nat, first : Offsets, last : Offsets]
             \cup [type : {"error", "stop"}]
Unsent == [first : Nat, last : Nat]     \* none, if first > last

TypeOK ==
    /\ files \in Seq([start : Offsets, last : Offsets, closed : BOOLEAN])
    /\ server \in {"none", "list", "next", "sending", "stopping", "stopped", "down"}
    /\ listed \in 0..Len(files)
    /\ index \in Nat \ {0}
    /\ rest \in Unsent
    /\ paused \in BOOLEAN /\ stalled \in BOOLEAN
    /\ wire \in Seq(Message)
    /\ acks \in Seq(Nat)
    /\ client \in {"idle", "reading"}
    /\ offset \in Offsets
    /\ session \in Seq(Offsets) /\ have \in Seq(Offsets)
    /\ sessions \in 0..MaxSessions
    /\ readErrors \in 0..MaxReadErrors

Nothing == [first |-> 1, last |-> 0]

Init ==
    /\ files = <<>>
    /\ server = "none"
    /\ listed = 0 /\ index = 1 /\ rest = Nothing /\ paused = FALSE
    /\ wire = <<>> /\ acks = <<>>
    /\ client = "idle" /\ offset = 0
    /\ session = <<>> /\ have = <<>> /\ stalled = FALSE
    /\ sessions = 0 /\ readErrors = 0

-----------------------------------------------------------------------------
\* Where the next upload to the batch begins.
NextOffset == IF files = <<>> THEN 0 ELSE files[Len(files)].last + 1

\* The files a session finds: uploads write one after the other, so that they
\* are all or all but the last.
Visible == {i \in DOMAIN files : files[i].closed \/ PartialFiles}

\* readDataBatch: as many files are skipped as begin at or after the offset.
FirstIndex(n, o) ==
    IF o = 0 THEN 1 ELSE Cardinality({i \in 1..n : files[i].start >= o}) + 1

\* The records of a file from an offset on (offsetFilterTransform).
Records(f, o) == [first |-> IF f.start < o THEN o ELSE f.start, last |-> f.last]

\* BatchingTransform loses the record that fills a chunk.
ChunkLastMutant(r) == IF r.last - r.first >= ChunkSize THEN r.first + ChunkSize - 2 ELSE r.last

\* BatchingTransform: the last record of the next chunk.
ChunkLast(r) == IF r.last - r.first >= ChunkSize THEN r.first + ChunkSize - 1 ELSE r.last

\* The offset the sink's state names, if it has one.
StateOffset == IF have = <<>> THEN {} ELSE {have[Len(have)]}

\* The pipeline behind the client's stream keeps what comes after the state.
AfterState(first, last) ==
    LET from == IF \E o \in StateOffset : o >= first THEN have[Len(have)] + 1 ELSE first
    IN  [i \in 1..(last + 1 - from) |-> from + i - 1]

-----------------------------------------------------------------------------
(* Uploads.                                                                *)

\* A file is created for the records of one upload ...
BeginUpload ==
    /\ \A i \in 1..Len(files) : files[i].closed
    /\ NextOffset \in Offsets
    /\ \E last \in NextOffset..MaxOffset :
          files' = Append(files, [start |-> NextOffset, last |-> last, closed |-> FALSE])
    /\ UNCHANGED <<fetchVars, clientVars, readErrors>>

\* ... and is complete when the upload stops.
EndUpload ==
    /\ files # <<>> /\ ~files[Len(files)].closed
    /\ files' = [files EXCEPT ![Len(files)].closed = TRUE]
    /\ UNCHANGED <<fetchVars, clientVars, readErrors>>

-----------------------------------------------------------------------------
(* The server.  (A definition whose name ends in Mutant is a mistake the   *)
(* code does not make; the properties tell it from the code.)              *)

\* OPEN_FETCH_CHANNEL, and StartProxyFetchRequest for the state's last offset.
OpenChannel ==
    /\ client = "idle" /\ sessions < MaxSessions
    /\ client' = "reading" /\ server' = "list"
    /\ offset' = IF have = <<>> THEN 0 ELSE have[Len(have)]
    /\ session' = <<>>
    /\ sessions' = sessions + 1
    /\ UNCHANGED <<files, listed, index, rest, paused, wire, acks, stalled, have,
                   readErrors>>

\* startSending: readDataBatch lists the files, once.
ListFiles ==
    /\ server = "list"
    /\ listed' = Cardinality(Visible)
    /\ index' = FirstIndex(listed', offset)
    /\ server' = "next"
    /\ UNCHANGED <<files, rest, paused, wire, acks, offset, clientVars, readErrors>>

\* getNext opens a file, or the one before the one it should.
OpenFileMutant ==
    /\ server = "next" /\ index <= listed
    /\ files[index].closed
    /\ rest' = Records(files[IF index > 1 THEN index - 1 ELSE 1], offset)
    /\ index' = index + 1
    /\ paused' = FALSE
    /\ server' = "sending"
    /\ UNCHANGED <<files, listed, wire, acks, offset, clientVars, readErrors>>

\* getNext opens the next file; its records are filtered.
OpenFile ==
    /\ server = "next" /\ index <= listed
    /\ files[index].closed
    /\ rest' = Records(files[index], offset)
    /\ index' = index + 1
    /\ paused' = FALSE
    /\ server' = "sending"
    /\ UNCHANGED <<files, listed, wire, acks, offset, clientVars, readErrors>>

\* A file that is still written ends before its gzip stream does: the
\* decompressor's error event has no listener and ends the server process.
OpenPartialFile ==
    /\ server = "next" /\ index <= listed
    /\ ~files[index].closed
    /\ server' = "down"
    /\ UNCHANGED <<files, listed, index, rest, paused, wire, acks, offset,
                   clientVars, readErrors>>

\* getNext throws: startSendingWrapper sends an ErrorResponse and stops.
ReadFails ==
    /\ server = "next" /\ index <= listed
    /\ readErrors < MaxReadErrors
    /\ readErrors' = readErrors + 1
    /\ wire' = Append(wire, [type |-> "error"])
    /\ server' = "stopping"
    /\ UNCHANGED <<files, listed, index, rest, paused, acks, offset, clientVars>>

\* The handler does not pause the stream after a DataSend.
SendChunkMutant ==
    /\ server = "sending" /\ rest.first <= rest.last
    /\ wire' = Append(wire, [type |-> "data", file |-> index - 1, first |-> rest.first,
                             last |-> ChunkLast(rest)])
    /\ rest' = [rest EXCEPT !.first = @ + ChunkSize]
    /\ UNCHANGED <<files, server, listed, index, paused, acks, offset, clientVars, readErrors>>

\* batchTransform.on("data"): pause until the client acknowledges.
SendChunk ==
    /\ server = "sending" /\ rest.first <= rest.last /\ ~paused
    /\ wire' = Append(wire, [type |-> "data", file |-> index - 1, first |-> rest.first,
                             last |-> ChunkLast(rest)])
    /\ rest' = [rest EXCEPT !.first = @ + ChunkSize]
    /\ paused' = TRUE
    /\ UNCHANGED <<files, server, listed, index, acks, offset, clientVars, readErrors>>

\* The acknowledgement resumes the stream whose chunk it answers.
Acknowledged ==
    /\ acks # <<>>
    /\ acks' = Tail(acks)
    /\ paused' = (paused /\ Head(acks) # index - 1)
    /\ UNCHANGED <<files, server, listed, index, rest, wire, offset, clientVars,
                   readErrors>>

\* batchTransform.on("end").  The last chunk of a file that has several may be
\* read from a stream that has already ended: "end" then comes without waiting
\* for the acknowledgement, although the stream is paused.
EndOfFile ==
    /\ server = "sending" /\ rest.first > rest.last
    /\ ~paused \/ LET r == Records(files[index - 1], offset) IN r.last - r.first >= ChunkSize
    /\ server' = "next"
    /\ UNCHANGED <<files, listed, index, rest, paused, wire, acks, offset, clientVars,
                   readErrors>>

\* getNext returns null at the last file.
NoMoreFilesMutant ==
    /\ server = "next" /\ index >= listed
    /\ server' = "stopping"
    /\ UNCHANGED <<files, listed, index, rest, paused, wire, acks, offset, clientVars,
                   readErrors>>

\* getNext returns null: stop("server").
NoMoreFiles ==
    /\ server = "next" /\ index > listed
    /\ server' = "stopping"
    /\ UNCHANGED <<files, listed, index, rest, paused, wire, acks, offset, clientVars,
                   readErrors>>

\* After a file that could not be opened, stop() fails and is tried again.
SendStopMutant ==
    /\ server = "stopping"
    /\ IF readErrors > 0 THEN UNCHANGED vars
       ELSE /\ wire' = Append(wire, [type |-> "stop"])
            /\ server' = "stopped"
            /\ UNCHANGED <<files, listed, index, rest, paused, acks, offset, clientVars,
                           readErrors>>

\* stop(): after the activity log, DataStop.
SendStop ==
    /\ server = "stopping"
    /\ wire' = Append(wire, [type |-> "stop"])
    /\ server' = "stopped"
    /\ UNCHANGED <<files, listed, index, rest, paused, acks, offset, clientVars, readErrors>>

-----------------------------------------------------------------------------
(* The client.                                                             *)

Arriving(type) == client = "reading" /\ wire # <<>> /\ Head(wire).type = type

\* A DataSend: every record is pushed to the stream, then acknowledged.
TakeChunk ==
    /\ Arriving("data")
    /\ session' = session \o AfterState(Head(wire).first, Head(wire).last)
    /\ acks' = Append(acks, Head(wire).file)
    /\ wire' = Tail(wire)
    /\ UNCHANGED <<files, server, listed, index, rest, paused, offset, client, stalled,
                   have, sessions, readErrors>>

\* A DataSend while nobody reads the stream: after some record the handler
\* waits for "drain", which a stream that is pushed to never emits.
StallOnChunk ==
    /\ MayStall
    /\ Arriving("data")
    /\ \E last \in Head(wire).first..Head(wire).last :
          session' = session \o AfterState(Head(wire).first, last)
    /\ stalled' = TRUE
    /\ wire' = Tail(wire)
    /\ UNCHANGED <<files, server, listed, index, rest, paused, acks, offset, client,
                   have, sessions, readErrors>>

\* An ErrorResponse is ignored.
TakeError ==
    /\ Arriving("error")
    /\ wire' = Tail(wire)
    /\ UNCHANGED <<files, server, listed, index, rest, paused, acks, offset, clientVars,
                   readErrors>>

\* The client is done with the session; whatever is still on its way is lost.
NoSession ==
    /\ client' = "idle" /\ session' = <<>> /\ stalled' = FALSE
    /\ server' = "none" /\ wire' = <<>> /\ acks' = <<>> /\ rest' = Nothing /\ paused' = FALSE
    /\ UNCHANGED <<files, listed, index, offset, sessions, readErrors>>

\* DataStop ends the stream; its records are written and the state committed.
TakeStop ==
    /\ Arriving("stop")
    /\ have' = have \o session
    /\ NoSession

\* The wait for "drain" is given up after 60 seconds and the job fails.
StallTimeout ==
    /\ stalled
    /\ UNCHANGED have
    /\ NoSession

-----------------------------------------------------------------------------
Progress ==
    \/ ListFiles \/ OpenFile \/ OpenPartialFile \/ SendChunk \/ Acknowledged
    \/ EndOfFile \/ NoMoreFiles \/ SendStop
    \/ TakeChunk \/ TakeError \/ TakeStop \/ StallTimeout

\* Everything has been uploaded and every session is over, or the server is.
Quiet ==
    /\ \/ server = "down"
       \/ client = "idle" /\ sessions = MaxSessions /\ NextOffset > MaxOffset
    /\ UNCHANGED vars

Next ==
    \/ BeginUpload \/ EndUpload
    \/ OpenChannel \/ Progress \/ ReadFails \/ StallOnChunk
    \/ Quiet

Spec == Init /\ [][Next]_vars

\* The event loops, the socket and the disk keep working; nothing is assumed of
\* uploads, of clients that begin a session, or of failures.
FairSpec == Spec /\ WF_vars(Progress)

-----------------------------------------------------------------------------
(* Properties.                                                             *)

\* The sink gets the records in the order of their offsets and none twice,
\* over all sessions: although the record at the state's offset is sent again,
\* chunks of two files may be in flight together and the reader may stall.
InOrder ==
    LET got == have \o session
    IN  \A i \in 1..(Len(got) - 1) : got[i] < got[i + 1]

\* Within a session no record is missing before one that has been delivered,
\* although the session reads file after file; unless its reader has stalled.
NoGapInSession ==
    ~stalled => \A i \in 1..(Len(session) - 1) : session[i + 1] = session[i] + 1

\* "Expect to be able to read new records only" (test-registry-data.ts): what
\* the sink has committed has no gap, so that the next session may go on after
\* its last record.
NothingMissing == \A i \in 1..Len(have) : have[i] = i - 1

\* A session that ends without an error has given the client every record from
\* the first one it delivered to the end of the files that were there when it
\* began, although uploads go on meanwhile; if it delivered none, the client had
\* the end of those files already.  (NothingMissing is about where it begins.)
SessionComplete ==
    [][(client = "reading" /\ client' = "idle" /\ readErrors = 0 /\ ~stalled
           /\ listed > 0)
       => /\ \E i \in 1..Len(have') : have'[i] >= files[listed].last
          /\ session # <<>> => \A o \in session[1]..files[listed].last :
                                  \E i \in 1..Len(have') : have'[i] = o]_vars

\* However slow the client is, at most two chunks are on their way to it: one
\* that waits for its acknowledgement and the last one of the file before.
FlowControl == Cardinality({i \in DOMAIN wire : wire[i].type = "data"}) <= 2

\* Every session ends: the two sides never wait for each other forever, though
\* the server waits for acknowledgements and the client for its reader.
EverySessionEnds == client = "reading" ~> client = "idle" \/ server = "down"

-----------------------------------------------------------------------------
(* Refinement.                                                             *)

\* The files that a session has listed are due, unless a file could not be opened.
Due ==
    IF server \in {"none", "list"} \/ listed = 0 \/ readErrors > 0 THEN 0
    ELSE files[listed].last + 1

Delivery ==
    INSTANCE RecordDelivery WITH open <- client = "reading", whole <- ~stalled, due <- Due

\* What the sink sees of the handler, the files, the chunks and their
\* acknowledgements is a delivery in order, session after session, each kept as a
\* whole or not at all: they implement RecordDelivery.
ImplementsRecordDelivery == Delivery!Spec
=============================================================================
