---------------------------- MODULE DataFetchProofs ----------------------------
(***************************************************************************)
(* Theorems about DataFetch, for any number of records, sessions, failures *)
(* and any size of a chunk.                                                *)
(*                                                                         *)
(* The argument: what the sink has, what the session has handed over, what *)
(* is on the wire and what is left of the current file follow each other;  *)
(* from the first record that a session delivers to the next one the       *)
(* server will send, none is missing.  That holds wherever in the batch    *)
(* the session begins.                                                     *)
(***************************************************************************)
EXTENDS DataFetch, FiniteSetTheorems, TLAPS

-----------------------------------------------------------------------------
(* The invariant.                                                          *)

\* The files of a batch follow each other.
FilesInv ==
    /\ \A i \in 1..Len(files) : files[i].start <= files[i].last
    /\ \A i \in 1..(Len(files) - 1) : files[i + 1].start = files[i].last + 1
    /\ files # <<>> => files[1].start = 0

\* How far the two sides are.
Where ==
    /\ client = "idle" <=> server = "none"
    /\ server \in {"none", "list"} => wire = <<>> /\ acks = <<>> /\ session = <<>> /\ ~stalled
    /\ server # "none" => offset = IF have = <<>> THEN 0 ELSE have[Len(have)]
    /\ server \notin {"none", "list"} => index <= listed + 1
    /\ server = "sending" => /\ index > 1 /\ rest.last = files[index - 1].last
                             /\ offset <= rest.first /\ files[index - 1].start <= rest.first

\* The messages on the wire follow each other.
WireInv ==
    /\ \A i, j \in 1..Len(wire) : i < j /\ wire[j].type = "data" => wire[i].type = "data"
    /\ \A i \in 1..(Len(wire) - 1) : wire[i + 1].type = "data" => wire[i + 1].first = wire[i].last + 1
    /\ \A i \in 1..Len(wire) :
          /\ wire[i].type = "data" => offset <= wire[i].first /\ wire[i].first <= wire[i].last /\ wire[i].file < index
          /\ server \in {"next", "sending"} => wire[i].type = "data"
          /\ wire[i].type = "stop" => server = "stopped"

\* What has been delivered is in order.
Delivered ==
    /\ \A i \in 1..(Len(have) - 1) : have[i] < have[i + 1]
    /\ \A i \in 1..(Len(session) - 1) :
          session[i] < session[i + 1] /\ (~stalled => session[i + 1] = session[i] + 1)
    /\ have # <<>> => \A i \in 1..Len(session) : have[Len(have)] < session[i]

\* The session has what comes before n; all of it, if the reader has not stalled.
Before(n) ==
    session # <<>> =>
       session[Len(session)] < n /\ (~stalled => session[Len(session)] + 1 = n)

\* The wire goes on where the session is, and the server where the wire ends.
WireFollows == wire # <<>> /\ wire[1].type = "data" => Before(wire[1].first)
ServerFollows ==
    server \in {"next", "sending"} /\ (wire # <<>> \/ session # <<>>) =>
       LET n == IF server = "sending" /\ rest.first <= rest.last
                THEN rest.first ELSE files[index - 1].last + 1
       IN  index > 1 /\ IF wire = <<>> THEN Before(n) ELSE wire[Len(wire)].last + 1 = n

\* Of the current file at most one chunk is on its way, or its acknowledgement; when
\* it is not the file's first one, nothing of the file before is.
Paces ==
    /\ \A i \in 1..Len(acks) : acks[i] < index
    /\ \A i \in 1..Len(wire) : wire[i].type = "data" => i <= 2
    /\ server = "next" => Len(wire) <= 1
    /\ server = "sending" =>
          LET first == Records(files[index - 1], offset).first
          IN  /\ rest.first = first =>
                    /\ ~paused /\ Len(wire) <= 1
                    /\ \A i \in 1..Len(wire) : wire[i].file # index - 1
                    /\ \A i \in 1..Len(acks) : acks[i] # index - 1
              /\ rest.first # first =>
                    /\ rest.first >= first + ChunkSize
                    /\ rest.first > first + ChunkSize => Len(wire) <= 1
                    /\ \A i \in 1..Len(wire) : wire[i].file = index - 1 => i = Len(wire)
                    /\ \A i \in 1..Len(acks) : acks[i] = index - 1 => i = Len(acks) /\ wire = <<>>
                    /\ ~paused => wire = <<>> /\ \A i \in 1..Len(acks) : acks[i] # index - 1

\* A record from n on is with the client or on its way.
Reaches(n) ==
    \/ \E i \in 1..Len(wire) : wire[i].type = "data" /\ wire[i].last >= n
    \/ \E i \in 1..Len(session) : session[i] >= n
    \/ \E i \in 1..Len(have) : have[i] >= n

\* What has been read is with the client or on its way.
Complete ==
    readErrors = 0 /\ ~stalled /\ listed > 0 =>
       /\ server = "sending" /\ rest.first > rest.last => Reaches(files[index - 1].last)
       /\ server = "next" /\ index = listed + 1 => Reaches(files[listed].last)
       /\ server \in {"stopping", "stopped"} => index = listed + 1 /\ Reaches(files[listed].last)

Inv ==
    /\ TypeOK /\ FilesInv /\ Where /\ WireInv /\ Delivered
    /\ WireFollows /\ ServerFollows /\ Paces /\ Complete

-----------------------------------------------------------------------------
(* Sequences and messages.                                                 *)

\* The elements of a sequence, and a sequence by its elements.
LEMMA ElementFact ==
    ASSUME NEW S
    PROVE  /\ \A s \in Seq(S) : Len(s) \in Nat /\ DOMAIN s = 1..Len(s) /\ \A i \in 1..Len(s) : s[i] \in S
           /\ \A n \in Nat : \A s \in [1..n -> S] : s \in Seq(S) /\ Len(s) = n
           /\ \A s \in Seq(S) : s = <<>> <=> Len(s) = 0
OBVIOUS

\* The tail of a sequence.
LEMMA TailFact ==
    ASSUME NEW S, NEW s \in Seq(S), s # <<>>
    PROVE  /\ Tail(s) \in Seq(S) /\ Len(Tail(s)) = Len(s) - 1 /\ Len(s) \in Nat \ {0} /\ Head(s) = s[1] /\ s[1] \in S
           /\ \A i \in 1..Len(Tail(s)) : Tail(s)[i] = s[i + 1] /\ i + 1 \in 1..Len(s)
           /\ Tail(s) = <<>> <=> Len(s) = 1
<1>1. Len(s) \in Nat \ {0} /\ s[1] \in S
  OBVIOUS
<1>2. Tail(s) \in Seq(S) /\ Len(Tail(s)) = Len(s) - 1
  BY <1>1
<1>3. ASSUME NEW i \in 1..(Len(s) - 1) PROVE Tail(s)[i] = s[i + 1] /\ i + 1 \in 1..Len(s)
  BY <1>1
<1>4. Head(s) = s[1]
  OBVIOUS
<1>5. Tail(s) = <<>> <=> Len(Tail(s)) = 0
  BY <1>2, ElementFact
<1> QED BY <1>1, <1>2, <1>3, <1>4, <1>5

\* A sequence with one more element.
LEMMA AppendFact ==
    ASSUME NEW S, NEW s \in Seq(S), NEW m \in S
    PROVE  /\ Append(s, m) \in Seq(S) /\ Len(Append(s, m)) = Len(s) + 1 /\ Len(s) \in Nat /\ Append(s, m) # <<>>
           /\ Append(s, m)[Len(s) + 1] = m
           /\ \A i \in 1..Len(s) : Append(s, m)[i] = s[i]
OBVIOUS

\* Two sequences in turn.
LEMMA ConcatFact ==
    ASSUME NEW S, NEW s \in Seq(S), NEW t \in Seq(S)
    PROVE  /\ s \o t \in Seq(S) /\ Len(s \o t) = Len(s) + Len(t) /\ Len(s) \in Nat /\ Len(t) \in Nat
           /\ \A i \in 1..Len(s) : (s \o t)[i] = s[i]
           /\ \A i \in 1..Len(t) : (s \o t)[Len(s) + i] = t[i]
           /\ \A i \in 1..Len(s \o t) : i > Len(s) => i - Len(s) \in 1..Len(t) /\ (s \o t)[i] = t[i - Len(s)]
           /\ s # <<>> <=> Len(s) > 0
OBVIOUS

\* A message has what its type says.
LEMMA MessageFact ==
    /\ \A m \in Message : m.type = "data" => m.file \in Nat /\ m.first \in Offsets /\ m.last \in Offsets
    /\ \A m \in Message : m.type \in {"data", "error", "stop"}
    /\ \A file \in Nat, first, last \in Offsets :
          [type |-> "data", file |-> file, first |-> first, last |-> last] \in Message
    /\ [type |-> "error"] \in Message /\ [type |-> "stop"] \in Message
BY DEF Message

\* The numbers that the types are about.
LEMMA NumberFact ==
    ASSUME TypeOK
    PROVE  /\ Offsets \subseteq Nat /\ MaxOffset \in Nat /\ ChunkSize \in Nat \ {0}
           /\ Len(files) \in Nat /\ Len(wire) \in Nat /\ Len(session) \in Nat /\ Len(have) \in Nat /\ Len(acks) \in Nat
           /\ \A i \in 1..Len(files) : /\ files[i].start \in Nat /\ files[i].last \in Nat /\ files[i].closed \in BOOLEAN
                                       /\ files[i].start \in Offsets /\ files[i].last \in Offsets
           /\ \A i \in 1..Len(session) : session[i] \in Nat /\ session[i] \in Offsets
           /\ \A i \in 1..Len(have) : have[i] \in Nat /\ have[i] \in Offsets
           /\ \A i \in 1..Len(acks) : acks[i] \in Nat
           /\ \A i \in 1..Len(wire) : wire[i] \in Message
           /\ listed \in Nat /\ listed <= Len(files) /\ index \in Nat /\ index >= 1 /\ offset \in Nat
           /\ rest.first \in Nat /\ rest.last \in Nat
<1>1. Offsets \subseteq Nat /\ MaxOffset \in Nat /\ ChunkSize \in Nat \ {0}
  BY FetchAssumption DEF Offsets
<1>2. /\ files \in Seq([start : Offsets, last : Offsets, closed : BOOLEAN]) /\ wire \in Seq(Message)
      /\ session \in Seq(Offsets) /\ have \in Seq(Offsets) /\ acks \in Seq(Nat) /\ listed \in 0..Len(files)
      /\ index \in Nat \ {0} /\ offset \in Offsets /\ rest \in Unsent
  BY DEF TypeOK
<1>3. ASSUME NEW i \in 1..Len(files) PROVE files[i] \in [start : Offsets, last : Offsets, closed : BOOLEAN]
  BY <1>2, ElementFact
<1>4. rest.first \in Nat /\ rest.last \in Nat
  BY <1>2 DEF Unsent
<1>5. \A i \in 1..Len(wire) : wire[i] \in Message
  BY <1>2
<1>6. /\ Len(files) \in Nat /\ Len(wire) \in Nat /\ Len(session) \in Nat /\ Len(have) \in Nat /\ Len(acks) \in Nat
      /\ listed \in Nat /\ listed <= Len(files) /\ index \in Nat /\ index >= 1
  BY <1>2
<1>7. /\ \A i \in 1..Len(session) : session[i] \in Offsets
      /\ \A i \in 1..Len(have) : have[i] \in Offsets
      /\ \A i \in 1..Len(acks) : acks[i] \in Nat
  BY <1>2
<1>8. offset \in Nat
  BY <1>1, <1>2
<1> HIDE DEF Offsets
<1> QED BY <1>1, <1>3, <1>4, <1>5, <1>6, <1>7, <1>8

-----------------------------------------------------------------------------
(* Uploads.                                                                *)

\* What has been written stays.
FilesStay ==
    /\ files' \in Seq([start : Offsets, last : Offsets, closed : BOOLEAN])
    /\ Len(files) <= Len(files')
    /\ \A i \in 1..Len(files) : files'[i].start = files[i].start /\ files'[i].last = files[i].last

\* A session does not see that the batch grows.
LEMMA GrowStep ==
    ASSUME Inv, FilesStay, FilesInv', UNCHANGED <<fetchVars, clientVars, readErrors>>
    PROVE  Inv'
<1>1. /\ UNCHANGED <<server, listed, index, rest, paused, wire, acks, offset, client, session, stalled, have,
                     sessions, readErrors>>
  BY DEF fetchVars, clientVars
<1>2. /\ listed \in 0..Len(files) /\ Len(files) \in Nat /\ Len(files') \in Nat /\ listed <= Len(files')
      /\ index \in Nat /\ index >= 1
  BY NumberFact DEF Inv, TypeOK, FilesStay
<1>3. \A i \in 1..listed : files'[i].start = files[i].start /\ files'[i].last = files[i].last
  BY <1>2 DEF FilesStay
<1>4. TypeOK'
  BY <1>1, <1>2 DEF Inv, TypeOK, FilesStay, Message, Offsets, Unsent
<1>5. Where'
  BY <1>1, <1>2, <1>3 DEF Inv, Where
<1>6. WireInv' /\ Delivered' /\ WireFollows'
  BY <1>1 DEF Inv, WireInv, Delivered, WireFollows, Before
<1>7. server \in {"next", "sending"} /\ index > 1 => files'[index - 1].last = files[index - 1].last /\ files'[index - 1].start = files[index - 1].start
  <2>1. server \in {"next", "sending"} => index <= listed + 1
    BY DEF Inv, Where
  <2> QED BY <1>2, <1>3, <2>1
<1>8. ServerFollows'
  BY <1>1, <1>7 DEF Inv, ServerFollows, Before
<1>9. Paces'
  <2>1. server = "sending" => Records(files'[index - 1], offset).first = Records(files[index - 1], offset).first
    BY <1>7 DEF Inv, Where, Records
  <2> QED BY <1>1, <2>1 DEF Inv, Paces
<1>10. Complete'
  <2>1. listed > 0 => files'[listed].last = files[listed].last
    BY <1>2, <1>3
  <2>2. server = "sending" => files'[index - 1].last = files[index - 1].last
    BY <1>7 DEF Inv, Where
  <2> QED BY <1>1, <2>1, <2>2 DEF Inv, Complete, Reaches
<1> QED BY <1>4, <1>5, <1>6, <1>8, <1>9, <1>10 DEF Inv

LEMMA BeginUploadStep == Inv /\ BeginUpload => Inv'
<1> SUFFICES ASSUME Inv, BeginUpload PROVE Inv'
  OBVIOUS
<1>1. PICK last \in NextOffset..MaxOffset :
         files' = Append(files, [start |-> NextOffset, last |-> last, closed |-> FALSE])
  BY DEF BeginUpload
<1> DEFINE f == [start |-> NextOffset, last |-> last, closed |-> FALSE]
           F == [start : Offsets, last : Offsets, closed : BOOLEAN]
<1>2. /\ TypeOK /\ FilesInv /\ files \in Seq(F) /\ NextOffset \in Offsets
      /\ UNCHANGED <<fetchVars, clientVars, readErrors>>
  BY DEF Inv, TypeOK, BeginUpload
<1>3. NextOffset \in Nat /\ last \in Offsets /\ last \in Nat /\ NextOffset <= last
  BY <1>1, <1>2, NumberFact DEF Offsets
<1>4. f \in F /\ f.start = NextOffset /\ f.last = last
  BY <1>2, <1>3
<1>5. files' = Append(files, f)
  BY <1>1
<1> HIDE DEF f, F
<1>6. /\ files' \in Seq(F) /\ Len(files') = Len(files) + 1 /\ Len(files) \in Nat /\ files' # <<>>
      /\ files'[Len(files) + 1] = f /\ \A i \in 1..Len(files) : files'[i] = files[i]
  BY <1>2, <1>4, <1>5, AppendFact
<1>7. FilesStay
  BY <1>6 DEF FilesStay, F
<1>8. FilesInv'
  <2>1. \A i \in 1..Len(files') : files'[i].start <= files'[i].last
    BY <1>2, <1>3, <1>4, <1>6 DEF FilesInv
  <2>2. ASSUME NEW i \in 1..(Len(files') - 1) PROVE files'[i + 1].start = files'[i].last + 1
    <3>1. CASE i = Len(files)
      <4>1. files # <<>>
        BY <1>6, <3>1
      <4> QED BY <1>4, <1>6, <3>1, <4>1 DEF NextOffset
    <3>2. CASE i \in 1..(Len(files) - 1)
      BY <1>2, <1>6, <3>2 DEF FilesInv
    <3> QED BY <1>6, <3>1, <3>2
  <2>3. files'[1].start = 0
    <3>1. CASE files = <<>>
      BY <1>4, <1>6, <3>1 DEF NextOffset
    <3>2. CASE files # <<>>
      <4>1. 1 \in 1..Len(files)
        BY <1>2, <3>2
      <4> QED BY <1>2, <1>6, <3>2, <4>1 DEF FilesInv
    <3> QED BY <3>1, <3>2
  <2> QED BY <2>1, <2>2, <2>3 DEF FilesInv
<1> QED BY <1>2, <1>7, <1>8, GrowStep

LEMMA EndUploadStep == Inv /\ EndUpload => Inv'
<1> SUFFICES ASSUME Inv, EndUpload PROVE Inv'
  OBVIOUS
<1> DEFINE F == [start : Offsets, last : Offsets, closed : BOOLEAN]
<1>1. /\ files \in Seq(F) /\ files # <<>> /\ files' = [files EXCEPT ![Len(files)].closed = TRUE]
      /\ UNCHANGED <<fetchVars, clientVars, readErrors>> /\ FilesInv
  BY DEF Inv, TypeOK, EndUpload
<1>2. /\ Len(files) \in Nat /\ Len(files) \in DOMAIN files /\ DOMAIN files = 1..Len(files)
      /\ \A i \in 1..Len(files) : files[i] \in F
  <2> HIDE DEF F
  <2>1. Len(files) \in Nat /\ DOMAIN files = 1..Len(files) /\ \A i \in 1..Len(files) : files[i] \in F
    BY <1>1, ElementFact
  <2> QED BY <1>1, <2>1
<1>3. \A i \in 1..Len(files) : files'[i] = IF i = Len(files) THEN [files[i] EXCEPT !.closed = TRUE] ELSE files[i]
  BY <1>1, <1>2
<1>4. \A i \in 1..Len(files) : files'[i] \in F /\ files'[i].start = files[i].start /\ files'[i].last = files[i].last
  BY <1>2, <1>3
<1>5. files' \in Seq(F) /\ Len(files') = Len(files) /\ files' # <<>>
  <2>1. DOMAIN files' = 1..Len(files) /\ files' = [i \in 1..Len(files) |-> files'[i]]
    BY <1>1, <1>2
  <2>2. Len(files) > 0
    BY <1>1, <1>2
  <2> HIDE DEF F
  <2>3. files' \in [1..Len(files) -> F]
    BY <1>4, <2>1
  <2>4. files' \in Seq(F) /\ Len(files') = Len(files)
    BY <1>2, <2>3, ElementFact
  <2> QED BY <2>2, <2>4
<1>6. FilesStay
  BY <1>2, <1>4, <1>5 DEF FilesStay
<1>7. FilesInv'
  <2>1. files'[1].start = 0 /\ 1 \in 1..Len(files)
    BY <1>1, <1>2, <1>4 DEF FilesInv
  <2>2. ASSUME NEW i \in 1..(Len(files) - 1) PROVE files'[i + 1].start = files'[i].last + 1
    <3>1. i \in 1..Len(files) /\ i + 1 \in 1..Len(files)
      BY <1>2
    <3> QED BY <1>1, <1>4, <3>1 DEF FilesInv
  <2>3. \A i \in 1..Len(files) : files'[i].start <= files'[i].last
    BY <1>1, <1>4 DEF FilesInv
  <2> QED BY <1>5, <2>1, <2>2, <2>3 DEF FilesInv
<1> QED BY <1>1, <1>6, <1>7, GrowStep

-----------------------------------------------------------------------------
(* The server.                                                             *)

\* A session begins.
LEMMA OpenChannelStep == Inv /\ OpenChannel => Inv'
<1> SUFFICES ASSUME Inv, OpenChannel PROVE Inv'
  OBVIOUS
<1>1. /\ client = "idle" /\ client' = "reading" /\ server' = "list" /\ session' = <<>>
      /\ offset' = (IF have = <<>> THEN 0 ELSE have[Len(have)])
      /\ sessions < MaxSessions /\ sessions' = sessions + 1
      /\ UNCHANGED <<files, listed, index, rest, paused, wire, acks, stalled, have, readErrors>>
  BY DEF OpenChannel
<1>2. server = "none" /\ wire = <<>> /\ acks = <<>> /\ ~stalled
  BY <1>1 DEF Inv, Where
<1>3. offset' \in Offsets
  <2>1. have # <<>> => Len(have) \in 1..Len(have)
    BY ElementFact DEF Inv, TypeOK
  <2>2. have # <<>> => have[Len(have)] \in Offsets
    BY <2>1, NumberFact DEF Inv
  <2>3. 0 \in Offsets
    BY FetchAssumption DEF Offsets
  <2> QED BY <1>1, <2>2, <2>3
<1>4. TypeOK'
  <2>1. sessions' \in 0..MaxSessions
    BY <1>1, FetchAssumption DEF Inv, TypeOK
  <2> QED BY <1>1, <1>3, <2>1 DEF Inv, TypeOK, Message, Offsets, Unsent
<1>5. FilesInv' /\ Where' /\ WireInv' /\ Delivered'
  BY <1>1, <1>2 DEF Inv, FilesInv, Where, WireInv, Delivered
<1>6. WireFollows' /\ ServerFollows' /\ Paces' /\ Complete'
  BY <1>1, <1>2 DEF WireFollows, ServerFollows, Paces, Complete
<1> QED BY <1>4, <1>5, <1>6 DEF Inv

\* The files that are listed, and the one it begins with.
LEMMA ListFact ==
    ASSUME Inv, NEW n, n = Cardinality(Visible)
    PROVE  /\ n \in 0..Len(files) /\ FirstIndex(n, offset) \in 1..(n + 1)
           /\ n \in Nat /\ FirstIndex(n, offset) <= n + 1
           /\ n > 0 => FirstIndex(n, offset) <= n
<1>1. Len(files) \in Nat /\ DOMAIN files = 1..Len(files) /\ offset \in Nat
  BY NumberFact, ElementFact DEF Inv, TypeOK
<1>2. \A a, b \in Nat : IsFiniteSet(a..b) /\ Cardinality(a..b) = IF a > b THEN 0 ELSE b - a + 1
  BY FS_Interval
<1>3. n \in 0..Len(files)
  <2>1. Visible \subseteq 1..Len(files)
    BY <1>1 DEF Visible
  <2>2. Cardinality(Visible) <= Cardinality(1..Len(files)) /\ IsFiniteSet(Visible)
    BY <1>1, <1>2, <2>1, FS_Subset
  <2>3. Cardinality(Visible) \in Nat
    BY <2>2, FS_CardinalityType
  <2>4. Cardinality(1..Len(files)) = Len(files)
    BY <1>1, <1>2
  <2> QED BY <1>1, <2>2, <2>3, <2>4
<1>4. CASE offset = 0
  BY <1>1, <1>3, <1>4 DEF FirstIndex
<1>5. CASE offset # 0
  <2> DEFINE S == {i \in 1..n : files[i].start >= offset}
  <2>1. S \subseteq 2..n
    <3>1. files # <<>> => files[1].start = 0
      BY DEF Inv, FilesInv
    <3>2. n > 0 => files # <<>>
      BY <1>1, <1>3, ElementFact DEF Inv, TypeOK
    <3> QED BY <1>1, <1>3, <1>5, <3>1, <3>2
  <2>4. n \in Nat /\ IsFiniteSet(2..n) /\ Cardinality(2..n) = IF 2 > n THEN 0 ELSE n - 2 + 1
    <3>1. n \in Nat /\ 2 \in Nat
      BY <1>1, <1>3
    <3> QED BY <1>2, <3>1
  <2>5. FirstIndex(n, offset) = Cardinality(S) + 1
    BY <1>5 DEF FirstIndex
  <2> HIDE DEF S
  <2>2. Cardinality(S) <= Cardinality(2..n) /\ IsFiniteSet(S)
    BY <2>1, <2>4, FS_Subset
  <2>3. Cardinality(S) \in Nat
    BY <2>2, FS_CardinalityType
  <2> QED BY <1>1, <1>3, <2>2, <2>3, <2>4, <2>5
<1> QED BY <1>4, <1>5

LEMMA ListFilesStep == Inv /\ ListFiles => Inv'
<1> SUFFICES ASSUME Inv, ListFiles PROVE Inv'
  OBVIOUS
<1>1. /\ server = "list" /\ server' = "next" /\ listed' = Cardinality(Visible)
      /\ index' = FirstIndex(listed', offset)
      /\ UNCHANGED <<files, rest, paused, wire, acks, offset, client, session, stalled, have, sessions, readErrors>>
  BY DEF ListFiles, clientVars
<1>2. wire = <<>> /\ acks = <<>> /\ session = <<>> /\ ~stalled
  BY <1>1 DEF Inv, Where
<1>3. /\ listed' \in 0..Len(files) /\ index' \in 1..(listed' + 1) /\ (listed' > 0 => index' <= listed')
      /\ index' <= listed' + 1
  BY <1>1, ListFact
<1>4. listed' \in Nat /\ index' \in Nat \ {0}
  BY <1>3, NumberFact DEF Inv
<1>5. TypeOK'
  BY <1>1, <1>3, <1>4 DEF Inv, TypeOK, Message, Offsets, Unsent
<1>6. FilesInv' /\ Where' /\ WireInv' /\ Delivered'
  <2>1. index' <= listed' + 1
    BY <1>3
  <2>2. FilesInv' /\ Delivered'
    BY <1>1 DEF Inv, FilesInv, Delivered
  <2>3. Where'
    BY <1>1, <1>2, <2>1 DEF Inv, Where
  <2>4. Len(wire) = 0 /\ 1..0 = {}
    BY <1>2
  <2>5. WireInv'
    BY <1>1, <2>4 DEF WireInv
  <2> QED BY <2>2, <2>3, <2>5
<1>7. WireFollows' /\ ServerFollows' /\ Paces'
  BY <1>1, <1>2, ElementFact DEF WireFollows, ServerFollows, Paces, Inv, TypeOK
<1>8. Complete'
  BY <1>1, <1>3, <1>4 DEF Complete
<1> QED BY <1>5, <1>6, <1>7, <1>8 DEF Inv

\* Steps of the server that leave the rest, the wire and the session as they are.
LEMMA OpenPartialFileStep == Inv /\ OpenPartialFile => Inv'
<1> SUFFICES ASSUME Inv, OpenPartialFile PROVE Inv'
  OBVIOUS
<1>1. /\ server = "next" /\ server' = "down"
      /\ UNCHANGED <<files, listed, index, rest, paused, wire, acks, offset, client, session, stalled, have, sessions, readErrors>>
  BY DEF OpenPartialFile, clientVars
<1>2. TypeOK' /\ FilesInv' /\ Where' /\ Delivered'
  BY <1>1 DEF Inv, TypeOK, FilesInv, Where, Delivered, Message, Offsets, Unsent
<1>3. WireInv'
  BY <1>1, MessageFact, NumberFact DEF Inv, WireInv
<1>4. WireFollows' /\ ServerFollows' /\ Paces' /\ Complete'
  BY <1>1 DEF Inv, WireFollows, ServerFollows, Paces, Complete, Before
<1> QED BY <1>2, <1>3, <1>4 DEF Inv

LEMMA NoMoreFilesStep == Inv /\ NoMoreFiles => Inv'
<1> SUFFICES ASSUME Inv, NoMoreFiles PROVE Inv'
  OBVIOUS
<1>1. /\ server = "next" /\ server' = "stopping" /\ index > listed
      /\ UNCHANGED <<files, listed, index, rest, paused, wire, acks, offset, client, session, stalled, have, sessions, readErrors>>
  BY DEF NoMoreFiles, clientVars
<1>2. TypeOK' /\ FilesInv' /\ Where' /\ Delivered'
  BY <1>1 DEF Inv, TypeOK, FilesInv, Where, Delivered, Message, Offsets, Unsent
<1>3. WireInv'
  BY <1>1, MessageFact, NumberFact DEF Inv, WireInv
<1>4. WireFollows' /\ ServerFollows' /\ Paces'
  BY <1>1 DEF Inv, WireFollows, ServerFollows, Paces, Before
<1>5. index = listed + 1
  BY <1>1, NumberFact DEF Inv, Where
<1>6. Complete'
  BY <1>1, <1>5 DEF Inv, Complete, Reaches
<1> QED BY <1>2, <1>3, <1>4, <1>6 DEF Inv

LEMMA EndOfFileStep == Inv /\ EndOfFile => Inv'
<1> SUFFICES ASSUME Inv, EndOfFile PROVE Inv'
  OBVIOUS
<1> DEFINE r == Records(files[index - 1], offset)
<1>1. /\ server = "sending" /\ server' = "next" /\ rest.first > rest.last
      /\ ~paused \/ r.last - r.first >= ChunkSize
      /\ UNCHANGED <<files, listed, index, rest, paused, wire, acks, offset, client, session, stalled, have, sessions, readErrors>>
  BY DEF EndOfFile, clientVars
<1>2. /\ index > 1 /\ rest.last = files[index - 1].last /\ index <= listed + 1
  BY <1>1 DEF Inv, Where
<1>3. /\ index - 1 \in 1..Len(files) /\ r.last = files[index - 1].last /\ r.last \in Nat /\ r.first \in Nat
      /\ (index = listed + 1 => index - 1 = listed)
  <2>1. index \in Nat /\ listed \in Nat /\ Len(files) \in Nat /\ listed <= Len(files) /\ offset \in Nat
    BY NumberFact DEF Inv
  <2>2. index - 1 \in 1..Len(files) /\ (index = listed + 1 => index - 1 = listed)
    BY <1>2, <2>1
  <2>3. files[index - 1].start \in Nat /\ files[index - 1].last \in Nat
    BY <2>2, NumberFact DEF Inv
  <2> QED BY <2>1, <2>2, <2>3 DEF Records
<1>4. TypeOK' /\ FilesInv' /\ Where' /\ Delivered'
  BY <1>1 DEF Inv, TypeOK, FilesInv, Where, Delivered, Message, Offsets, Unsent
<1>5. WireInv' /\ WireFollows'
  BY <1>1 DEF Inv, WireInv, WireFollows, Before
<1>6. ServerFollows'
  <2>1. ~(rest.first <= rest.last)
    <3>1. rest.first \in Nat /\ rest.last \in Nat
      BY NumberFact DEF Inv
    <3> QED BY <1>1, <3>1
  <2> QED BY <1>1, <2>1 DEF Inv, ServerFollows, Before
<1>7. Paces'
  <2>1. /\ \A i \in 1..Len(acks) : acks[i] < index
        /\ \A i \in 1..Len(wire) : wire[i].type = "data" => i <= 2
        /\ rest.first = r.first => Len(wire) <= 1
        /\ rest.first # r.first => /\ rest.first > r.first + ChunkSize => Len(wire) <= 1
                                   /\ ~paused => wire = <<>>
    BY <1>1 DEF Inv, Paces
  <2>2. wire = <<>> => Len(wire) <= 1
    OBVIOUS
  <2>3. paused => rest.first > r.first + ChunkSize
    <3>1. rest.first \in Nat /\ rest.last \in Nat /\ ChunkSize \in Nat
      BY NumberFact DEF Inv
    <3>2. rest.last = r.last
      BY <1>2, <1>3
    <3> HIDE DEF r
    <3> QED BY <1>1, <1>3, <3>1, <3>2
  <2>4. Len(wire) <= 1
    BY <2>1, <2>2, <2>3
  <2> QED BY <1>1, <2>1, <2>4 DEF Paces
<1>8. Complete'
  BY <1>1, <1>2, <1>3 DEF Inv, Complete, Reaches
<1> QED BY <1>4, <1>5, <1>6, <1>7, <1>8 DEF Inv

LEMMA OpenFileStep == Inv /\ OpenFile => Inv'
<1> SUFFICES ASSUME Inv, OpenFile PROVE Inv'
  OBVIOUS
<1> DEFINE r == Records(files[index], offset)
<1>1. /\ server = "next" /\ server' = "sending" /\ index <= listed /\ index' = index + 1
      /\ rest' = r /\ paused' = FALSE
      /\ UNCHANGED <<files, listed, wire, acks, offset, client, session, stalled, have, sessions, readErrors>>
  BY DEF OpenFile, clientVars
<1>2. /\ index \in 1..Len(files) /\ index' - 1 = index /\ index \in Nat /\ listed \in Nat
      /\ files[index].start \in Nat /\ files[index].last \in Nat /\ offset \in Nat
  <2>1. index \in Nat /\ listed \in Nat /\ Len(files) \in Nat /\ listed <= Len(files) /\ index >= 1 /\ offset \in Nat
    BY NumberFact DEF Inv
  <2>2. index \in 1..Len(files) /\ index' - 1 = index
    BY <1>1, <2>1
  <2> QED BY <2>1, <2>2, NumberFact DEF Inv
<1>3. /\ r \in Unsent /\ r.last = files[index].last /\ offset <= r.first /\ files[index].start <= r.first
      /\ r.first = (IF files[index].start < offset THEN offset ELSE files[index].start)
  BY <1>2 DEF Records, Unsent
<1> HIDE DEF r
<1>4. TypeOK'
  <2>1. index' \in Nat \ {0}
    BY <1>1, <1>2
  <2>2. rest' \in Unsent
    BY <1>1, <1>3
  <2>3. paused' \in BOOLEAN
    BY <1>1
  <2> QED BY <1>1, <2>1, <2>2, <2>3 DEF Inv, TypeOK, Message, Offsets
<1>5. FilesInv' /\ Delivered' /\ WireFollows'
  <2>1. UNCHANGED <<files, wire, session, have, stalled>>
    BY <1>1
  <2> QED BY <2>1 DEF Inv, FilesInv, Delivered, WireFollows, Before
<1>6. Where'
  BY <1>1, <1>2, <1>3 DEF Inv, Where
<1>7. WireInv'
  <2>1. ASSUME NEW i \in 1..Len(wire) PROVE wire[i].type = "data" /\ wire[i].file < index + 1
    <3>1. wire[i].type = "data" /\ wire[i].file < index
      BY <1>1 DEF Inv, WireInv
    <3>2. wire[i] \in Message
      BY NumberFact DEF Inv
    <3>3. wire[i].file \in Nat
      BY <3>1, <3>2, MessageFact
    <3> QED BY <1>2, <3>1, <3>3
  <2> QED BY <1>1, <2>1 DEF Inv, WireInv
<1>8. ServerFollows'
  <2>1. SUFFICES ASSUME wire # <<>> \/ session # <<>>
                 PROVE  LET n == IF r.first <= r.last THEN r.first ELSE files[index].last + 1
                        IN  IF wire = <<>> THEN Before(n) ELSE wire[Len(wire)].last + 1 = n
    BY <1>1, <1>2 DEF ServerFollows, Before
  <2>2. /\ index > 1
        /\ IF wire = <<>> THEN Before(files[index - 1].last + 1) ELSE wire[Len(wire)].last + 1 = files[index - 1].last + 1
    BY <1>1, <2>1 DEF Inv, ServerFollows
  <2>3. /\ index - 1 \in 1..Len(files) /\ files[index - 1].last \in Nat /\ files[index].start = files[index - 1].last + 1
        /\ files[index].start <= files[index].last
    <3>1. index - 1 \in 1..(Len(files) - 1) /\ index - 1 \in 1..Len(files) /\ (index - 1) + 1 = index
      BY <1>2, <2>2, NumberFact DEF Inv
    <3> QED BY <1>2, <3>1, NumberFact DEF Inv, FilesInv
  <2>4. offset < files[index].start
    <3>1. CASE wire # <<>>
      <4>1. Len(wire) \in 1..Len(wire) /\ wire[Len(wire)] \in Message
        BY <3>1, ElementFact, NumberFact DEF Inv, TypeOK
      <4>2. offset <= wire[Len(wire)].first /\ wire[Len(wire)].first <= wire[Len(wire)].last
        BY <1>1, <4>1 DEF Inv, WireInv
      <4>3. wire[Len(wire)].first \in Nat /\ wire[Len(wire)].last \in Nat
        BY <1>1, <4>1, MessageFact, NumberFact DEF Inv, WireInv
      <4> QED BY <1>2, <2>2, <2>3, <3>1, <4>2, <4>3
    <3>2. CASE wire = <<>>
      <4>1. Len(session) \in 1..Len(session) /\ session[Len(session)] \in Nat
        BY <2>1, <3>2, ElementFact, NumberFact DEF Inv, TypeOK
      <4>2. session[Len(session)] < files[index].start
        BY <2>1, <2>2, <2>3, <3>2 DEF Before
      <4>3. offset <= session[Len(session)]
        <5>1. have # <<>> => offset < session[Len(session)]
          BY <1>1, <4>1 DEF Inv, Where, Delivered
        <5>2. have = <<>> => offset = 0
          BY <1>1 DEF Inv, Where
        <5> QED BY <1>2, <4>1, <5>1, <5>2
      <4> QED BY <1>2, <4>1, <4>2, <4>3
    <3> QED BY <3>1, <3>2
  <2>5. r.first = files[index].start /\ r.first <= r.last
    BY <1>2, <1>3, <2>3, <2>4
  <2> QED BY <2>2, <2>3, <2>5
<1>9. Paces'
  <2>1. Len(wire) <= 1 /\ (\A i \in 1..Len(acks) : acks[i] < index) /\ \A i \in 1..Len(wire) : wire[i].file < index
    BY <1>1 DEF Inv, Paces, WireInv
  <2>2. /\ \A i \in 1..Len(acks) : acks[i] < index + 1 /\ acks[i] # index
        /\ \A i \in 1..Len(wire) : wire[i].file # index /\ i <= 2
    <3>1. \A i \in 1..Len(acks) : acks[i] \in Nat
      BY NumberFact DEF Inv
    <3>2. \A i \in 1..Len(acks) : acks[i] < index + 1 /\ acks[i] # index
      BY <1>2, <2>1, <3>1
    <3>3. Len(wire) \in Nat
      BY NumberFact DEF Inv
    <3>4. \A i \in 1..Len(wire) : i <= 2
      BY <2>1, <3>3
    <3>5. ASSUME NEW i \in 1..Len(wire) PROVE wire[i].file # index
      BY <1>2, <2>1
    <3> QED BY <3>2, <3>4, <3>5
  <2>3. Records(files'[index' - 1], offset').first = rest'.first
    BY <1>1, <1>2 DEF r
  <2> QED BY <1>1, <1>2, <2>1, <2>2, <2>3 DEF Paces
<1>10. Complete'
  <2>1. ASSUME r.first > r.last PROVE Reaches(files[index].last)
    <3>1. offset > files[index].last
      <4>1. files[index].start <= files[index].last
        BY <1>2 DEF Inv, FilesInv
      <4> QED BY <1>2, <1>3, <2>1, <4>1
    <3>2. have # <<>> /\ have[Len(have)] = offset
      BY <1>1, <1>2, <3>1 DEF Inv, Where
    <3>3. Len(have) \in 1..Len(have)
      BY <3>2, ElementFact DEF Inv, TypeOK
    <3> QED BY <1>2, <3>1, <3>2, <3>3 DEF Reaches
  <2> QED BY <1>1, <1>2, <2>1 DEF Complete, Reaches
<1> QED BY <1>4, <1>5, <1>6, <1>7, <1>8, <1>9, <1>10 DEF Inv

\* What is with the client or on its way stays when a message is sent.
LEMMA SentFact ==
    ASSUME TypeOK, NEW m \in Message, wire' = Append(wire, m), UNCHANGED <<session, have>>
    PROVE  \A n : Reaches(n) => Reaches(n)'
<1>1. /\ wire \in Seq(Message)
      /\ Len(wire') = Len(wire) + 1 /\ Len(wire) \in Nat /\ \A i \in 1..Len(wire) : wire'[i] = wire[i]
  BY AppendFact DEF TypeOK
<1>2. \A i \in 1..Len(wire) : i \in 1..Len(wire')
  BY <1>1
<1> QED BY <1>1, <1>2 DEF Reaches

\* The server ends the session with a message that is no data.
LEMMA NoDataSent ==
    ASSUME Inv, NEW m \in Message, m.type # "data", wire' = Append(wire, m),
           server \in {"next", "stopping"}, server' \in {"stopping", "stopped"},
           m.type = "stop" => server' = "stopped",
           readErrors' \in 0..MaxReadErrors, Complete',
           UNCHANGED <<files, listed, index, rest, paused, acks, offset, client, session, stalled, have, sessions>>
    PROVE  Inv'
<1>1. /\ wire' \in Seq(Message) /\ Len(wire') = Len(wire) + 1 /\ Len(wire) \in Nat
      /\ wire'[Len(wire) + 1] = m /\ \A i \in 1..Len(wire) : wire'[i] = wire[i]
  BY AppendFact DEF Inv, TypeOK
<1>2. TypeOK'
  BY <1>1 DEF Inv, TypeOK, Message, Offsets, Unsent
<1>3. FilesInv' /\ Where' /\ Delivered' /\ ServerFollows'
  BY DEF Inv, FilesInv, Where, Delivered, ServerFollows
<1>4. ASSUME NEW i \in 1..Len(wire'), wire'[i].type = "data" PROVE i \in 1..Len(wire) /\ wire'[i] = wire[i]
  BY <1>1, <1>4
<1>5. WireInv'
  <2>1. ASSUME NEW i \in 1..Len(wire'), NEW j \in 1..Len(wire'), i < j, wire'[j].type = "data"
        PROVE  wire'[i].type = "data"
    <3>1. j \in 1..Len(wire) /\ wire'[j] = wire[j]
      BY <1>4, <2>1
    <3>2. i \in 1..Len(wire) /\ wire'[i] = wire[i]
      BY <1>1, <2>1, <3>1
    <3> QED BY <2>1, <3>1, <3>2 DEF Inv, WireInv
  <2>2. ASSUME NEW i \in 1..(Len(wire') - 1), wire'[i + 1].type = "data" PROVE wire'[i + 1].first = wire'[i].last + 1
    <3>1. i + 1 \in 1..Len(wire')
      BY <1>1
    <3>2. i + 1 \in 1..Len(wire) /\ wire'[i + 1] = wire[i + 1]
      BY <1>4, <2>2, <3>1
    <3>3. i \in 1..(Len(wire) - 1) /\ wire'[i] = wire[i]
      BY <1>1, <3>2
    <3> QED BY <2>2, <3>2, <3>3 DEF Inv, WireInv
  <2>3. ASSUME NEW i \in 1..Len(wire')
        PROVE  /\ wire'[i].type = "data" =>
                     offset <= wire'[i].first /\ wire'[i].first <= wire'[i].last /\ wire'[i].file < index
               /\ wire'[i].type = "stop" => server' = "stopped"
    <3>1. CASE i \in 1..Len(wire)
      BY <1>1, <3>1 DEF Inv, WireInv
    <3>2. CASE i = Len(wire) + 1
      BY <1>1, <3>2
    <3> QED BY <1>1, <3>1, <3>2
  <2> QED BY <2>1, <2>2, <2>3 DEF WireInv
<1>6. WireFollows'
  <2>1. Len(wire') > 0
    BY <1>1
  <2>2. wire'[1].type = "data" => wire # <<>> /\ wire'[1] = wire[1]
    <3>1. 1 \in 1..Len(wire')
      BY <1>1
    <3>2. 1 \in 1..Len(wire) => wire # <<>>
      OBVIOUS
    <3> QED BY <1>4, <3>1, <3>2
  <2> QED BY <2>2 DEF Inv, WireFollows, Before
<1>7. Paces'
  BY <1>4 DEF Inv, Paces
<1> QED BY <1>2, <1>3, <1>5, <1>6, <1>7 DEF Inv

LEMMA ReadFailsStep == Inv /\ ReadFails => Inv'
<1> SUFFICES ASSUME Inv, ReadFails PROVE Inv'
  OBVIOUS
<1> DEFINE m == [type |-> "error"]
<1>1. /\ server = "next" /\ server' = "stopping" /\ readErrors < MaxReadErrors /\ readErrors' = readErrors + 1
      /\ wire' = Append(wire, m)
      /\ UNCHANGED <<files, listed, index, rest, paused, acks, offset, client, session, stalled, have, sessions>>
  BY DEF ReadFails, clientVars
<1>2. readErrors' \in 0..MaxReadErrors /\ readErrors' # 0
  BY <1>1, FetchAssumption DEF Inv, TypeOK
<1>3. Complete'
  BY <1>2 DEF Complete
<1>4. m \in Message /\ m.type = "error"
  BY MessageFact
<1> HIDE DEF m
<1> QED BY <1>1, <1>2, <1>3, <1>4, NoDataSent

LEMMA SendStopStep == Inv /\ SendStop => Inv'
<1> SUFFICES ASSUME Inv, SendStop PROVE Inv'
  OBVIOUS
<1> DEFINE m == [type |-> "stop"]
<1>1. /\ server = "stopping" /\ server' = "stopped" /\ wire' = Append(wire, m)
      /\ UNCHANGED <<files, listed, index, rest, paused, acks, offset, client, session, stalled, have, sessions, readErrors>>
  BY DEF SendStop, clientVars
<1>2. m \in Message /\ m.type = "stop" /\ readErrors' \in 0..MaxReadErrors /\ TypeOK
  BY <1>1, MessageFact DEF Inv, TypeOK
<1> HIDE DEF m
<1>3. Complete'
  <2>1. \A n : Reaches(n) => Reaches(n)'
    BY <1>1, <1>2, SentFact
  <2>2. readErrors = 0 /\ ~stalled /\ listed > 0 => index = listed + 1 /\ Reaches(files[listed].last)
    BY <1>1 DEF Inv, Complete
  <2>3. readErrors = 0 /\ ~stalled /\ listed > 0 => Reaches(files[listed].last)'
    BY <1>1, <2>1, <2>2
  <2> QED BY <1>1, <2>2, <2>3 DEF Complete
<1> QED BY <1>1, <1>2, <1>3, NoDataSent

\* An acknowledgement arrives.
LEMMA AcknowledgedStep == Inv /\ Acknowledged => Inv'
<1> SUFFICES ASSUME Inv, Acknowledged PROVE Inv'
  OBVIOUS
<1>1. /\ acks # <<>> /\ acks' = Tail(acks) /\ paused' = (paused /\ Head(acks) # index - 1)
      /\ UNCHANGED <<files, server, listed, index, rest, wire, offset, client, session, stalled, have, sessions, readErrors>>
  BY DEF Acknowledged, clientVars
<1>2. /\ acks' \in Seq(Nat) /\ Len(acks') = Len(acks) - 1 /\ Len(acks) \in Nat \ {0} /\ Head(acks) = acks[1]
      /\ \A i \in 1..Len(acks') : acks'[i] = acks[i + 1] /\ i + 1 \in 1..Len(acks)
      /\ acks' = <<>> <=> Len(acks) = 1
  BY <1>1, TailFact DEF Inv, TypeOK
<1>3. paused' \in BOOLEAN
  BY <1>1
<1>4. TypeOK'
  BY <1>1, <1>2, <1>3 DEF Inv, TypeOK, Message, Offsets, Unsent
<1>5. FilesInv' /\ Delivered' /\ WireInv' /\ WireFollows' /\ ServerFollows' /\ Complete'
  BY <1>1 DEF Inv, FilesInv, Delivered, WireInv, WireFollows, ServerFollows, Complete, Reaches, Before
<1>6. Where'
  BY <1>1 DEF Inv, Where
<1>7. Paces'
  <2> DEFINE first == Records(files[index - 1], offset).first
  <2>1. \A i \in 1..Len(acks') : acks'[i] < index
    BY <1>2 DEF Inv, Paces
  <2>2. ASSUME server = "sending", rest.first = first
        PROVE  ~paused' /\ Len(wire) <= 1 /\ (\A i \in 1..Len(wire) : wire[i].file # index - 1)
               /\ \A i \in 1..Len(acks') : acks'[i] # index - 1
    <3>1. ~paused /\ Len(wire) <= 1 /\ (\A i \in 1..Len(wire) : wire[i].file # index - 1)
          /\ \A i \in 1..Len(acks) : acks[i] # index - 1
      BY <2>2 DEF Inv, Paces
    <3>2. \A i \in 1..Len(acks') : acks'[i] # index - 1
      BY <1>2, <3>1
    <3> QED BY <1>1, <3>1, <3>2
  <2>3. ASSUME server = "sending", rest.first # first
        PROVE  /\ rest.first >= first + ChunkSize
               /\ rest.first > first + ChunkSize => Len(wire) <= 1
               /\ \A i \in 1..Len(wire) : wire[i].file = index - 1 => i = Len(wire)
               /\ \A i \in 1..Len(acks') : acks'[i] = index - 1 => i = Len(acks') /\ wire = <<>>
               /\ ~paused' => wire = <<>> /\ \A i \in 1..Len(acks') : acks'[i] # index - 1
    <3>1. /\ rest.first >= first + ChunkSize
          /\ rest.first > first + ChunkSize => Len(wire) <= 1
          /\ \A i \in 1..Len(wire) : wire[i].file = index - 1 => i = Len(wire)
          /\ \A i \in 1..Len(acks) : acks[i] = index - 1 => i = Len(acks) /\ wire = <<>>
          /\ ~paused => wire = <<>> /\ \A i \in 1..Len(acks) : acks[i] # index - 1
      BY <2>3 DEF Inv, Paces
    <3>2. ASSUME NEW i \in 1..Len(acks'), acks'[i] = index - 1 PROVE i = Len(acks') /\ wire = <<>>
      <4>1. i + 1 = Len(acks) /\ wire = <<>>
        BY <1>2, <3>1, <3>2
      <4> QED BY <1>2, <4>1
    <3>3. CASE ~paused
      BY <1>2, <3>1, <3>2, <3>3
    <3>4. CASE Head(acks) = index - 1
      <4>1. Len(acks) = 1 /\ wire = <<>>
        <5>1. 1 \in 1..Len(acks)
          BY <1>2
        <5> QED BY <1>2, <3>1, <3>4, <5>1
      <4>2. 1..Len(acks') = {}
        BY <1>2, <4>1
      <4> QED BY <3>1, <4>1, <4>2
    <3>5. ~paused' => ~paused \/ Head(acks) = index - 1
      BY <1>1
    <3>6. CASE paused'
      BY <3>1, <3>2, <3>6
    <3> QED BY <3>3, <3>4, <3>5, <3>6
  <2>4. /\ \A i \in 1..Len(wire) : wire[i].type = "data" => i <= 2
        /\ server = "next" => Len(wire) <= 1
    BY DEF Inv, Paces
  <2> QED BY <1>1, <2>1, <2>2, <2>3, <2>4 DEF Paces
<1> QED BY <1>4, <1>5, <1>6, <1>7 DEF Inv

\* The chunk that is sent, and where what is left of the file begins.
LEMMA ChunkFact ==
    ASSUME TypeOK, rest.first <= rest.last
    PROVE  /\ ChunkLast(rest) \in Nat /\ rest.first <= ChunkLast(rest) /\ ChunkLast(rest) <= rest.last
           /\ rest.first + ChunkSize <= rest.last => ChunkLast(rest) + 1 = rest.first + ChunkSize
           /\ rest.first + ChunkSize > rest.last => ChunkLast(rest) = rest.last
<1>1. rest.first \in Nat /\ rest.last \in Nat /\ ChunkSize \in Nat \ {0}
  BY NumberFact
<1>2. ChunkLast(rest) = IF rest.last - rest.first >= ChunkSize THEN rest.first + ChunkSize - 1 ELSE rest.last
  BY DEF ChunkLast
<1> QED BY <1>1, <1>2

LEMMA SendChunkStep == Inv /\ SendChunk => Inv'
<1> SUFFICES ASSUME Inv, SendChunk PROVE Inv'
  OBVIOUS
<1> DEFINE L == ChunkLast(rest)
           m == [type |-> "data", file |-> index - 1, first |-> rest.first, last |-> L]
           k == Len(wire)
           start == Records(files[index - 1], offset).first
<1>1. /\ server = "sending" /\ rest.first <= rest.last /\ ~paused
      /\ wire' = Append(wire, m) /\ rest' = [rest EXCEPT !.first = @ + ChunkSize] /\ paused' = TRUE
      /\ UNCHANGED <<files, server, listed, index, acks, offset, client, session, stalled, have, sessions, readErrors>>
  BY DEF SendChunk, clientVars
<1>2. /\ L \in Nat /\ rest.first <= L /\ L <= rest.last
      /\ rest.first + ChunkSize <= rest.last => L + 1 = rest.first + ChunkSize
      /\ rest.first + ChunkSize > rest.last => L = rest.last
  BY <1>1, ChunkFact DEF Inv
<1>3. /\ index > 1 /\ rest.last = files[index - 1].last /\ offset <= rest.first /\ files[index - 1].start <= rest.first
      /\ index <= listed + 1
  BY <1>1 DEF Inv, Where
<1>4. /\ index - 1 \in 1..Len(files) /\ index - 1 \in Nat /\ index \in Nat
      /\ rest.first \in Nat /\ rest.last \in Nat /\ ChunkSize \in Nat \ {0} /\ offset \in Nat
      /\ files[index - 1].start \in Nat /\ files[index - 1].last \in Offsets /\ TypeOK
  <2>1. /\ index \in Nat /\ listed \in Nat /\ Len(files) \in Nat /\ listed <= Len(files) /\ offset \in Nat
        /\ rest.first \in Nat /\ rest.last \in Nat /\ ChunkSize \in Nat \ {0} /\ TypeOK
    BY NumberFact DEF Inv
  <2>2. index - 1 \in 1..Len(files) /\ index - 1 \in Nat
    BY <1>3, <2>1
  <2>3. files[index - 1].start \in Nat /\ files[index - 1].last \in Offsets
    BY <2>1, <2>2, NumberFact
  <2> QED BY <2>1, <2>2, <2>3
<1>5. rest.first \in Offsets /\ L \in Offsets
  <2>1. rest.last \in 0..MaxOffset /\ MaxOffset \in Nat
    BY <1>3, <1>4, FetchAssumption DEF Offsets
  <2> HIDE DEF L
  <2>2. rest.first \in 0..MaxOffset
    BY <1>1, <1>4, <2>1
  <2>3. L \in 0..MaxOffset
    BY <1>1, <1>2, <1>4, <2>1
  <2> QED BY <2>2, <2>3 DEF Offsets
<1>6. m \in Message /\ m.type = "data" /\ m.file = index - 1 /\ m.first = rest.first /\ m.last = L
  BY <1>4, <1>5, MessageFact
<1>7. start \in Nat /\ start <= rest.first
  BY <1>3, <1>4 DEF Records
<1>8. rest'.first = rest.first + ChunkSize /\ rest'.last = rest.last /\ rest' \in Unsent
  <2>1. rest = [first |-> rest.first, last |-> rest.last]
    BY <1>4 DEF TypeOK, Unsent
  <2>2. rest' = [first |-> rest.first + ChunkSize, last |-> rest.last]
    BY <1>1, <2>1
  <2> QED BY <1>4, <2>2 DEF Unsent
<1> HIDE DEF m, L, start
<1>9. /\ wire' \in Seq(Message) /\ Len(wire') = k + 1 /\ k \in Nat /\ wire'[k + 1] = m
      /\ \A i \in 1..k : wire'[i] = wire[i]
  BY <1>1, <1>6, AppendFact DEF Inv, TypeOK
<1>10. (k = 0 <=> wire = <<>>) /\ wire' # <<>>
  BY <1>9, ElementFact DEF Inv, TypeOK
<1>11. TypeOK'
  <2>1. paused' \in BOOLEAN
    BY <1>1
  <2> QED BY <1>1, <1>8, <1>9, <2>1 DEF Inv, TypeOK, Message, Offsets
<1>12. FilesInv' /\ Delivered'
  BY <1>1 DEF Inv, FilesInv, Delivered
<1>13. Where'
  BY <1>1, <1>3, <1>4, <1>8 DEF Inv, Where
<1>14. IF wire = <<>> THEN Before(rest.first) ELSE wire[k].last + 1 = rest.first
  <2>1. wire # <<>> \/ session # <<>> => IF wire = <<>> THEN Before(rest.first) ELSE wire[k].last + 1 = rest.first
    BY <1>1 DEF Inv, ServerFollows
  <2> QED BY <2>1 DEF Before
<1>15. WireInv'
  <2>1. \A i \in 1..Len(wire') : wire'[i].type = "data"
    BY <1>1, <1>6, <1>9 DEF Inv, WireInv
  <2>2. ASSUME NEW i \in 1..(Len(wire') - 1) PROVE wire'[i + 1].first = wire'[i].last + 1
    <3>1. CASE i = k
      <4>1. i \in 1..k /\ wire # <<>>
        BY <1>9, <1>10, <3>1
      <4> QED BY <1>6, <1>9, <1>14, <3>1, <4>1
    <3>2. CASE i \in 1..(k - 1)
      <4>1. i \in 1..k /\ i + 1 \in 1..k
        BY <1>9, <3>2
      <4> QED BY <1>1, <1>9, <3>2, <4>1 DEF Inv, WireInv
    <3> QED BY <1>9, <3>1, <3>2
  <2>3. ASSUME NEW i \in 1..Len(wire')
        PROVE  offset <= wire'[i].first /\ wire'[i].first <= wire'[i].last /\ wire'[i].file < index
    <3>1. CASE i \in 1..k
      BY <1>1, <1>9, <3>1 DEF Inv, WireInv
    <3>2. CASE i = k + 1
      BY <1>2, <1>3, <1>4, <1>6, <1>9, <3>2
    <3> QED BY <1>9, <3>1, <3>2
  <2>4. \A i \in 1..Len(wire') : wire'[i].type # "stop"
    BY <2>1
  <2> QED BY <1>1, <2>1, <2>2, <2>3, <2>4 DEF WireInv
<1>16. WireFollows'
  <2>1. CASE wire = <<>>
    <3>1. wire'[1] = m
      BY <1>9, <1>10, <2>1
    <3> QED BY <1>1, <1>6, <1>14, <2>1, <3>1 DEF WireFollows, Before
  <2>2. CASE wire # <<>>
    <3>1. wire'[1] = wire[1]
      BY <1>9, <1>10, <2>2
    <3> QED BY <1>1, <2>2, <3>1 DEF Inv, WireFollows, Before
  <2> QED BY <2>1, <2>2
<1>17. ServerFollows'
  <2>1. wire'[Len(wire')].last = L
    BY <1>6, <1>9
  <2>2. rest'.first <= rest'.last => L + 1 = rest'.first
    BY <1>2, <1>8
  <2>3. rest'.first > rest'.last => L + 1 = files[index - 1].last + 1
    BY <1>2, <1>3, <1>8
  <2>4. rest'.first <= rest'.last \/ rest'.first > rest'.last
    BY <1>4, <1>8
  <2> QED BY <1>1, <1>3, <1>10, <2>1, <2>2, <2>3, <2>4 DEF ServerFollows
<1>18. Paces'
  <2>1. /\ \A i \in 1..Len(acks) : acks[i] < index
        /\ \A i \in 1..k : wire[i].file # index - 1
        /\ \A i \in 1..Len(acks) : acks[i] # index - 1
        /\ k <= 1
        /\ rest.first # start => k = 0
    <3>1. CASE rest.first = start
      BY <1>1, <3>1 DEF Inv, Paces, start
    <3>2. CASE rest.first # start
      <4>1. wire = <<>> /\ \A i \in 1..Len(acks) : acks[i] # index - 1
        BY <1>1, <3>2 DEF Inv, Paces, start
      <4>2. k = 0
        BY <1>10, <4>1
      <4> QED BY <4>1, <4>2 DEF Inv, Paces
    <3> QED BY <3>1, <3>2
  <2>2. \A i \in 1..Len(wire') : i <= 2
    BY <1>9, <2>1
  <2>3. rest'.first >= start + ChunkSize /\ rest'.first # start
    BY <1>4, <1>7, <1>8
  <2>4. rest'.first > start + ChunkSize => Len(wire') <= 1
    BY <1>4, <1>7, <1>8, <1>9, <2>1
  <2>5. \A i \in 1..Len(wire') : wire'[i].file = index - 1 => i = Len(wire')
    BY <1>9, <2>1
  <2>6. Records(files'[index' - 1], offset').first = start
    BY <1>1 DEF start
  <2> QED BY <1>1, <2>1, <2>2, <2>3, <2>4, <2>5, <2>6 DEF Paces
<1>19. Complete'
  <2>1. k + 1 \in 1..Len(wire')
    BY <1>9
  <2>2. rest'.first > rest'.last => wire'[k + 1].type = "data" /\ wire'[k + 1].last >= files[index - 1].last
    BY <1>2, <1>3, <1>6, <1>8, <1>9
  <2>3. rest'.first > rest'.last => Reaches(files[index - 1].last)'
    BY <1>1, <2>1, <2>2 DEF Reaches
  <2> QED BY <1>1, <2>3 DEF Complete
<1> QED BY <1>11, <1>12, <1>13, <1>15, <1>16, <1>17, <1>18, <1>19 DEF Inv

-----------------------------------------------------------------------------
(* The client.                                                             *)

\* The message that arrives, and the wire without it.
LEMMA ArrivalFact ==
    ASSUME Inv, wire # <<>>, wire' = Tail(wire)
    PROVE  /\ wire' \in Seq(Message) /\ Len(wire') = Len(wire) - 1 /\ Len(wire) \in Nat \ {0}
           /\ Head(wire) = wire[1] /\ wire[1] \in Message /\ 1 \in 1..Len(wire)
           /\ \A i \in 1..Len(wire') : wire'[i] = wire[i + 1] /\ i + 1 \in 1..Len(wire)
           /\ wire' = <<>> <=> Len(wire) = 1
           /\ server \notin {"none", "list"}
<1>1. wire \in Seq(Message) /\ server \notin {"none", "list"}
  BY DEF Inv, TypeOK, Where
<1> QED BY <1>1, TailFact

\* The messages on the wire still follow each other.
LEMMA WireStays ==
    ASSUME Inv, wire # <<>>, wire' = Tail(wire), UNCHANGED <<server, index, offset>>
    PROVE  WireInv'
<1>1. /\ Len(wire') = Len(wire) - 1 /\ Len(wire) \in Nat \ {0}
      /\ \A i \in 1..Len(wire') : wire'[i] = wire[i + 1] /\ i + 1 \in 1..Len(wire)
  BY ArrivalFact
<1>2. ASSUME NEW i \in 1..Len(wire'), NEW j \in 1..Len(wire'), i < j, wire'[j].type = "data"
      PROVE  wire'[i].type = "data"
  <2>1. i + 1 \in 1..Len(wire) /\ j + 1 \in 1..Len(wire) /\ i + 1 < j + 1 /\ wire[j + 1].type = "data"
    BY <1>1, <1>2
  <2>2. wire[i + 1].type = "data"
    BY <2>1 DEF Inv, WireInv
  <2> QED BY <1>1, <2>2
<1>3. ASSUME NEW i \in 1..(Len(wire') - 1), wire'[i + 1].type = "data" PROVE wire'[i + 1].first = wire'[i].last + 1
  <2>1. i \in 1..Len(wire') /\ i + 1 \in 1..Len(wire') /\ i + 1 \in 1..(Len(wire) - 1)
    BY <1>1
  <2>2. wire'[i] = wire[i + 1] /\ wire'[i + 1] = wire[(i + 1) + 1]
    BY <1>1, <2>1
  <2> QED BY <1>3, <2>1, <2>2 DEF Inv, WireInv
<1>4. ASSUME NEW i \in 1..Len(wire')
      PROVE  /\ wire'[i].type = "data" =>
                   offset <= wire'[i].first /\ wire'[i].first <= wire'[i].last /\ wire'[i].file < index
             /\ server \in {"next", "sending"} => wire'[i].type = "data"
             /\ wire'[i].type = "stop" => server = "stopped"
  BY <1>1 DEF Inv, WireInv
<1> QED BY <1>2, <1>3, <1>4 DEF WireInv

\* The records t are those from the first one, or from the one after it, up to the last one.
UpTo(t, first, last) ==
    \E from \in {first, first + 1} :
       /\ from \in Nat /\ Len(t) = last + 1 - from /\ \A i \in 1..Len(t) : t[i] = from + i - 1
       /\ have # <<>> => offset < from
       /\ offset < first => from = first
       /\ from # first => have # <<>> /\ offset = first

\* What the client keeps of a chunk that the server has sent.
LEMMA AfterFact ==
    ASSUME Inv, server \notin {"none", "list"}, NEW first \in Nat, NEW last \in Offsets, first <= last, offset <= first
    PROVE  AfterState(first, last) \in Seq(Offsets) /\ UpTo(AfterState(first, last), first, last)
<1> DEFINE t == AfterState(first, last)
           from == IF \E o \in StateOffset : o >= first THEN have[Len(have)] + 1 ELSE first
<1>1. /\ last \in Nat /\ offset \in Nat /\ Offsets = 0..MaxOffset /\ MaxOffset \in Nat
      /\ offset = (IF have = <<>> THEN 0 ELSE have[Len(have)])
  BY NumberFact, FetchAssumption DEF Inv, Offsets, Where
<1>2. /\ from \in {first, first + 1} /\ from \in Nat
      /\ have # <<>> => offset < from
      /\ offset < first => from = first
      /\ from # first => have # <<>> /\ offset = first
  <2>1. CASE have = <<>>
    BY <2>1 DEF StateOffset
  <2>2. CASE have # <<>>
    <3>1. from = IF offset >= first THEN offset + 1 ELSE first
      BY <1>1, <2>2 DEF StateOffset
    <3> QED BY <1>1, <2>2, <3>1
  <2> QED BY <2>1, <2>2
<1>3. t = [i \in 1..(last + 1 - from) |-> from + i - 1]
  BY DEF AfterState
<1> HIDE DEF t, from
<1>4. last + 1 - from \in Nat
  BY <1>1, <1>2
<1>5. \A i \in 1..(last + 1 - from) : from + i - 1 \in Offsets
  BY <1>1, <1>2
<1>6. t \in [1..(last + 1 - from) -> Offsets]
  BY <1>3, <1>5
<1>7. t \in Seq(Offsets) /\ Len(t) = last + 1 - from
  BY <1>4, <1>6, ElementFact
<1>8. \A i \in 1..Len(t) : t[i] = from + i - 1
  BY <1>3, <1>7
<1>9. UpTo(t, first, last)
  BY <1>2, <1>7, <1>8 DEF UpTo
<1> QED BY <1>7, <1>9 DEF t

\* A chunk goes to the sink, up to some record; all of it, if the reader has not stalled.
LEMMA SessionGrows ==
    ASSUME Inv, wire # <<>>, wire' = Tail(wire), wire[1].type = "data", NEW last \in wire[1].first..wire[1].last,
           session' = session \o AfterState(wire[1].first, last), UNCHANGED have
    PROVE  /\ session' \in Seq(Offsets) /\ last \in Nat
           /\ Len(session) <= Len(session') /\ \A i \in 1..Len(session) : session'[i] = session[i]
           /\ \A i \in 1..(Len(session') - 1) :
                 session'[i] < session'[i + 1] /\ (~stalled => session'[i + 1] = session'[i] + 1)
           /\ have # <<>> => \A i \in 1..Len(session') : have[Len(have)] < session'[i]
           /\ session' # <<>> => session'[Len(session')] = last
           /\ \/ \E i \in 1..Len(session') : session'[i] >= last
              \/ \E i \in 1..Len(have) : have[i] >= last
<1> DEFINE first == wire[1].first
           t == AfterState(first, last)
           k == Len(session)
<1>1. /\ server \notin {"none", "list"} /\ wire[1] \in Message /\ 1 \in 1..Len(wire)
  BY ArrivalFact
<1>2. first \in Nat /\ wire[1].last \in Offsets /\ offset <= first
  <2>1. wire[1].first \in Offsets /\ wire[1].last \in Offsets
    BY <1>1, MessageFact
  <2> QED BY <1>1, <2>1, NumberFact DEF Inv, WireInv
<1>3. last \in Offsets /\ last \in Nat /\ first <= last /\ offset \in Nat
  <2>1. wire[1].last \in 0..MaxOffset /\ MaxOffset \in Nat /\ offset \in Nat
    BY <1>2, NumberFact, FetchAssumption DEF Inv, Offsets
  <2>2. last \in first..wire[1].last
    OBVIOUS
  <2> HIDE DEF first
  <2> QED BY <1>2, <2>1, <2>2 DEF Offsets
<1>4. t \in Seq(Offsets) /\ session' = session \o t /\ UpTo(t, first, last)
  BY <1>1, <1>2, <1>3, AfterFact
<1>5. PICK from \in {first, first + 1} :
         /\ from \in Nat /\ Len(t) = last + 1 - from /\ \A i \in 1..Len(t) : t[i] = from + i - 1
         /\ have # <<>> => offset < from
         /\ offset < first => from = first
         /\ from # first => have # <<>> /\ offset = first
  BY <1>4 DEF UpTo
<1>6. Before(first) /\ (offset = IF have = <<>> THEN 0 ELSE have[Len(have)])
  BY <1>1 DEF Inv, WireFollows, Where
<1> HIDE DEF t, first
<1>7. /\ session' \in Seq(Offsets) /\ Len(session') = k + Len(t) /\ k \in Nat /\ Len(t) \in Nat
      /\ \A i \in 1..k : session'[i] = session[i]
      /\ \A i \in 1..Len(t) : session'[k + i] = t[i]
      /\ \A i \in 1..Len(session') : i > k => i - k \in 1..Len(t) /\ session'[i] = t[i - k]
  BY <1>4, ConcatFact DEF Inv, TypeOK
<1>8. /\ session # <<>> <=> k > 0
      /\ session' # <<>> <=> Len(session') > 0
      /\ have # <<>> => Len(have) \in 1..Len(have)
      /\ \A i \in 1..k : session[i] \in Nat
  <2>1. session \in Seq(Offsets) /\ have \in Seq(Offsets) /\ TypeOK
    BY DEF Inv, TypeOK
  <2>2. \A i \in 1..k : session[i] \in Nat
    BY <2>1, NumberFact
  <2>3. session # <<>> <=> k > 0
    BY <1>7, <2>1, ElementFact
  <2>4. session' # <<>> <=> Len(session') > 0
    BY <1>7, ElementFact
  <2>5. have # <<>> => Len(have) \in 1..Len(have)
    BY <2>1, ElementFact
  <2> QED BY <2>2, <2>3, <2>4, <2>5
<1>9. k > 0 => /\ session[k] < first /\ (~stalled => session[k] + 1 = first) /\ session[k] \in Nat
               /\ from = first /\ Len(t) > 0
  <2>1. SUFFICES ASSUME k > 0 PROVE session[k] < first /\ (~stalled => session[k] + 1 = first) /\ session[k] \in Nat
                                    /\ from = first /\ Len(t) > 0
    OBVIOUS
  <2>2. k \in 1..k /\ session[k] \in Nat
    BY <1>7, <1>8, <2>1
  <2>3. session[k] < first /\ (~stalled => session[k] + 1 = first)
    BY <1>6, <1>8, <2>1 DEF Before
  <2>4. offset <= session[k]
    <3>1. have # <<>> => have[Len(have)] < session[k]
      BY <2>2 DEF Inv, Delivered
    <3> QED BY <1>3, <1>6, <2>2, <3>1
  <2>5. offset < first
    BY <1>2, <1>3, <2>2, <2>3, <2>4
  <2> QED BY <1>2, <1>3, <1>5, <2>2, <2>3, <2>5
<1>10. ASSUME NEW i \in 1..(Len(session') - 1)
       PROVE  session'[i] < session'[i + 1] /\ (~stalled => session'[i + 1] = session'[i] + 1)
  <2>1. CASE i \in 1..(k - 1)
    <3>1. i \in 1..k /\ i + 1 \in 1..k
      BY <1>7, <2>1
    <3>2. session'[i] = session[i] /\ session'[i + 1] = session[i + 1]
      BY <1>7, <3>1
    <3> QED BY <2>1, <3>2 DEF Inv, Delivered
  <2>2. CASE i = k
    <3>1. k > 0 /\ i \in 1..k /\ 1 \in 1..Len(t)
      BY <1>7, <2>2
    <3>2. session'[i] = session[k] /\ session'[i + 1] = from
      <4>1. session'[k + 1] = t[1] /\ t[1] = from + 1 - 1
        BY <1>5, <1>7, <3>1
      <4> QED BY <1>5, <1>7, <2>2, <3>1, <4>1
    <3> QED BY <1>9, <3>1, <3>2
  <2>3. CASE i > k
    <3>1. i + 1 \in 1..Len(session') /\ i \in 1..Len(session') /\ i + 1 > k /\ i \in Nat
      BY <1>7, <2>3
    <3>2. i - k \in 1..Len(t) /\ (i + 1) - k \in 1..Len(t) /\ session'[i] = t[i - k] /\ session'[i + 1] = t[(i + 1) - k]
      BY <1>7, <2>3, <3>1
    <3>3. session'[i] = from + (i - k) - 1
      BY <1>5, <3>2
    <3>4. session'[i + 1] = from + ((i + 1) - k) - 1
      BY <1>5, <3>2
    <3>5. i \in Nat /\ k \in Nat /\ from \in Nat
      BY <1>5, <1>7, <3>1
    <3>6. from + ((i + 1) - k) - 1 = (from + (i - k) - 1) + 1 /\ from + (i - k) - 1 \in Int
      BY <3>5
    <3> QED BY <3>3, <3>4, <3>6
  <2> QED BY <1>7, <2>1, <2>2, <2>3
<1>11. have # <<>> => \A i \in 1..Len(session') : have[Len(have)] < session'[i]
  <2>1. SUFFICES ASSUME have # <<>>, NEW i \in 1..Len(session') PROVE offset < session'[i]
    BY <1>6
  <2>2. CASE i \in 1..k
    BY <1>6, <1>7, <2>1, <2>2 DEF Inv, Delivered
  <2>3. CASE i > k
    <3>1. i - k \in 1..Len(t) /\ session'[i] = t[i - k]
      BY <1>7, <2>1, <2>3
    <3>2. session'[i] = from + (i - k) - 1
      BY <1>5, <3>1
    <3> QED BY <1>3, <1>5, <1>7, <2>1, <3>1, <3>2
  <2> QED BY <1>7, <2>1, <2>2, <2>3
<1>12. Len(t) > 0 => session' # <<>> /\ Len(session') \in 1..Len(session') /\ session'[Len(session')] = last
  <2>1. SUFFICES ASSUME Len(t) > 0 PROVE Len(session') \in 1..Len(session') /\ session'[Len(session')] = last
    BY <1>7, <1>8
  <2>2. Len(t) \in 1..Len(t) /\ session'[k + Len(t)] = t[Len(t)]
    BY <1>7, <2>1
  <2>3. t[Len(t)] = from + Len(t) - 1
    BY <1>5, <2>2
  <2> QED BY <1>3, <1>5, <1>7, <2>1, <2>2, <2>3
<1>13. session' # <<>> => session'[Len(session')] = last
  <2>1. session' # <<>> => Len(t) > 0
    BY <1>7, <1>8, <1>9
  <2> QED BY <1>12, <2>1
<1>14. \/ \E i \in 1..Len(session') : session'[i] >= last
       \/ \E i \in 1..Len(have) : have[i] >= last
  <2>1. CASE Len(t) > 0
    BY <1>3, <1>12, <2>1
  <2>2. CASE Len(t) = 0
    <3>1. from = last + 1 /\ from # first
      BY <1>2, <1>3, <1>5, <2>2
    <3>2. have # <<>> /\ have[Len(have)] >= last
      BY <1>2, <1>3, <1>5, <1>6, <3>1
    <3> QED BY <1>8, <3>2
  <2> QED BY <1>7, <2>1, <2>2
<1>15. Len(session) <= Len(session')
  BY <1>7
<1> QED BY <1>3, <1>7, <1>10, <1>11, <1>13, <1>14, <1>15

\* A chunk arrives; it is acknowledged, unless the reader stalls.
LEMMA ReceiveStep ==
    ASSUME Inv, Arriving("data"), wire' = Tail(wire), NEW last \in wire[1].first..wire[1].last,
           session' = session \o AfterState(wire[1].first, last),
           acks' = acks \/ acks' = Append(acks, wire[1].file),
           stalled' \in BOOLEAN, ~stalled' => ~stalled /\ last = wire[1].last,
           UNCHANGED <<files, server, listed, index, rest, paused, offset, client, have, sessions, readErrors>>
    PROVE  Inv'
<1>1. wire # <<>> /\ wire[1].type = "data" /\ client = "reading"
  BY DEF Arriving
<1>2. /\ wire' \in Seq(Message) /\ Len(wire') = Len(wire) - 1 /\ Len(wire) \in Nat \ {0}
      /\ wire[1] \in Message /\ 1 \in 1..Len(wire)
      /\ \A i \in 1..Len(wire') : wire'[i] = wire[i + 1] /\ i + 1 \in 1..Len(wire)
      /\ wire' = <<>> <=> Len(wire) = 1
      /\ server \notin {"none", "list"}
  BY <1>1, ArrivalFact
<1>3. /\ session' \in Seq(Offsets) /\ last \in Nat
      /\ Len(session) <= Len(session') /\ \A i \in 1..Len(session) : session'[i] = session[i]
      /\ \A i \in 1..(Len(session') - 1) :
            session'[i] < session'[i + 1] /\ (~stalled => session'[i + 1] = session'[i] + 1)
      /\ have # <<>> => \A i \in 1..Len(session') : have[Len(have)] < session'[i]
      /\ session' # <<>> => session'[Len(session')] = last
      /\ \/ \E i \in 1..Len(session') : session'[i] >= last
         \/ \E i \in 1..Len(have) : have[i] >= last
  BY <1>1, SessionGrows
<1>4. /\ wire[1].last \in Nat /\ wire[1].first \in Nat /\ wire[1].file \in Nat /\ wire[1].file < index
      /\ last <= wire[1].last
  <2>1. wire[1].last \in Nat /\ wire[1].first \in Nat /\ wire[1].file \in Nat
    BY <1>1, <1>2, MessageFact, NumberFact DEF Inv
  <2>2. wire[1].file < index
    BY <1>1, <1>2 DEF Inv, WireInv
  <2> QED BY <2>1, <2>2
<1>5. /\ acks' \in Seq(Nat)
      /\ \A i \in 1..Len(acks') : \/ i \in 1..Len(acks) /\ acks'[i] = acks[i]
                                  \/ i = Len(acks') /\ acks'[i] = wire[1].file
  <2>1. CASE acks' = acks
    BY <2>1 DEF Inv, TypeOK
  <2>2. CASE acks' = Append(acks, wire[1].file)
    <3>1. acks \in Seq(Nat)
      BY DEF Inv, TypeOK
    <3>2. /\ acks' \in Seq(Nat) /\ Len(acks') = Len(acks) + 1 /\ Len(acks) \in Nat
          /\ acks'[Len(acks) + 1] = wire[1].file /\ \A i \in 1..Len(acks) : acks'[i] = acks[i]
      BY <1>4, <2>2, <3>1, AppendFact
    <3> QED BY <3>2
  <2> QED BY <2>1, <2>2
<1>6. TypeOK'
  BY <1>2, <1>3, <1>5 DEF Inv, TypeOK, Message, Offsets, Unsent
<1>7. FilesInv' /\ Where'
  BY <1>1, <1>2 DEF Inv, FilesInv, Where
<1>8. WireInv'
  BY <1>1, WireStays
<1>9. Delivered'
  <2>1. \A i \in 1..(Len(have) - 1) : have[i] < have[i + 1]
    BY DEF Inv, Delivered
  <2> QED BY <1>3, <2>1 DEF Delivered
<1>10. session' # <<>> => /\ session'[Len(session')] < wire[1].last + 1
                          /\ ~stalled' => session'[Len(session')] + 1 = wire[1].last + 1
  <2>1. session' # <<>> => session'[Len(session')] = last
    BY <1>3
  <2>2. last < wire[1].last + 1 /\ (~stalled' => last = wire[1].last)
    BY <1>3, <1>4
  <2> QED BY <2>1, <2>2
<1>11. WireFollows'
  <2>1. SUFFICES ASSUME wire' # <<>>, wire'[1].type = "data"
                 PROVE  session' # <<>> => /\ session'[Len(session')] < wire'[1].first
                                           /\ ~stalled' => session'[Len(session')] + 1 = wire'[1].first
    BY DEF WireFollows, Before
  <2>2. Len(wire') > 0 /\ 1 \in 1..Len(wire') /\ wire'[1] = wire[1 + 1] /\ 1 \in 1..(Len(wire) - 1)
    BY <1>2, <2>1
  <2>3. wire'[1].first = wire[1].last + 1
    BY <2>1, <2>2 DEF Inv, WireInv
  <2> QED BY <1>10, <2>3
<1>12. ServerFollows'
  <2> DEFINE n == IF server = "sending" /\ rest.first <= rest.last THEN rest.first ELSE files[index - 1].last + 1
  <2>1. SUFFICES ASSUME server \in {"next", "sending"}
                 PROVE  /\ index > 1
                        /\ IF wire' = <<>>
                           THEN session' # <<>> => /\ session'[Len(session')] < n
                                                   /\ ~stalled' => session'[Len(session')] + 1 = n
                           ELSE wire'[Len(wire')].last + 1 = n
    BY DEF ServerFollows, Before
  <2>2. index > 1 /\ wire[Len(wire)].last + 1 = n
    BY <1>1, <2>1 DEF Inv, ServerFollows
  <2>3. CASE wire' = <<>>
    <3>1. n = wire[1].last + 1
      BY <1>2, <2>2, <2>3
    <3> HIDE DEF n
    <3> QED BY <1>10, <2>2, <2>3, <3>1
  <2>4. CASE wire' # <<>>
    <3>1. Len(wire') \in 1..Len(wire') /\ wire'[Len(wire')] = wire[Len(wire)]
      <4>1. Len(wire') \in 1..Len(wire') /\ Len(wire') + 1 = Len(wire)
        BY <1>2, <2>4
      <4> QED BY <1>2, <4>1
    <3> QED BY <2>2, <2>4, <3>1
  <2> QED BY <2>3, <2>4
<1>13. Paces'
  <2> DEFINE first == Records(files[index - 1], offset).first
  <2>1. \A i \in 1..Len(acks') : acks'[i] < index
    BY <1>4, <1>5 DEF Inv, Paces
  <2>2. ASSUME NEW i \in 1..Len(wire'), wire'[i].type = "data" PROVE i <= 2
    <3>1. i + 1 <= 2
      BY <1>2, <2>2 DEF Inv, Paces
    <3> QED BY <1>2, <3>1
  <2>3. server = "next" => Len(wire') <= 1
    BY <1>2 DEF Inv, Paces
  <2>4. ASSUME server = "sending", rest.first = first
        PROVE  ~paused /\ Len(wire') <= 1 /\ (\A i \in 1..Len(wire') : wire'[i].file # index - 1)
               /\ \A i \in 1..Len(acks') : acks'[i] # index - 1
    <3>1. ~paused /\ Len(wire) <= 1 /\ (\A i \in 1..Len(wire) : wire[i].file # index - 1)
          /\ \A i \in 1..Len(acks) : acks[i] # index - 1
      BY <2>4 DEF Inv, Paces
    <3>2. \A i \in 1..Len(wire') : wire'[i].file # index - 1
      BY <1>2, <3>1
    <3>3. \A i \in 1..Len(acks') : acks'[i] # index - 1
      BY <1>2, <1>5, <3>1
    <3>4. Len(wire') <= 1
      BY <1>2, <3>1
    <3> QED BY <3>1, <3>2, <3>3, <3>4
  <2>5. ASSUME server = "sending", rest.first # first
        PROVE  /\ rest.first >= first + ChunkSize
               /\ rest.first > first + ChunkSize => Len(wire') <= 1
               /\ \A i \in 1..Len(wire') : wire'[i].file = index - 1 => i = Len(wire')
               /\ \A i \in 1..Len(acks') : acks'[i] = index - 1 => i = Len(acks') /\ wire' = <<>>
               /\ ~paused => wire' = <<>> /\ \A i \in 1..Len(acks') : acks'[i] # index - 1
    <3>1. /\ rest.first >= first + ChunkSize
          /\ rest.first > first + ChunkSize => Len(wire) <= 1
          /\ \A i \in 1..Len(wire) : wire[i].file = index - 1 => i = Len(wire)
          /\ \A i \in 1..Len(acks) : acks[i] # index - 1
          /\ paused
      BY <1>1, <2>5 DEF Inv, Paces
    <3> HIDE DEF first
    <3>2. ASSUME NEW i \in 1..Len(wire'), wire'[i].file = index - 1 PROVE i = Len(wire')
      <4>1. i + 1 \in 1..Len(wire) /\ wire[i + 1].file = index - 1
        BY <1>2, <3>2
      <4>2. i + 1 = Len(wire)
        BY <3>1, <4>1
      <4>3. Len(wire') = Len(wire) - 1 /\ Len(wire) \in Nat /\ i \in Int
        BY <1>2
      <4> QED BY <4>2, <4>3
    <3>3. \A i \in 1..Len(acks') : acks'[i] = index - 1 => i = Len(acks') /\ wire' = <<>>
      BY <1>2, <1>5, <3>1
    <3>4. rest.first > first + ChunkSize => Len(wire') <= 1
      <4>1. Len(wire) <= 1 => Len(wire') <= 1
        BY <1>2
      <4> QED BY <3>1, <4>1
    <3> QED BY <3>1, <3>2, <3>3, <3>4
  <2> QED BY <2>1, <2>2, <2>3, <2>4, <2>5 DEF Paces
<1>14. ASSUME ~stalled', NEW n \in Nat, Reaches(n) PROVE Reaches(n)'
  <2>1. CASE \E i \in 1..Len(wire) : wire[i].type = "data" /\ wire[i].last >= n
    <3>1. PICK i \in 1..Len(wire) : wire[i].type = "data" /\ wire[i].last >= n
      BY <2>1
    <3>2. CASE i = 1
      <4>1. last >= n
        BY <1>14, <3>1, <3>2
      <4>2. CASE \E j \in 1..Len(session') : session'[j] >= last
        <5>1. PICK j \in 1..Len(session') : session'[j] >= last
          BY <4>2
        <5>2. session'[j] \in Offsets
          BY <1>3, ElementFact
        <5>3. session'[j] \in Nat
          BY <5>2, NumberFact DEF Inv
        <5>4. session'[j] >= n
          BY <1>3, <4>1, <5>1, <5>3
        <5> QED BY <5>4 DEF Reaches
      <4>3. CASE \E j \in 1..Len(have) : have[j] >= last
        <5>1. PICK j \in 1..Len(have) : have[j] >= last
          BY <4>3
        <5>2. have[j] \in Nat
          BY NumberFact DEF Inv
        <5>3. have[j] >= n
          BY <1>3, <4>1, <5>1, <5>2
        <5> QED BY <5>3 DEF Reaches
      <4> QED BY <1>3, <4>2, <4>3
    <3>3. CASE i # 1
      <4>1. i - 1 \in 1..Len(wire') /\ (i - 1) + 1 = i
        BY <1>2, <3>3
      <4>2. wire'[i - 1] = wire[i]
        BY <1>2, <4>1
      <4> QED BY <3>1, <4>1, <4>2 DEF Reaches
    <3> QED BY <3>2, <3>3
  <2>2. CASE \E i \in 1..Len(session) : session[i] >= n
    <3>1. \A i \in 1..Len(session) : i \in 1..Len(session') /\ session'[i] = session[i]
      BY <1>3, NumberFact, ElementFact DEF Inv
    <3> QED BY <2>2, <3>1 DEF Reaches
  <2>3. CASE \E i \in 1..Len(have) : have[i] >= n
    BY <2>3 DEF Reaches
  <2> QED BY <1>14, <2>1, <2>2, <2>3 DEF Reaches
<1>15. Complete'
  <2>1. SUFFICES ASSUME readErrors = 0, ~stalled', listed > 0
                 PROVE  /\ server = "sending" /\ rest.first > rest.last => Reaches(files[index - 1].last)'
                        /\ server = "next" /\ index = listed + 1 => Reaches(files[listed].last)'
                        /\ server \in {"stopping", "stopped"} => index = listed + 1 /\ Reaches(files[listed].last)'
    BY DEF Complete, Reaches
  <2>2. /\ server = "sending" /\ rest.first > rest.last => Reaches(files[index - 1].last)
        /\ server = "next" /\ index = listed + 1 => Reaches(files[listed].last)
        /\ server \in {"stopping", "stopped"} => index = listed + 1 /\ Reaches(files[listed].last)
    BY <2>1 DEF Inv, Complete
  <2>3. files[listed].last \in Nat
    BY <2>1, NumberFact DEF Inv
  <2>4. server = "sending" => files[index - 1].last \in Nat
    <3>1. server = "sending" => index > 1 /\ index <= listed + 1
      BY DEF Inv, Where
    <3>2. server = "sending" => index - 1 \in 1..Len(files)
      <4>1. index \in Nat /\ listed \in Nat /\ Len(files) \in Nat /\ listed <= Len(files)
        BY NumberFact DEF Inv
      <4> QED BY <3>1, <4>1
    <3> QED BY <3>2, NumberFact DEF Inv
  <2> QED BY <1>14, <2>1, <2>2, <2>3, <2>4
<1> QED BY <1>6, <1>7, <1>8, <1>9, <1>11, <1>12, <1>13, <1>15 DEF Inv

LEMMA TakeChunkStep == Inv /\ TakeChunk => Inv'
<1> SUFFICES ASSUME Inv, TakeChunk PROVE Inv'
  OBVIOUS
<1>1. /\ Arriving("data") /\ session' = session \o AfterState(Head(wire).first, Head(wire).last)
      /\ acks' = Append(acks, Head(wire).file) /\ wire' = Tail(wire)
      /\ UNCHANGED <<files, server, listed, index, rest, paused, offset, client, stalled, have, sessions, readErrors>>
  BY DEF TakeChunk
<1>2. Head(wire) = wire[1] /\ wire[1] \in Message /\ 1 \in 1..Len(wire) /\ wire[1].type = "data"
  BY <1>1, ArrivalFact DEF Arriving
<1>3. wire[1].last \in wire[1].first..wire[1].last
  <2>1. wire[1].first <= wire[1].last
    BY <1>2 DEF Inv, WireInv
  <2>2. wire[1].first \in Nat /\ wire[1].last \in Nat
    BY <1>2, MessageFact, NumberFact DEF Inv
  <2> QED BY <2>1, <2>2
<1>4. stalled' \in BOOLEAN
  BY <1>1 DEF Inv, TypeOK
<1>5. session' = session \o AfterState(wire[1].first, wire[1].last) /\ acks' = Append(acks, wire[1].file)
  BY <1>1, <1>2
<1> QED BY <1>1, <1>3, <1>4, <1>5, ReceiveStep

LEMMA StallOnChunkStep == Inv /\ StallOnChunk => Inv'
<1> SUFFICES ASSUME Inv, StallOnChunk PROVE Inv'
  OBVIOUS
<1>1. /\ Arriving("data") /\ stalled' = TRUE /\ wire' = Tail(wire)
      /\ UNCHANGED <<files, server, listed, index, rest, paused, acks, offset, client, have, sessions, readErrors>>
  BY DEF StallOnChunk
<1>2. PICK last \in Head(wire).first..Head(wire).last : session' = session \o AfterState(Head(wire).first, last)
  BY DEF StallOnChunk
<1>3. Head(wire) = wire[1]
  BY <1>1, ArrivalFact DEF Arriving
<1>4. last \in wire[1].first..wire[1].last /\ session' = session \o AfterState(wire[1].first, last)
  BY <1>2, <1>3
<1>5. stalled' \in BOOLEAN /\ stalled'
  BY <1>1
<1> QED BY <1>1, <1>4, <1>5, ReceiveStep

\* An error arrives: there is no more data behind it.
LEMMA TakeErrorStep == Inv /\ TakeError => Inv'
<1> SUFFICES ASSUME Inv, TakeError PROVE Inv'
  OBVIOUS
<1>1. /\ wire # <<>> /\ Head(wire).type = "error" /\ wire' = Tail(wire) /\ client = "reading"
      /\ UNCHANGED <<files, server, listed, index, rest, paused, acks, offset, client, session, stalled, have, sessions, readErrors>>
  BY DEF TakeError, Arriving, clientVars
<1>2. /\ wire' \in Seq(Message) /\ Len(wire') = Len(wire) - 1 /\ Len(wire) \in Nat \ {0} /\ Head(wire) = wire[1]
      /\ 1 \in 1..Len(wire)
      /\ \A i \in 1..Len(wire') : wire'[i] = wire[i + 1] /\ i + 1 \in 1..Len(wire)
      /\ wire' = <<>> <=> Len(wire) = 1
      /\ server \notin {"none", "list"}
  BY <1>1, ArrivalFact
<1>3. ASSUME NEW i \in 1..Len(wire) PROVE wire[i].type # "data"
  <2>1. wire[1].type # "data"
    BY <1>1, <1>2
  <2>2. CASE i = 1
    BY <2>1, <2>2
  <2>3. CASE i # 1
    BY <1>2, <2>1, <2>3 DEF Inv, WireInv
  <2> QED BY <2>2, <2>3
<1>4. server \notin {"next", "sending"}
  BY <1>2, <1>3 DEF Inv, WireInv
<1>5. \A i \in 1..Len(wire') : wire'[i].type # "data"
  BY <1>2, <1>3
<1>6. TypeOK' /\ FilesInv' /\ Delivered' /\ Where'
  <2>1. TypeOK'
    BY <1>1, <1>2 DEF Inv, TypeOK, Message, Offsets, Unsent
  <2>2. FilesInv' /\ Delivered'
    BY <1>1 DEF Inv, FilesInv, Delivered
  <2>3. Where'
    BY <1>1, <1>2 DEF Inv, Where
  <2> QED BY <2>1, <2>2, <2>3
<1>7. WireInv'
  BY <1>1, WireStays
<1>8. WireFollows'
  <2>1. wire' # <<>> => 1 \in 1..Len(wire')
    BY <1>2
  <2> QED BY <1>5, <2>1 DEF WireFollows
<1>9. ServerFollows' /\ Paces'
  BY <1>1, <1>4, <1>5 DEF Inv, ServerFollows, Paces
<1>10. Complete'
  <2>1. \A n : Reaches(n) => Reaches(n)'
    BY <1>1, <1>3 DEF Reaches
  <2>2. readErrors = 0 /\ ~stalled /\ listed > 0 =>
           (server \in {"stopping", "stopped"} => index = listed + 1 /\ Reaches(files[listed].last))
    BY DEF Inv, Complete
  <2>3. Reaches(files[listed].last) => Reaches(files[listed].last)'
    BY <1>1, <2>1
  <2> QED BY <1>1, <1>4, <2>2, <2>3 DEF Complete
<1> QED BY <1>6, <1>7, <1>8, <1>9, <1>10 DEF Inv

\* A session is over.
LEMMA NoSessionStep ==
    ASSUME Inv, NoSession, have' \in Seq(Offsets), \A i \in 1..(Len(have') - 1) : have'[i] < have'[i + 1]
    PROVE  Inv'
<1>1. /\ client' = "idle" /\ session' = <<>> /\ stalled' = FALSE /\ server' = "none" /\ wire' = <<>> /\ acks' = <<>>
      /\ rest' = Nothing /\ paused' = FALSE /\ UNCHANGED <<files, listed, index, offset, sessions, readErrors>>
  BY DEF NoSession
<1>2. TypeOK'
  <2>1. rest' \in Unsent
    BY <1>1 DEF Unsent, Nothing
  <2>2. paused' \in BOOLEAN /\ stalled' \in BOOLEAN
    BY <1>1
  <2>3. server' \in {"none", "list", "next", "sending", "stopping", "stopped", "down"} /\ client' \in {"idle", "reading"}
    BY <1>1
  <2>4. wire' \in Seq(Message) /\ acks' \in Seq(Nat) /\ session' \in Seq(Offsets)
    BY <1>1
  <2> QED BY <1>1, <2>1, <2>2, <2>3, <2>4 DEF Inv, TypeOK, Offsets
<1>3. ~stalled'
  BY <1>1
<1>4. Len(wire') = 0 /\ Len(session') = 0 /\ Len(acks') = 0 /\ 1..0 = {}
  BY <1>1
<1>5. FilesInv' /\ Where'
  BY <1>1, <1>3 DEF Inv, FilesInv, Where
<1>6. WireInv' /\ Delivered'
  <2>1. WireInv'
    BY <1>4 DEF WireInv
  <2>2. \A i \in 1..(Len(session') - 1) : FALSE
    BY <1>4
  <2>3. \A i \in 1..Len(session') : FALSE
    BY <1>4
  <2> QED BY <2>1, <2>2, <2>3 DEF Delivered
<1>7. WireFollows' /\ ServerFollows' /\ Complete'
  BY <1>1 DEF WireFollows, ServerFollows, Complete
<1>8. Paces'
  BY <1>1, <1>4 DEF Paces
<1> QED BY <1>2, <1>5, <1>6, <1>7, <1>8 DEF Inv

\* What the sink has is in order, over all sessions.
LEMMA OrderFact == Inv => InOrder
<1> SUFFICES ASSUME Inv PROVE InOrder
  OBVIOUS
<1> DEFINE got == have \o session
<1>1. /\ Len(got) = Len(have) + Len(session) /\ Len(have) \in Nat /\ Len(session) \in Nat
      /\ \A i \in 1..Len(have) : got[i] = have[i]
      /\ \A i \in 1..Len(got) : i > Len(have) => i - Len(have) \in 1..Len(session) /\ got[i] = session[i - Len(have)]
      /\ have # <<>> <=> Len(have) > 0
  BY ConcatFact DEF Inv, TypeOK
<1> HIDE DEF got
<1>2. ASSUME NEW i \in 1..(Len(got) - 1) PROVE got[i] < got[i + 1]
  <2>1. CASE i \in 1..(Len(have) - 1)
    <3>1. i \in 1..Len(have) /\ i + 1 \in 1..Len(have)
      BY <1>1, <2>1
    <3> QED BY <1>1, <2>1, <3>1 DEF Inv, Delivered
  <2>2. CASE i = Len(have)
    <3>1. have # <<>> /\ i \in 1..Len(have) /\ i + 1 \in 1..Len(got) /\ i + 1 > Len(have)
      BY <1>1, <2>2
    <3>2. (i + 1) - Len(have) \in 1..Len(session) /\ got[i + 1] = session[(i + 1) - Len(have)]
      BY <1>1, <3>1
    <3>3. got[i] = have[Len(have)]
      BY <1>1, <2>2, <3>1
    <3> QED BY <3>1, <3>2, <3>3 DEF Inv, Delivered
  <2>3. CASE i > Len(have)
    <3>1. i \in 1..Len(got) /\ i + 1 \in 1..Len(got) /\ i + 1 > Len(have) /\ i \in Nat
      BY <1>1, <2>3
    <3> DEFINE j == i - Len(have)
    <3>2. /\ j \in 1..Len(session) /\ got[i] = session[j]
          /\ (i + 1) - Len(have) \in 1..Len(session) /\ got[i + 1] = session[(i + 1) - Len(have)]
      BY <1>1, <2>3, <3>1
    <3>3. (i + 1) - Len(have) = j + 1 /\ j \in 1..(Len(session) - 1)
      BY <1>1, <3>1, <3>2
    <3> HIDE DEF j
    <3> QED BY <3>2, <3>3 DEF Inv, Delivered
  <2> QED BY <1>1, <2>1, <2>2, <2>3
<1> QED BY <1>2 DEF InOrder, got

LEMMA TakeStopStep == Inv /\ TakeStop => Inv'
<1> SUFFICES ASSUME Inv, TakeStop PROVE Inv'
  OBVIOUS
<1>1. NoSession /\ have' = have \o session
  BY DEF TakeStop
<1>2. have' \in Seq(Offsets)
  BY <1>1, ConcatFact DEF Inv, TypeOK
<1>3. \A i \in 1..(Len(have') - 1) : have'[i] < have'[i + 1]
  BY <1>1, OrderFact DEF InOrder
<1> QED BY <1>1, <1>2, <1>3, NoSessionStep

\* The wait is given up.
LEMMA StallTimeoutStep == Inv /\ StallTimeout => Inv'
<1> SUFFICES ASSUME Inv, StallTimeout PROVE Inv'
  OBVIOUS
<1>1. NoSession /\ have' = have
  BY DEF StallTimeout
<1>2. have' \in Seq(Offsets) /\ \A i \in 1..(Len(have') - 1) : have'[i] < have'[i + 1]
  BY <1>1 DEF Inv, TypeOK, Delivered
<1> QED BY <1>1, <1>2, NoSessionStep

\* Steps that change nothing.
LEMMA QuietStep == Inv /\ UNCHANGED vars => Inv'
<1> SUFFICES ASSUME Inv, UNCHANGED vars PROVE Inv'
  OBVIOUS
<1>1. UNCHANGED <<files, server, listed, index, rest, paused, wire, acks, client, offset, session, stalled, have,
                  sessions, readErrors>>
  BY DEF vars, fetchVars, clientVars
<1>2. TypeOK' /\ FilesInv' /\ Where' /\ Delivered'
  BY <1>1 DEF Inv, TypeOK, FilesInv, Where, Delivered, Message, Offsets, Unsent
<1>3. WireInv' /\ WireFollows' /\ ServerFollows'
  BY <1>1 DEF Inv, WireInv, WireFollows, ServerFollows, Before
<1>4. Paces' /\ Complete'
  BY <1>1 DEF Inv, Paces, Complete, Reaches
<1> QED BY <1>2, <1>3, <1>4 DEF Inv

-----------------------------------------------------------------------------
(* The theorems.                                                           *)

LEMMA InitFact == Init => Inv
<1> SUFFICES ASSUME Init PROVE Inv
  OBVIOUS
<1>1. /\ files = <<>> /\ server = "none" /\ listed = 0 /\ index = 1 /\ rest = Nothing /\ paused = FALSE
      /\ wire = <<>> /\ acks = <<>> /\ client = "idle" /\ offset = 0 /\ session = <<>> /\ have = <<>>
      /\ stalled = FALSE /\ sessions = 0 /\ readErrors = 0
  BY DEF Init
<1>2. TypeOK
  <2>1. files \in Seq([start : Offsets, last : Offsets, closed : BOOLEAN]) /\ wire \in Seq(Message) /\ acks \in Seq(Nat)
        /\ session \in Seq(Offsets) /\ have \in Seq(Offsets)
    BY <1>1
  <2>2. rest \in Unsent
    BY <1>1 DEF Unsent, Nothing
  <2>3. paused \in BOOLEAN /\ stalled \in BOOLEAN
    BY <1>1
  <2>4. listed \in 0..Len(files) /\ index \in Nat \ {0} /\ offset \in Offsets /\ sessions \in 0..MaxSessions
        /\ readErrors \in 0..MaxReadErrors
    BY <1>1, FetchAssumption DEF Offsets
  <2>5. server \in {"none", "list", "next", "sending", "stopping", "stopped", "down"} /\ client \in {"idle", "reading"}
    BY <1>1
  <2> QED BY <2>1, <2>2, <2>3, <2>4, <2>5 DEF TypeOK
<1>3. /\ Len(files) = 0 /\ Len(wire) = 0 /\ Len(session) = 0 /\ Len(have) = 0 /\ Len(acks) = 0 /\ 1..0 = {}
      /\ 1..(0 - 1) = {}
  BY <1>1
<1>4. ~stalled
  BY <1>1
<1>5. FilesInv /\ Where
  BY <1>1, <1>3, <1>4 DEF FilesInv, Where
<1>6. WireInv /\ Delivered
  BY <1>1, <1>3 DEF WireInv, Delivered
<1>7. WireFollows /\ ServerFollows /\ Complete
  BY <1>1 DEF WireFollows, ServerFollows, Complete
<1>8. Paces
  BY <1>1, <1>3 DEF Paces
<1> QED BY <1>2, <1>5, <1>6, <1>7, <1>8 DEF Inv

LEMMA NextFact == Inv /\ [Next]_vars => Inv'
<1> SUFFICES ASSUME Inv, [Next]_vars PROVE Inv'
  OBVIOUS
<1>1. CASE BeginUpload
  BY <1>1, BeginUploadStep
<1>2. CASE EndUpload
  BY <1>2, EndUploadStep
<1>3. CASE OpenChannel
  BY <1>3, OpenChannelStep
<1>4. CASE ListFiles
  BY <1>4, ListFilesStep
<1>5. CASE OpenFile
  BY <1>5, OpenFileStep
<1>6. CASE OpenPartialFile
  BY <1>6, OpenPartialFileStep
<1>7. CASE SendChunk
  BY <1>7, SendChunkStep
<1>8. CASE Acknowledged
  BY <1>8, AcknowledgedStep
<1>9. CASE EndOfFile
  BY <1>9, EndOfFileStep
<1>10. CASE NoMoreFiles
  BY <1>10, NoMoreFilesStep
<1>11. CASE SendStop
  BY <1>11, SendStopStep
<1>12. CASE TakeChunk
  BY <1>12, TakeChunkStep
<1>13. CASE TakeError
  BY <1>13, TakeErrorStep
<1>14. CASE TakeStop
  BY <1>14, TakeStopStep
<1>15. CASE StallTimeout
  BY <1>15, StallTimeoutStep
<1>16. CASE ReadFails
  BY <1>16, ReadFailsStep
<1>17. CASE StallOnChunk
  BY <1>17, StallOnChunkStep
<1>18. CASE Quiet \/ UNCHANGED vars
  BY <1>18, QuietStep DEF Quiet
<1> QED BY <1>1, <1>2, <1>3, <1>4, <1>5, <1>6, <1>7, <1>8, <1>9, <1>10, <1>11, <1>12, <1>13, <1>14, <1>15,
           <1>16, <1>17, <1>18 DEF Next, Progress

\* What the sink has, the session, the wire and the rest of the file follow each other.
THEOREM Invariant == Spec => []Inv
<1> QED BY InitFact, NextFact, PTL DEF Spec

\* The variables keep their types: no more files are listed than there are, and
\* offset, session and have stay within the batch.
THEOREM TypeCorrect == Spec => []TypeOK
<1>1. Inv => TypeOK
  BY DEF Inv
<1> QED BY <1>1, Invariant, PTL

\* The sink gets the records in the order of their offsets and none twice, over
\* all sessions (DataFetchHandler and DataPMSource).
THEOREM SinkInOrder == Spec => []InOrder
<1> QED BY OrderFact, Invariant, PTL

\* Within a session whose reader has not stalled no record is missing before
\* one that has been delivered (readDataBatch and getNext).
THEOREM SessionsHaveNoGap == Spec => []NoGapInSession
<1>1. Inv => NoGapInSession
  BY DEF Inv, Delivered, NoGapInSession
<1> QED BY <1>1, Invariant, PTL

\* At most two chunks are on their way to the client (batchTransform.pause).
THEOREM FlowIsControlled == Spec => []FlowControl
<1>1. ASSUME Inv PROVE FlowControl
  <2> DEFINE S == {i \in DOMAIN wire : wire[i].type = "data"}
  <2>1. S \in SUBSET (1..2)
    <3>1. wire \in Seq(Message)
      BY <1>1 DEF Inv, TypeOK
    <3>2. DOMAIN wire = 1..Len(wire)
      BY <3>1
    <3>3. \A i \in 1..Len(wire) : wire[i].type = "data" => i <= 2
      BY <1>1 DEF Inv, Paces
    <3> QED BY <3>2, <3>3
  <2>2. IsFiniteSet(1..2) /\ Cardinality(1..2) = 2
    <3>1. \A n \in Nat : IsFiniteSet(1..n) /\ Cardinality(1..n) = n
      BY FS_Interval
    <3> QED BY <3>1
  <2> HIDE DEF S
  <2>3. Cardinality(S) <= 2
    BY <2>1, <2>2, FS_Subset
  <2> QED BY <2>3 DEF FlowControl, S
<1> QED BY <1>1, Invariant, PTL

\* Only the stop and the wait that is given up end a session.
LEMMA EndOfSession ==
    ASSUME Inv, [Next]_vars, client = "reading", client' = "idle"
    PROVE  TakeStop \/ StallTimeout
<1>1. client' # client
  BY DEF Inv
<1>2. ~(BeginUpload \/ EndUpload \/ ListFiles \/ OpenFile \/ OpenPartialFile \/ SendChunk \/ Acknowledged \/ EndOfFile
        \/ NoMoreFiles \/ SendStop \/ TakeError \/ ReadFails)
  BY <1>1 DEF BeginUpload, EndUpload, ListFiles, OpenFile, OpenPartialFile, SendChunk, Acknowledged, EndOfFile,
              NoMoreFiles, SendStop, TakeError, ReadFails, clientVars
<1>3. ~(OpenChannel \/ TakeChunk \/ StallOnChunk)
  BY <1>1 DEF OpenChannel, TakeChunk, StallOnChunk
<1>4. ~(Quiet \/ UNCHANGED vars)
  BY <1>1 DEF Quiet, vars, clientVars
<1> QED BY <1>2, <1>3, <1>4 DEF Next, Progress

\* A session that ends without an error has given all.
LEMMA EndIsComplete ==
    ASSUME Inv, [Next]_vars, client = "reading", client' = "idle", readErrors = 0, ~stalled, listed > 0
    PROVE  \E i \in 1..Len(have') : have'[i] >= files[listed].last
<1>1. /\ wire # <<>> /\ Head(wire).type = "stop" /\ have' = have \o session
  <2>1. ~StallTimeout
    BY DEF StallTimeout
  <2>2. TakeStop
    BY <2>1, EndOfSession
  <2> QED BY <2>2 DEF TakeStop, Arriving
<1>2. wire[1].type = "stop" /\ 1 \in 1..Len(wire) /\ Len(wire) \in Nat
  <2>1. wire \in Seq(Message)
    BY DEF Inv, TypeOK
  <2> QED BY <1>1, <2>1, TailFact
<1>3. server = "stopped"
  BY <1>2 DEF Inv, WireInv
<1>4. ASSUME NEW i \in 1..Len(wire) PROVE wire[i].type # "data"
  <2>1. CASE i = 1
    BY <1>2, <2>1
  <2>2. CASE i # 1
    BY <1>2, <2>2 DEF Inv, WireInv
  <2> QED BY <2>1, <2>2
<1>5. Reaches(files[listed].last)
  BY <1>3 DEF Inv, Complete
<1>6. /\ Len(have') = Len(have) + Len(session) /\ Len(have) \in Nat /\ Len(session) \in Nat
      /\ \A i \in 1..Len(have) : have'[i] = have[i]
      /\ \A i \in 1..Len(session) : have'[Len(have) + i] = session[i]
  BY <1>1, ConcatFact DEF Inv, TypeOK
<1>7. CASE \E i \in 1..Len(have) : have[i] >= files[listed].last
  <2>1. \A i \in 1..Len(have) : i \in 1..Len(have')
    BY <1>6
  <2> QED BY <1>6, <1>7, <2>1
<1>8. CASE \E i \in 1..Len(session) : session[i] >= files[listed].last
  <2>1. \A i \in 1..Len(session) : Len(have) + i \in 1..Len(have')
    BY <1>6
  <2> QED BY <1>6, <1>8, <2>1
<1> QED BY <1>4, <1>5, <1>7, <1>8 DEF Reaches

\* What a session whose reader has not stalled delivers is a run of records.
Consecutive == ~stalled => \A i \in 1..Len(session) : session[i] = session[1] + (i - 1)

\* Of what has been delivered the last record is the one with the greatest offset.
LastIsGreatest ==
    /\ \A i \in 1..Len(have) : have[i] <= have[Len(have)]
    /\ \A i \in 1..Len(session) : session[i] <= session[Len(session)]

\* A chunk goes on with the run.
LEMMA ChunkGoesOn ==
    ASSUME Inv, Consecutive, TakeChunk
    PROVE  Consecutive'
<1> SUFFICES ASSUME ~stalled' PROVE \A i \in 1..Len(session') : session'[i] = session'[1] + (i - 1)
  BY DEF Consecutive
<1>1. /\ Arriving("data") /\ session' = session \o AfterState(Head(wire).first, Head(wire).last)
      /\ wire' = Tail(wire) /\ UNCHANGED <<stalled, have>>
  BY DEF TakeChunk
<1>2. Head(wire) = wire[1] /\ wire[1] \in Message /\ 1 \in 1..Len(wire) /\ wire[1].type = "data"
      /\ server \notin {"none", "list"} /\ wire # <<>>
  BY <1>1, ArrivalFact DEF Arriving
<1>3. /\ wire[1].first \in Nat /\ wire[1].last \in Offsets /\ wire[1].last \in Nat
      /\ wire[1].first <= wire[1].last /\ offset <= wire[1].first
  <2>1. wire[1].first \in Offsets /\ wire[1].last \in Offsets
    BY <1>2, MessageFact
  <2> QED BY <1>2, <2>1, NumberFact DEF Inv, WireInv
<1> DEFINE first == wire[1].first
           last == wire[1].last
           t == AfterState(first, last)
           k == Len(session)
<1>4. t \in Seq(Offsets) /\ UpTo(t, first, last) /\ session' = session \o t
  BY <1>1, <1>2, <1>3, AfterFact
<1>5. last \in first..last
  BY <1>3
<1>6. \A i \in 1..(Len(session') - 1) : session'[i + 1] = session'[i] + 1
  BY <1>1, <1>2, <1>4, <1>5, SessionGrows
<1>7. PICK from \in Nat : \A i \in 1..Len(t) : t[i] = from + i - 1
  BY <1>4 DEF UpTo
<1> HIDE DEF t, first, last
<1>8. /\ Len(session') = k + Len(t) /\ k \in Nat /\ Len(t) \in Nat
      /\ \A i \in 1..k : session'[i] = session[i]
      /\ \A i \in 1..Len(t) : session'[k + i] = t[i]
      /\ \A i \in 1..Len(session') : i > k => i - k \in 1..Len(t) /\ session'[i] = t[i - k]
  BY <1>4, ConcatFact DEF Inv, TypeOK
<1>9. \A i \in 1..k : session'[i] = session[1] + (i - 1)
  BY <1>1, <1>8 DEF Consecutive
<1>10. \A i \in 1..k : session[i] \in Nat
  BY NumberFact DEF Inv
<1> HIDE DEF k
<1>11. ASSUME NEW i \in 1..Len(session'), i > k PROVE session'[i] = from + (i - k) - 1
  BY <1>7, <1>8, <1>11
<1> TAKE i \in 1..Len(session')
<1>12. CASE k = 0
  <2>1. 1 \in 1..Len(session') /\ i \in Nat /\ i >= 1
    BY <1>8
  <2>2. session'[1] = from + (1 - k) - 1 /\ session'[i] = from + (i - k) - 1
    BY <1>11, <1>12, <2>1
  <2> QED BY <1>12, <2>1, <2>2
<1>13. CASE k > 0
  <2>1. 1 \in 1..k /\ k \in 1..k /\ session[1] \in Nat
    BY <1>8, <1>10, <1>13
  <2>2. session'[1] = session[1] /\ session'[k] = session[1] + (k - 1)
    BY <1>8, <1>9, <2>1
  <2>3. CASE i \in 1..k
    BY <1>9, <2>2, <2>3
  <2>4. CASE i > k
    <3>1. k \in 1..(Len(session') - 1) /\ k + 1 \in 1..Len(session') /\ k + 1 > k
      BY <1>8, <1>13, <2>4
    <3>2. session'[k + 1] = session'[k] + 1
      BY <1>6, <3>1
    <3>3. session'[k + 1] = from + ((k + 1) - k) - 1
      BY <1>11, <3>1
    <3>4. session'[i] = from + (i - k) - 1
      BY <1>11, <2>4
    <3> QED BY <1>8, <2>1, <2>2, <3>2, <3>3, <3>4
  <2> QED BY <1>8, <2>3, <2>4
<1> QED BY <1>8, <1>12, <1>13

\* A chunk, or what the reader takes of it, ends with the greatest offset.
LEMMA ChunkIsGreatest ==
    ASSUME Inv, LastIsGreatest, TakeChunk \/ StallOnChunk
    PROVE  LastIsGreatest'
<1>1. wire # <<>> /\ Arriving("data") /\ wire' = Tail(wire) /\ UNCHANGED have
  BY DEF TakeChunk, StallOnChunk, Arriving
<1>2. Head(wire) = wire[1] /\ wire[1] \in Message /\ 1 \in 1..Len(wire) /\ wire[1].type = "data"
      /\ server \notin {"none", "list"}
  BY <1>1, ArrivalFact DEF Arriving
<1>3. wire[1].first \in Nat /\ wire[1].last \in Nat /\ wire[1].first <= wire[1].last /\ wire[1].last \in Offsets
  <2>1. wire[1].first \in Offsets /\ wire[1].last \in Offsets
    BY <1>2, MessageFact
  <2> QED BY <1>2, <2>1, NumberFact DEF Inv, WireInv
<1>4. PICK last \in wire[1].first..wire[1].last : session' = session \o AfterState(wire[1].first, last)
  <2>1. CASE TakeChunk
    <3>1. session' = session \o AfterState(wire[1].first, wire[1].last)
      BY <1>2, <2>1 DEF TakeChunk
    <3>2. wire[1].last \in wire[1].first..wire[1].last
      BY <1>3
    <3> QED BY <3>1, <3>2
  <2>2. CASE StallOnChunk
    BY <1>2, <2>2 DEF StallOnChunk
  <2> QED BY <2>1, <2>2
<1>5. /\ session' # <<>> => session'[Len(session')] = last
      /\ Len(session) <= Len(session') /\ \A i \in 1..Len(session) : session'[i] = session[i]
  BY <1>1, <1>2, <1>4, SessionGrows
<1>6. offset <= wire[1].first /\ offset \in Nat
  BY <1>2, NumberFact DEF Inv, WireInv
<1> DEFINE first == wire[1].first
           t == AfterState(first, last)
           k == Len(session)
<1>7. last \in Nat /\ first <= last /\ last \in Offsets /\ first \in Nat
  <2>1. last \in first..wire[1].last /\ wire[1].last \in 0..MaxOffset /\ MaxOffset \in Nat /\ first \in Nat
    BY <1>3, <1>4, FetchAssumption DEF Offsets
  <2> HIDE DEF first
  <2> QED BY <1>3, <2>1 DEF Offsets
<1>8. t \in Seq(Offsets) /\ UpTo(t, first, last) /\ session' = session \o t
  BY <1>2, <1>4, <1>6, <1>7, AfterFact
<1>9. PICK from \in Nat : Len(t) = last + 1 - from /\ \A i \in 1..Len(t) : t[i] = from + i - 1
  BY <1>8 DEF UpTo
<1>10. session # <<>> => session[Len(session)] < first
  BY <1>1, <1>2 DEF Inv, WireFollows, Before
<1> HIDE DEF t, first
<1>11. /\ Len(session') = k + Len(t) /\ k \in Nat /\ Len(t) \in Nat
       /\ \A i \in 1..Len(session') : i > k => i - k \in 1..Len(t) /\ session'[i] = t[i - k]
       /\ session # <<>> <=> k > 0
       /\ session' \in Seq(Offsets)
  BY <1>8, ConcatFact DEF Inv, TypeOK
<1>12. session' # <<>> <=> Len(session') > 0
  BY <1>11, ElementFact
<1>13. ASSUME NEW i \in 1..Len(session') PROVE session'[i] <= session'[Len(session')]
  <2>1. session'[Len(session')] = last
    BY <1>5, <1>11, <1>12
  <2>2. CASE i \in 1..k
    <3>1. session'[i] = session[i] /\ session[i] <= session[k] /\ session[k] < first
      BY <1>5, <1>10, <1>11, <2>2 DEF LastIsGreatest
    <3>2. session[i] \in Nat /\ session[k] \in Nat
      <4>1. k \in 1..k
        BY <1>11, <2>2
      <4> QED BY <2>2, <4>1, NumberFact DEF Inv
    <3> QED BY <1>7, <2>1, <3>1, <3>2
  <2>3. CASE i > k
    <3>1. i - k \in 1..Len(t) /\ session'[i] = t[i - k]
      BY <1>11, <2>3
    <3>2. session'[i] = from + (i - k) - 1
      BY <1>9, <3>1
    <3> QED BY <1>7, <1>9, <1>11, <2>1, <3>1, <3>2
  <2> QED BY <1>11, <2>2, <2>3
<1> QED BY <1>1, <1>13 DEF LastIsGreatest

\* What a session hands over comes after what the sink has.
LEMMA SessionIsGreatest ==
    ASSUME Inv, LastIsGreatest, have' = have \o session, session' = <<>>
    PROVE  LastIsGreatest'
<1> DEFINE h == Len(have)
           k == Len(session)
<1>1. /\ Len(have') = h + k /\ h \in Nat /\ k \in Nat
      /\ \A i \in 1..h : have'[i] = have[i]
      /\ \A i \in 1..k : have'[h + i] = session[i]
      /\ \A i \in 1..Len(have') : i > h => i - h \in 1..k /\ have'[i] = session[i - h]
  BY ConcatFact DEF Inv, TypeOK
<1>2. /\ \A i \in 1..k : session[i] \in Nat /\ session[i] <= session[k]
      /\ \A i \in 1..h : have[i] \in Nat /\ have[i] <= have[h]
  BY NumberFact DEF Inv, LastIsGreatest
<1>3. ASSUME h > 0, NEW i \in 1..k PROVE have[h] < session[i]
  <2>1. have # <<>>
    BY <1>3, ElementFact DEF Inv, TypeOK
  <2> QED BY <1>3, <2>1 DEF Inv, Delivered
<1> HIDE DEF h, k
<1>4. ASSUME NEW i \in 1..Len(have') PROVE have'[i] <= have'[Len(have')]
  <2>1. CASE k = 0
    BY <1>1, <1>2, <2>1
  <2>2. CASE k > 0
    <3>1. k \in 1..k /\ have'[Len(have')] = session[k] /\ session[k] \in Nat
      BY <1>1, <1>2, <2>2
    <3>2. CASE i > h
      BY <1>1, <1>2, <3>1, <3>2
    <3>3. CASE i <= h
      <4>1. h > 0 /\ i \in 1..h /\ h \in 1..h
        BY <1>1, <3>3
      <4>2. have'[i] = have[i] /\ have[i] <= have[h] /\ have[i] \in Nat /\ have[h] \in Nat /\ have[h] < session[k]
        BY <1>1, <1>2, <1>3, <3>1, <4>1
      <4> QED BY <3>1, <4>2
    <3> QED BY <1>1, <3>2, <3>3
  <2> QED BY <1>1, <2>1, <2>2
<1>5. Len(session') = 0
  OBVIOUS
<1> QED BY <1>4, <1>5 DEF LastIsGreatest

\* Every step goes on with the run, begins one or leaves it.
LEMMA ConsecutiveStep ==
    ASSUME Inv, Consecutive, LastIsGreatest, [Next]_vars
    PROVE  Consecutive' /\ LastIsGreatest'
<1>1. CASE UNCHANGED <<session, stalled, have>>
  BY <1>1 DEF Consecutive, LastIsGreatest
<1>2. CASE TakeChunk
  BY <1>2, ChunkGoesOn, ChunkIsGreatest
<1>3. CASE StallOnChunk
  <2>1. stalled'
    BY <1>3 DEF StallOnChunk
  <2> QED BY <1>3, <2>1, ChunkIsGreatest DEF Consecutive
<1>4. CASE OpenChannel \/ TakeStop \/ StallTimeout
  <2>1. session' = <<>>
    BY <1>4 DEF OpenChannel, TakeStop, StallTimeout, NoSession
  <2>2. Len(session') = 0
    BY <2>1
  <2>3. Consecutive'
    BY <2>2 DEF Consecutive
  <2>4. LastIsGreatest'
    <3>1. CASE TakeStop
      BY <2>1, <3>1, SessionIsGreatest DEF TakeStop
    <3>2. CASE OpenChannel \/ StallTimeout
      <4>1. have' = have
        BY <3>2 DEF OpenChannel, StallTimeout
      <4> QED BY <2>2, <4>1 DEF LastIsGreatest
    <3> QED BY <1>4, <3>1, <3>2
  <2> QED BY <2>3, <2>4
<1>5. CASE BeginUpload \/ EndUpload \/ ListFiles \/ OpenFile \/ OpenPartialFile \/ SendChunk \/ Acknowledged \/ EndOfFile
  BY <1>1, <1>5 DEF BeginUpload, EndUpload, ListFiles, OpenFile, OpenPartialFile, SendChunk, Acknowledged, EndOfFile,
                    clientVars
<1>6. CASE NoMoreFiles \/ SendStop \/ TakeError \/ ReadFails \/ Quiet \/ UNCHANGED vars
  BY <1>1, <1>6 DEF NoMoreFiles, SendStop, TakeError, ReadFails, Quiet, vars, clientVars
<1> QED BY <1>2, <1>3, <1>4, <1>5, <1>6 DEF Next, Progress

\* A run that reaches n has all from its first record to n.
LEMMA RunIsWhole ==
    ASSUME Inv, Consecutive, LastIsGreatest, ~stalled, session # <<>>, NEW n \in Nat, have' = have \o session,
           \E i \in 1..Len(have') : have'[i] >= n
    PROVE  \A o \in session[1]..n : \E i \in 1..Len(have') : have'[i] = o
<1> DEFINE h == Len(have)
           k == Len(session)
<1>1. /\ Len(have') = h + k /\ h \in Nat /\ k \in Nat /\ k > 0
      /\ \A i \in 1..h : have'[i] = have[i]
      /\ \A i \in 1..k : have'[h + i] = session[i]
      /\ \A i \in 1..Len(have') : i > h => i - h \in 1..k /\ have'[i] = session[i - h]
  BY ConcatFact, ElementFact DEF Inv, TypeOK
<1>2. \A i \in 1..k : session[i] = session[1] + (i - 1)
  BY DEF Consecutive
<1>3. /\ \A i \in 1..k : session[i] \in Nat
      /\ \A i \in 1..h : have[i] \in Nat
  BY NumberFact DEF Inv
<1> HIDE DEF h, k
<1>4. session[1] \in Nat /\ 1 \in 1..k /\ k \in 1..k /\ session[k] = session[1] + (k - 1)
  BY <1>1, <1>2, <1>3
<1>5. ASSUME NEW o \in session[1]..n PROVE o <= session[k] \/ \E i \in 1..Len(have') : have'[i] = o
  <2>1. PICK i \in 1..Len(have') : have'[i] >= n
    OBVIOUS
  <2>2. CASE i > h
    <3>1. i - h \in 1..k /\ have'[i] = session[i - h]
      BY <1>1, <2>2
    <3>2. session[i - h] = session[1] + ((i - h) - 1)
      BY <1>2, <3>1
    <3> QED BY <1>1, <1>4, <2>1, <3>1, <3>2
  <2>3. CASE i <= h
    <3>1. i \in 1..h /\ have'[i] = have[i] /\ have[i] \in Nat
      BY <1>1, <1>3, <2>3
    <3>2. have[i] < session[1]
      <4>1. have # <<>> /\ h \in 1..h
        BY <1>1, <3>1, ElementFact DEF Inv, TypeOK, h
      <4>2. have[i] <= have[h] /\ have[h] < session[1]
        BY <1>4, <3>1, <4>1 DEF Inv, Delivered, LastIsGreatest, h, k
      <4>3. have[h] \in Nat
        BY <1>3, <4>1
      <4> QED BY <1>4, <3>1, <4>2, <4>3
    <3> QED BY <1>4, <2>1, <3>1, <3>2
  <2> QED BY <1>1, <2>2, <2>3
<1> TAKE o \in session[1]..n
<1>6. CASE o <= session[k]
  <2> DEFINE i == o - session[1] + 1
  <2>0. k \in Nat /\ o \in Int /\ session[1] <= o
    BY <1>1, <1>4
  <2>1. i \in 1..k /\ o = session[1] + (i - 1)
    BY <1>4, <1>6, <2>0
  <2> HIDE DEF i
  <2>2. session[i] = o
    BY <1>2, <2>1
  <2>3. h + i \in 1..Len(have') /\ have'[h + i] = o
    BY <1>1, <2>1, <2>2
  <2> QED BY <2>3
<1> QED BY <1>5, <1>6

\* A session that ends without an error has given the client every record from
\* the first one it delivered to the end of the files that were there when it
\* began (stop("server") and DataStop).
THEOREM SessionsAreComplete == Spec => SessionComplete
<1>1. Init => Consecutive /\ LastIsGreatest
  BY DEF Init, Consecutive, LastIsGreatest
<1>2. Inv /\ Consecutive /\ LastIsGreatest /\ [Next]_vars => Consecutive' /\ LastIsGreatest'
  BY ConsecutiveStep
<1>3. Inv /\ Consecutive /\ LastIsGreatest /\ [Next]_vars =>
         [(client = "reading" /\ client' = "idle" /\ readErrors = 0 /\ ~stalled /\ listed > 0)
             => /\ \E i \in 1..Len(have') : have'[i] >= files[listed].last
                /\ session # <<>> => \A o \in session[1]..files[listed].last :
                                        \E i \in 1..Len(have') : have'[i] = o]_vars
  <2> SUFFICES ASSUME Inv, Consecutive, LastIsGreatest, [Next]_vars,
                      client = "reading", client' = "idle", readErrors = 0, ~stalled, listed > 0
               PROVE  /\ \E i \in 1..Len(have') : have'[i] >= files[listed].last
                      /\ session # <<>> => \A o \in session[1]..files[listed].last :
                                              \E i \in 1..Len(have') : have'[i] = o
    OBVIOUS
  <2>1. \E i \in 1..Len(have') : have'[i] >= files[listed].last
    BY EndIsComplete
  <2>2. have' = have \o session
    BY EndOfSession DEF TakeStop, StallTimeout
  <2>3. files[listed].last \in Nat
    BY NumberFact DEF Inv
  <2> QED BY <2>1, <2>2, <2>3, RunIsWhole
<1> QED BY <1>1, <1>2, <1>3, Invariant, PTL DEF Spec, SessionComplete

-----------------------------------------------------------------------------
(* Refinement.                                                             *)

\* Uploads keep the records of the files that a session has listed.
LEMMA LastStays ==
    ASSUME Inv, BeginUpload \/ EndUpload
    PROVE  \A i \in 1..Len(files) : files'[i].last = files[i].last
<1> DEFINE F == [start : Offsets, last : Offsets, closed : BOOLEAN]
<1>1. files \in Seq(F)
  BY DEF Inv, TypeOK
<1>2. CASE BeginUpload
  <2>1. PICK last \in NextOffset..MaxOffset :
           files' = Append(files, [start |-> NextOffset, last |-> last, closed |-> FALSE])
    BY <1>2 DEF BeginUpload
  <2>2. NextOffset \in Offsets
    BY <1>2 DEF BeginUpload
  <2>3. last \in Offsets
    BY <2>1, <2>2, FetchAssumption DEF Offsets
  <2>4. [start |-> NextOffset, last |-> last, closed |-> FALSE] \in F
    BY <2>2, <2>3
  <2> HIDE DEF F
  <2> QED BY <1>1, <2>1, <2>4, AppendFact
<1>3. CASE EndUpload
  <2>1. files' = [files EXCEPT ![Len(files)].closed = TRUE] /\ DOMAIN files = 1..Len(files)
    BY <1>1, <1>3 DEF EndUpload
  <2>2. ASSUME NEW i \in 1..Len(files)
        PROVE  files'[i] = IF i = Len(files) THEN [files[i] EXCEPT !.closed = TRUE] ELSE files[i]
    BY <2>1
  <2> SUFFICES ASSUME NEW i \in 1..Len(files) PROVE files'[i].last = files[i].last
    OBVIOUS
  <2>3. files[i] \in F
    <3> HIDE DEF F
    <3> QED BY <1>1, ElementFact
  <2>4. CASE i = Len(files)
    BY <2>2, <2>3, <2>4
  <2>5. CASE i # Len(files)
    BY <2>2, <2>5
  <2> QED BY <2>4, <2>5
<1> QED BY <1>2, <1>3

\* As long as the files listed and the errors stay, so does what is due.
LEMMA DueStays ==
    ASSUME Inv, UNCHANGED <<listed, readErrors>>,
           listed > 0 => files'[listed].last = files[listed].last,
           server \in {"none", "list"} <=> server' \in {"none", "list"}
    PROVE  Due' = Due
<1>1. CASE server \in {"none", "list"} \/ listed = 0 \/ readErrors > 0
  BY <1>1 DEF Due
<1>2. CASE ~(server \in {"none", "list"} \/ listed = 0 \/ readErrors > 0)
  <2>1. listed > 0
    BY <1>2, NumberFact DEF Inv
  <2> QED BY <1>2, <2>1 DEF Due
<1> QED BY <1>1, <1>2

\* What arrives of a chunk is delivered, or nothing is and the reader may stall.
LEMMA ChunkDelivered ==
    ASSUME Inv, client = "reading", wire # <<>>, wire' = Tail(wire), wire[1].type = "data",
           NEW last \in wire[1].first..wire[1].last,
           session' = session \o AfterState(wire[1].first, last),
           UNCHANGED <<have, client>>, Due' = Due, (~stalled)' \in {~stalled, FALSE}
    PROVE  [Delivery!Next]_(Delivery!deliveryVars)
<1> DEFINE first == wire[1].first
           t == AfterState(first, last)
           k == Len(session)
<1>1. /\ server \notin {"none", "list"} /\ wire[1] \in Message /\ 1 \in 1..Len(wire)
  BY ArrivalFact
<1>2. first \in Nat /\ wire[1].last \in Offsets /\ offset <= first
  <2>1. wire[1].first \in Offsets /\ wire[1].last \in Offsets
    BY <1>1, MessageFact
  <2> QED BY <1>1, <2>1, NumberFact DEF Inv, WireInv
<1>3. last \in Offsets /\ last \in Nat /\ first <= last /\ offset \in Nat
  <2>1. wire[1].last \in 0..MaxOffset /\ MaxOffset \in Nat /\ offset \in Nat
    BY <1>2, NumberFact, FetchAssumption DEF Inv, Offsets
  <2>2. last \in first..wire[1].last
    OBVIOUS
  <2> HIDE DEF first
  <2> QED BY <1>2, <2>1, <2>2 DEF Offsets
<1>4. t \in Seq(Offsets) /\ session' = session \o t /\ UpTo(t, first, last)
  BY <1>1, <1>2, <1>3, AfterFact
<1>5. PICK from \in {first, first + 1} :
         /\ from \in Nat /\ Len(t) = last + 1 - from /\ \A i \in 1..Len(t) : t[i] = from + i - 1
         /\ have # <<>> => offset < from
         /\ offset < first => from = first
  BY <1>4 DEF UpTo
<1>6. Before(first) /\ (offset = IF have = <<>> THEN 0 ELSE have[Len(have)])
  BY <1>1 DEF Inv, WireFollows, Where
<1> HIDE DEF t, first
<1>7. CASE from > last
  <2>1. Len(t) = 0
    BY <1>3, <1>5, <1>7, <1>4, ElementFact
  <2>2. t = <<>>
    BY <1>4, <2>1, ElementFact
  <2>3. session' = session
    BY <1>4, <2>2 DEF Inv, TypeOK
  <2>4. CASE (~stalled)' = ~stalled
    BY <2>3, <2>4 DEF Delivery!deliveryVars
  <2>5. CASE (~stalled)' = FALSE
    BY <2>3, <2>5 DEF Delivery!Next, Delivery!Stall
  <2> QED BY <2>4, <2>5
<1>8. CASE from <= last
  <2>1. from \in 0..MaxOffset /\ last \in 0..MaxOffset
    BY <1>3, <1>5, <1>8, FetchAssumption DEF Offsets
  <2>2. t = Delivery!Run(from, last)
    <3>1. t = [i \in 1..Len(t) |-> t[i]]
      BY <1>4
    <3>2. t = [i \in 1..(last + 1 - from) |-> from + i - 1]
      BY <1>5, <3>1
    <3> QED BY <3>2 DEF Delivery!Run
  <2>3. have # <<>> => have[Len(have)] < from
    BY <1>5, <1>6
  <2>4. ASSUME session # <<>>
        PROVE  session[Len(session)] < from /\ (~stalled => session[Len(session)] + 1 = from)
    <3>1. session[k] < first /\ (~stalled => session[k] + 1 = first)
      BY <1>6, <2>4 DEF Before
    <3>2. k \in 1..k /\ session[k] \in Nat
      <4>1. k \in 1..k
        BY <2>4, ElementFact DEF Inv, TypeOK
      <4> QED BY <4>1, NumberFact DEF Inv
    <3>3. offset <= session[k]
      <4>1. have # <<>> => have[Len(have)] < session[k]
        BY <3>2 DEF Inv, Delivered
      <4>2. have = <<>> => offset = 0
        BY <1>6
      <4>3. have # <<>> => offset < session[k]
        BY <1>6, <4>1
      <4> QED BY <1>3, <3>2, <4>2, <4>3
    <3>4. from = first
      BY <1>2, <1>3, <1>5, <3>1, <3>2, <3>3
    <3> QED BY <3>1, <3>4
  <2>5. Delivery!Deliver(from, last)
    BY <1>4, <1>8, <2>2, <2>3, <2>4 DEF Delivery!Deliver
  <2> QED BY <2>1, <2>5 DEF Delivery!Next
<1> QED BY <1>3, <1>5, <1>7, <1>8

\* What ends a session keeps it or abandons it.
LEMMA EndDelivered ==
    ASSUME Inv, [Next]_vars, TakeStop \/ StallTimeout
    PROVE  Delivery!Next
<1>1. /\ client' = "idle" /\ session' = <<>> /\ stalled' = FALSE /\ server' = "none"
  BY DEF TakeStop, StallTimeout, NoSession
<1>2. client = "reading"
  <2>1. CASE TakeStop
    BY <2>1 DEF TakeStop, Arriving
  <2>2. CASE StallTimeout
    <3>1. stalled
      BY <2>2 DEF StallTimeout
    <3>2. server # "none"
      BY <3>1 DEF Inv, Where
    <3> QED BY <3>2 DEF Inv, Where, TypeOK
  <2> QED BY <2>1, <2>2
<1>3. Due' = 0
  BY <1>1 DEF Due
<1>4. Delivery!Over
  BY <1>1, <1>3 DEF Delivery!Over
<1>5. CASE TakeStop
  <2>1. have' = have \o session
    BY <1>5 DEF TakeStop
  <2>2. ASSUME ~stalled, Due > 0
        PROVE  \E i \in 1..Len(have \o session) : (have \o session)[i] + 1 >= Due
    <3>1. listed > 0 /\ readErrors = 0 /\ Due = files[listed].last + 1
      <4>1. ~(server \in {"none", "list"} \/ listed = 0 \/ readErrors > 0) /\ Due = files[listed].last + 1
        BY <2>2 DEF Due
      <4>2. listed \in Nat /\ readErrors \in Nat
        BY FetchAssumption, NumberFact DEF Inv, TypeOK
      <4> QED BY <4>1, <4>2
    <3>2. PICK i \in 1..Len(have') : have'[i] >= files[listed].last
      BY <1>1, <1>2, <2>2, <3>1, EndIsComplete
    <3>3. have'[i] \in Nat /\ files[listed].last \in Nat
      <4>1. have' \in Seq(Offsets)
        BY <2>1, ConcatFact DEF Inv, TypeOK
      <4>2. have'[i] \in Offsets
        BY <4>1, ElementFact
      <4>3. listed \in 1..Len(files)
        BY <3>1, NumberFact DEF Inv
      <4> QED BY <4>2, <4>3, NumberFact DEF Inv
    <3>4. have'[i] + 1 >= Due
      BY <3>1, <3>2, <3>3
    <3> QED BY <2>1, <3>4
  <2> QED BY <1>2, <1>4, <2>1, <2>2 DEF Delivery!Commit, Delivery!Next
<1>6. CASE StallTimeout
  <2>1. have' = have /\ stalled
    BY <1>6 DEF StallTimeout
  <2> QED BY <1>2, <1>4, <2>1 DEF Delivery!Abandon, Delivery!Next
<1> QED BY <1>5, <1>6

\* The handler's steps between the messages are seen by nobody.
LEMMA HiddenSteps ==
    ASSUME Inv, [Next]_vars,
           \/ BeginUpload \/ EndUpload \/ OpenFile \/ OpenPartialFile \/ SendChunk \/ Acknowledged
           \/ EndOfFile \/ NoMoreFiles \/ SendStop \/ TakeError \/ Quiet \/ UNCHANGED vars
    PROVE  UNCHANGED Delivery!deliveryVars
<1>1. UNCHANGED <<client, session, stalled, have, listed, readErrors>>
  <2>1. CASE BeginUpload \/ EndUpload \/ Quiet \/ UNCHANGED vars
    BY <2>1 DEF BeginUpload, EndUpload, Quiet, vars, fetchVars, clientVars
  <2>2. CASE OpenFile \/ OpenPartialFile \/ SendChunk \/ Acknowledged
    BY <2>2 DEF OpenFile, OpenPartialFile, SendChunk, Acknowledged, clientVars
  <2>3. CASE EndOfFile \/ NoMoreFiles \/ SendStop \/ TakeError
    BY <2>3 DEF EndOfFile, NoMoreFiles, SendStop, TakeError, clientVars
  <2> QED BY <2>1, <2>2, <2>3
<1>2. server \in {"none", "list"} <=> server' \in {"none", "list"}
  <2>1. CASE BeginUpload \/ EndUpload \/ Quiet \/ UNCHANGED vars
    BY <2>1 DEF BeginUpload, EndUpload, Quiet, vars, fetchVars
  <2>2. CASE OpenFile \/ OpenPartialFile \/ SendChunk \/ Acknowledged
    BY <2>2 DEF OpenFile, OpenPartialFile, SendChunk, Acknowledged
  <2>3. CASE EndOfFile \/ NoMoreFiles \/ SendStop \/ TakeError
    BY <2>3 DEF EndOfFile, NoMoreFiles, SendStop, TakeError
  <2> QED BY <2>1, <2>2, <2>3
<1>3. listed > 0 => files'[listed].last = files[listed].last
  <2>1. CASE BeginUpload \/ EndUpload
    <3>1. listed > 0 => listed \in 1..Len(files)
      BY NumberFact DEF Inv
    <3> QED BY <2>1, <3>1, LastStays
  <2>2. CASE ~(BeginUpload \/ EndUpload)
    <3>1. files' = files
      <4>1. CASE OpenFile \/ OpenPartialFile \/ SendChunk \/ Acknowledged
        BY <4>1 DEF OpenFile, OpenPartialFile, SendChunk, Acknowledged
      <4>2. CASE EndOfFile \/ NoMoreFiles \/ SendStop \/ TakeError \/ Quiet \/ UNCHANGED vars
        BY <4>2 DEF EndOfFile, NoMoreFiles, SendStop, TakeError, Quiet, vars
      <4> QED BY <2>2, <4>1, <4>2
    <3> QED BY <3>1
  <2> QED BY <2>1, <2>2
<1>4. Due' = Due
  BY <1>1, <1>2, <1>3, DueStays
<1> QED BY <1>1, <1>4 DEF Delivery!deliveryVars

\* The steps by which a session begins and finds its files.
LEMMA SessionBegins ==
    ASSUME Inv, OpenChannel \/ ListFiles \/ ReadFails
    PROVE  [Delivery!Next]_(Delivery!deliveryVars)
<1>1. CASE OpenChannel
  <2>1. /\ client = "idle" /\ client' = "reading" /\ server' = "list" /\ session' = <<>>
        /\ UNCHANGED <<stalled, have>> /\ server = "none"
    BY <1>1 DEF OpenChannel, Inv, Where
  <2>2. Due = 0 /\ Due' = 0 /\ session = <<>>
    BY <2>1 DEF Due, Inv, Where
  <2> QED BY <2>1, <2>2 DEF Delivery!Begin, Delivery!Next
<1>2. ASSUME client = "reading", UNCHANGED <<client, session, stalled, have>>, Due' = 0
      PROVE  [Delivery!Next]_(Delivery!deliveryVars)
  BY <1>2 DEF Delivery!Excuse, Delivery!Next
<1>3. CASE ListFiles
  <2>1. /\ server = "list" /\ client = "reading" /\ UNCHANGED <<client, session, stalled, have, files, readErrors>>
    <3>1. server = "list" /\ UNCHANGED <<client, session, stalled, have, files, readErrors>>
      BY <1>3 DEF ListFiles, clientVars
    <3> QED BY <3>1 DEF Inv, Where, TypeOK
  <2>2. Due = 0
    BY <2>1 DEF Due
  <2>3. CASE Due' = 0
    BY <1>2, <2>1, <2>3
  <2>4. CASE Due' # 0
    <3>1. Due' = files'[listed'].last + 1 /\ listed' # 0
      BY <2>4 DEF Due
    <3>2. listed' \in 1..Len(files)
      <4>1. TypeOK'
        BY <1>3, ListFilesStep DEF Inv
      <4>2. listed' \in 0..Len(files) /\ Len(files) \in Nat
        BY <2>1, <4>1, NumberFact DEF TypeOK, Inv
      <4> QED BY <3>1, <4>2
    <3>3. files[listed'].last \in 0..MaxOffset /\ MaxOffset \in Nat
      BY <3>2, NumberFact DEF Inv, Offsets
    <3>4. Due' \in 1..(MaxOffset + 1)
      BY <2>1, <3>1, <3>3
    <3> QED BY <2>1, <2>2, <3>4 DEF Delivery!Find, Delivery!Next
  <2> QED BY <2>3, <2>4
<1>4. CASE ReadFails
  <2>1. /\ server = "next" /\ client = "reading" /\ UNCHANGED <<client, session, stalled, have>>
        /\ readErrors' = readErrors + 1
    <3>1. server = "next" /\ UNCHANGED <<client, session, stalled, have>> /\ readErrors' = readErrors + 1
      BY <1>4 DEF ReadFails, clientVars
    <3> QED BY <3>1 DEF Inv, Where, TypeOK
  <2>2. readErrors' > 0
    <3>1. readErrors \in Nat
      BY FetchAssumption DEF Inv, TypeOK
    <3> QED BY <2>1, <3>1
  <2>3. Due' = 0
    BY <2>2 DEF Due
  <2> QED BY <1>2, <2>1, <2>3
<1> QED BY <1>1, <1>3, <1>4

\* A chunk that arrives is taken, or the reader stalls on it.
LEMMA ChunkArrives ==
    ASSUME Inv, TakeChunk \/ StallOnChunk
    PROVE  [Delivery!Next]_(Delivery!deliveryVars)
<1>1. /\ client = "reading" /\ wire # <<>> /\ Head(wire).type = "data" /\ wire' = Tail(wire)
      /\ UNCHANGED <<client, have, files, server, listed, readErrors>>
  BY DEF TakeChunk, StallOnChunk, Arriving
<1>2. Head(wire) = wire[1] /\ wire[1] \in Message /\ 1 \in 1..Len(wire) /\ wire[1].type = "data"
  BY <1>1, ArrivalFact
<1>3. Due' = Due
  BY <1>1, DueStays
<1>4. CASE TakeChunk
  <2>1. session' = session \o AfterState(wire[1].first, wire[1].last) /\ stalled' = stalled
    BY <1>2, <1>4 DEF TakeChunk
  <2>2. wire[1].last \in wire[1].first..wire[1].last
    <3>1. wire[1].first <= wire[1].last
      BY <1>2 DEF Inv, WireInv
    <3>2. wire[1].first \in Nat /\ wire[1].last \in Nat
      BY <1>2, MessageFact, NumberFact DEF Inv
    <3> QED BY <3>1, <3>2
  <2>3. (~stalled)' \in {~stalled, FALSE}
    BY <2>1
  <2> QED BY <1>1, <1>2, <1>3, <2>1, <2>2, <2>3, ChunkDelivered
<1>5. CASE StallOnChunk
  <2>1. PICK last \in wire[1].first..wire[1].last : session' = session \o AfterState(wire[1].first, last)
    BY <1>2, <1>5 DEF StallOnChunk
  <2>2. stalled' = TRUE
    BY <1>5 DEF StallOnChunk
  <2>3. (~stalled)' \in {~stalled, FALSE}
    BY <2>2
  <2> QED BY <1>1, <1>2, <1>3, <2>1, <2>3, ChunkDelivered
<1> QED BY <1>4, <1>5

\* Whatever uploads add, however records are spread over files and chunks and
\* acknowledgements come late, and wherever the reader stalls, the sink sees a
\* delivery in order: DataFetchHandler and DataPMSource implement RecordDelivery.
THEOREM DeliversInSessions == Spec => ImplementsRecordDelivery
<1>1. Init => Delivery!Init
  <2> SUFFICES ASSUME Init PROVE Delivery!Init
    OBVIOUS
  <2>1. Due = 0
    BY DEF Init, Due
  <2> QED BY <2>1 DEF Init, Delivery!Init
<1>2. Inv /\ [Next]_vars => [Delivery!Next]_(Delivery!deliveryVars)
  <2> SUFFICES ASSUME Inv, [Next]_vars PROVE [Delivery!Next]_(Delivery!deliveryVars)
    OBVIOUS
  <2>1. CASE \/ BeginUpload \/ EndUpload \/ OpenFile \/ OpenPartialFile \/ SendChunk \/ Acknowledged
             \/ EndOfFile \/ NoMoreFiles \/ SendStop \/ TakeError \/ Quiet \/ UNCHANGED vars
    BY <2>1, HiddenSteps
  <2>2. CASE OpenChannel \/ ListFiles \/ ReadFails
    BY <2>2, SessionBegins
  <2>3. CASE TakeChunk \/ StallOnChunk
    BY <2>3, ChunkArrives
  <2>4. CASE TakeStop \/ StallTimeout
    BY <2>4, EndDelivered
  <2> QED BY <2>1, <2>2, <2>3, <2>4 DEF Next, Progress
<1> QED BY <1>1, <1>2, Invariant, PTL DEF Spec, ImplementsRecordDelivery, Delivery!Spec
=============================================================================
