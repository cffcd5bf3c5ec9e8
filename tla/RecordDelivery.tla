--------------------------- MODULE RecordDelivery ---------------------------
(***************************************************************************)
(* What a sink is promised about the records of a batch it fetches in      *)
(* several sessions, however the registry keeps and sends them: each       *)
(* session brings consecutive records, all of them after those the sink    *)
(* has; what it brings is kept as a whole or not at all; and a session     *)
(* that nothing has disturbed brings all that was due when it began.       *)
(* DataFetch implements it, with files, chunks, acknowledgements and a     *)
(* stream that may stall.                                                  *)
(*                                                                         *)
(* Nothing is promised about the first record of a session: a session may  *)
(* begin too late in the batch (readDataBatch, data-storage.ts:32-39).     *)
(***************************************************************************)
EXTENDS Naturals, Sequences

CONSTANT MaxOffset  \* records have the offsets 0..MaxOffset

VARIABLES
    have,       \* records the sink has kept
    session,    \* records the session has brought
    open,       \* a session is under way
    whole,      \* its reader has taken all it was given
    due         \* it has to bring the records before this offset

deliveryVars == <<have, session, open, whole, due>>

Run(first, last) == [i \in 1..(last + 1 - first) |-> first + i - 1]

Init == have = <<>> /\ session = <<>> /\ open = FALSE /\ whole = TRUE /\ due = 0

Begin ==
    /\ ~open /\ open' = TRUE
    /\ UNCHANGED <<have, session, whole, due>>

\* The session finds what the batch holds ...
Find(n) ==
    /\ open /\ due = 0 /\ due' = n
    /\ UNCHANGED <<have, session, open, whole>>

\* ... but cannot read it to its end.
Excuse ==
    /\ open /\ due' = 0
    /\ UNCHANGED <<have, session, open, whole>>

\* Records go on where the session is.
Deliver(first, last) ==
    /\ open /\ first <= last
    /\ have # <<>> => have[Len(have)] < first
    /\ session # <<>> =>
          /\ session[Len(session)] < first
          /\ whole => session[Len(session)] + 1 = first
    /\ session' = session \o Run(first, last)
    /\ whole' \in {whole, FALSE}
    /\ UNCHANGED <<have, open, due>>

\* The reader stalls before the first record of what is sent.
Stall ==
    /\ open /\ whole' = FALSE
    /\ UNCHANGED <<have, session, open, due>>

Over == session' = <<>> /\ open' = FALSE /\ whole' = TRUE /\ due' = 0

\* The sink keeps what the session has brought: all that was due, if the reader
\* has taken all.
Commit ==
    /\ open
    /\ whole /\ due > 0 =>
          \E i \in 1..Len(have \o session) : (have \o session)[i] + 1 >= due
    /\ have' = have \o session
    /\ Over

\* The session has failed, and leaves nothing.
Abandon == open /\ ~whole /\ have' = have /\ Over

Next ==
    \/ Begin \/ Excuse \/ Stall \/ Commit \/ Abandon
    \/ \E n \in 1..(MaxOffset + 1) : Find(n)
    \/ \E first, last \in 0..MaxOffset : Deliver(first, last)

Spec == Init /\ [][Next]_deliveryVars
=============================================================================
