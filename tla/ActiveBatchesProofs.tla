------------------------ MODULE ActiveBatchesProofs ------------------------
(***************************************************************************)
(* Theorems about ActiveBatches, for any number of streams, batches and    *)
(* handlers, any requests and any size of the connection pool.             *)
(*                                                                         *)
(* The argument: every row a transaction has written is locked by it, so   *)
(* no two transactions write the same row; a row enters a transaction's    *)
(* set "on" only when nobody else has one of its stream and every other    *)
(* active row of the stream is in the transaction's own set "off".  So     *)
(* what a commit adds takes the place of what it removes.                  *)
(*                                                                         *)
(* When handlers publish batches of their own, ActiveBatches implements    *)
(* PublishedBatches: only the handler that names a batch makes it active,  *)
(* so when save() reloads its row the handler has cleared it or finds it   *)
(* inactive, and writes and locks it.  At the commit, all rows the request *)
(* names are written, and no others: the streams of the request change at  *)
(* once, and no other stream does.                                         *)
(***************************************************************************)
EXTENDS ActiveBatches, TLAPS

\* Control points at which the handler works on an identifier of its request.
Working == InTransaction \ {"commit"}

\* Control points after findBatchOrFail.
BatchFound == Working \ {"find"}

\* The handler works on an identifier of its request, whose batch exists once
\* it has been looked for; a default batch that was found exists, too.
PositionInv ==
    \A h \in Handlers :
       /\ pc[h] \in {"idle", "queued"} => pos[h] = 1
       /\ pc[h] \in Working => pos[h] <= Len(request[h])
       /\ pc[h] \in BatchFound => Target(h) \in Existing
       /\ pc[h] \in {"reloadOld", "clearOld"} => CurrentRow(h) \in Existing

\* Row locks are exclusive.
LocksInv ==
    \A g, h \in Handlers : g # h => Held(g) \cap Held(h) = {}

\* A row about to become active is the only one of its stream that does, and
\* its transaction has cleared the row that is active now.
IndexInv ==
    \A h \in Handlers : \A r \in on[h] :
       /\ \A q \in active : SameStream(q, r) => q = r \/ q \in off[h]
       /\ \A g \in Handlers : \A q \in on[g] : SameStream(q, r) => q = r /\ g = h

\* Every transaction that has cleared an active row has made another row of
\* the stream active, or is about to.
ReplacementInv ==
    \A h \in Handlers : \A r \in off[h] \cap active :
       \/ /\ pc[h] \in {"reloadNew", "setNew", "checkIndex"}
          /\ SameStream(Target(h), r)
       \/ \E q \in on[h] : SameStream(q, r)

Inv ==
    /\ TypeOK
    /\ PositionInv
    /\ LocksInv
    /\ IndexInv
    /\ AtMostOneActive
    /\ ReplacementInv

-----------------------------------------------------------------------------
\* What the type invariant and PositionInv say of the identifier at hand.
LEMMA TargetFact ==
    ASSUME NEW h \in Handlers, TypeOK, PositionInv, pc[h] \in Working
    PROVE  /\ Target(h) \in Rows
           /\ Target(h) = <<Target(h)[1], Target(h)[2]>>
           /\ Target(h)[1] \in Streams
<1>1. pos[h] \in 1..Len(request[h]) /\ request[h] \in Seq(Rows)
  BY DEF TypeOK, PositionInv, Working
<1>2. Target(h) \in Rows
  BY <1>1 DEF Target
<1>3. QED
  BY <1>2 DEF Rows

\* What a handler may see of the table are rows of the table.
LEMMA SeenFact ==
    ASSUME NEW h \in Handlers, TypeOK
    PROVE  Seen(h) \subseteq Existing
BY DEF TypeOK, Seen

LEMMA InitInv == Init => Inv
<1> SUFFICES ASSUME Init PROVE Inv
  OBVIOUS
<1> USE DEF Init
<1>1. TypeOK
  BY RowsAssumption DEF TypeOK
<1>2. PositionInv
  BY DEF PositionInv, Working, BatchFound, InTransaction
<1>3. LocksInv
  BY DEF LocksInv, Held
<1>4. IndexInv /\ ReplacementInv
  BY DEF IndexInv, ReplacementInv
<1>5. AtMostOneActive
  BY RowsAssumption DEF AtMostOneActive
<1>6. QED
  BY <1>1, <1>2, <1>3, <1>4, <1>5 DEF Inv

\* The type invariant is kept by every step.
LEMMA TypeStep == TypeOK /\ PositionInv /\ [Next]_vars => TypeOK'
<1> SUFFICES ASSUME TypeOK, PositionInv, [Next]_vars PROVE TypeOK'
  OBVIOUS
<1> USE DEF TypeOK, InTransaction, Ended, GoTo
<1>1. ASSUME NEW h \in Handlers, Receive(h) PROVE TypeOK'
  BY <1>1, RequestsAssumption DEF Receive
<1>2. ASSUME NEW h \in Handlers, Begin(h) PROVE TypeOK'
  BY <1>2 DEF Begin
<1>3. ASSUME NEW h \in Handlers, FindBatch(h) PROVE TypeOK'
  BY <1>3 DEF FindBatch
<1>4. ASSUME NEW h \in Handlers,
             BatchNotFound(h) \/ UniqueViolation(h) \/ Fail(h) \/ DeadlockAbort(h)
      PROVE  TypeOK'
  BY <1>4 DEF BatchNotFound, UniqueViolation, Fail, DeadlockAbort, Rollback
<1>5. ASSUME NEW h \in Handlers, FindDefault(h) PROVE TypeOK'
  BY <1>5 DEF FindDefault
<1>6. ASSUME NEW h \in Handlers, ReloadOld(h) PROVE TypeOK'
  BY <1>6 DEF ReloadOld
<1>7. ASSUME NEW h \in Handlers, ClearOld(h) PROVE TypeOK'
  <2>1. CurrentRow(h) \in Existing
    BY <1>7 DEF PositionInv, ClearOld
  <2>2. QED
    BY <1>7, <2>1 DEF ClearOld
<1>8. ASSUME NEW h \in Handlers, ReloadNew(h) PROVE TypeOK'
  BY <1>8 DEF ReloadNew
<1>9. ASSUME NEW h \in Handlers, LockNew(h) PROVE TypeOK'
  BY <1>9 DEF LockNew
<1>10. ASSUME NEW h \in Handlers, SetNew(h) PROVE TypeOK'
  <2>1. Target(h) \in Existing
    BY <1>10 DEF PositionInv, SetNew, BatchFound, Working
  <2>2. QED
    BY <1>10, <2>1 DEF SetNew
<1>11. ASSUME NEW h \in Handlers, Log(h) PROVE TypeOK'
  <2>1. pos' \in [Handlers -> Nat \ {0}]
    <3>1. CASE pos[h] < Len(request[h])
      BY <1>11, <3>1 DEF Log
    <3>2. CASE ~(pos[h] < Len(request[h]))
      BY <1>11, <3>2 DEF Log
    <3>3. QED
      BY <3>1, <3>2
  <2>2. pc' \in [Handlers -> {"idle", "queued"} \cup InTransaction \cup Ended]
    BY <1>11 DEF Log
  <2>3. QED
    BY <1>11, <2>1, <2>2 DEF Log
<1>12. ASSUME NEW h \in Handlers, Commit(h) PROVE TypeOK'
  BY <1>12, SeenFact DEF Commit
<1>13. CASE UNCHANGED vars
  BY <1>13 DEF vars
<1>14. QED
  BY <1>1, <1>2, <1>3, <1>4, <1>5, <1>6, <1>7, <1>8, <1>9, <1>10, <1>11, <1>12,
     <1>13 DEF Next, Step, Quiet

\* A step of h leaves the state of the other handlers alone.
OnlyBy(h) ==
    \A g \in Handlers \ {h} :
       /\ pc'[g] = pc[g] /\ request'[g] = request[g] /\ pos'[g] = pos[g]
       /\ on'[g] = on[g] /\ off'[g] = off[g]

LEMMA StepsAlone ==
    ASSUME TypeOK, NEW h \in Handlers, Receive(h) \/ Step(h) \/ Fail(h)
    PROVE  OnlyBy(h)
<1> USE DEF TypeOK, GoTo, OnlyBy
<1>1. CASE Receive(h) \/ Begin(h) \/ FindBatch(h) \/ FindDefault(h) \/ ReloadOld(h)
  BY <1>1 DEF Receive, Begin, FindBatch, FindDefault, ReloadOld
<1>2. CASE ClearOld(h) \/ ReloadNew(h) \/ LockNew(h) \/ SetNew(h)
  BY <1>2 DEF ClearOld, ReloadNew, LockNew, SetNew
<1>3. CASE Log(h)
  BY <1>3 DEF Log
<1>4. CASE Commit(h)
  BY <1>4 DEF Commit
<1>5. CASE Rollback(h)
  BY <1>5 DEF Rollback
<1>6. QED
  BY <1>1, <1>2, <1>3, <1>4, <1>5
     DEF Step, Fail, BatchNotFound, UniqueViolation, DeadlockAbort

\* Positions stay inside the request, and what has been found exists.
LEMMA PositionStep == Inv /\ [Next]_vars => PositionInv'
<1> SUFFICES ASSUME Inv, [Next]_vars PROVE PositionInv'
  OBVIOUS
<1>0. TypeOK /\ PositionInv /\ TypeOK'
  BY TypeStep DEF Inv
<1> USE <1>0 DEF TypeOK, PositionInv, Working, BatchFound, InTransaction, Ended,
                 Target, CurrentRow, GoTo
<1>1. ASSUME NEW h \in Handlers, Receive(h) PROVE PositionInv'
  BY <1>1 DEF Receive
<1>2. ASSUME NEW h \in Handlers, Begin(h) PROVE PositionInv'
  <2>1. request[h] # <<>> => 1 <= Len(request[h])
    BY DEF Begin
  <2>2. QED
    BY <1>2, <2>1 DEF Begin
<1>3. ASSUME NEW h \in Handlers, FindBatch(h) PROVE PositionInv'
  BY <1>3 DEF FindBatch
<1>4. ASSUME NEW h \in Handlers,
             BatchNotFound(h) \/ UniqueViolation(h) \/ Fail(h) \/ DeadlockAbort(h)
      PROVE  PositionInv'
  <2>1. Rollback(h) /\ UNCHANGED request
    BY <1>4 DEF BatchNotFound, UniqueViolation, Fail, DeadlockAbort, Rollback
  <2>2. QED
    BY <2>1 DEF Rollback
<1>5. ASSUME NEW h \in Handlers, FindDefault(h) PROVE PositionInv'
  <2>1. /\ pc[h] = "findDefault" /\ pc' = [pc EXCEPT ![h] = pc'[h]]
        /\ pc'[h] \in {"reloadNew", "reloadOld"} /\ UNCHANGED <<active, request, pos, on, off>>
    BY <1>5 DEF FindDefault
  <2>2. \A g \in Handlers \ {h} : pc'[g] = pc[g] /\ current'[g] = current[g]
    BY <1>5 DEF FindDefault
  <2>3. pc'[h] = "reloadOld" => <<Target(h)[1], current'[h]>> \in Existing
    BY <1>5, SeenFact DEF FindDefault
  <2>4. QED
    BY <2>1, <2>2, <2>3
<1>6. ASSUME NEW h \in Handlers, ReloadOld(h) PROVE PositionInv'
  BY <1>6 DEF ReloadOld
<1>7. ASSUME NEW h \in Handlers, ClearOld(h) PROVE PositionInv'
  BY <1>7 DEF ClearOld
<1>8. ASSUME NEW h \in Handlers, ReloadNew(h) PROVE PositionInv'
  BY <1>8 DEF ReloadNew
<1>9. ASSUME NEW h \in Handlers, LockNew(h) PROVE PositionInv'
  BY <1>9 DEF LockNew
<1>10. ASSUME NEW h \in Handlers, SetNew(h) PROVE PositionInv'
  BY <1>10 DEF SetNew
<1>11. ASSUME NEW h \in Handlers, Log(h) PROVE PositionInv'
  <2>1. CASE pos[h] < Len(request[h])
    <3>1. pos'[h] <= Len(request[h]) /\ pc'[h] = "find"
      BY <1>11, <2>1 DEF Log
    <3>2. QED
      BY <1>11, <3>1, StepsAlone DEF Log, OnlyBy, Step
  <2>2. CASE ~(pos[h] < Len(request[h]))
    BY <1>11, <2>2 DEF Log
  <2>3. QED
    BY <2>1, <2>2
<1>12. ASSUME NEW h \in Handlers, Commit(h) PROVE PositionInv'
  BY <1>12 DEF Commit
<1>13. CASE UNCHANGED vars
  BY <1>13 DEF vars
<1>14. QED
  BY <1>1, <1>2, <1>3, <1>4, <1>5, <1>6, <1>7, <1>8, <1>9, <1>10, <1>11, <1>12,
     <1>13 DEF Next, Step, Quiet

\* A step takes the lock of a row only if no other handler holds it.
LEMMA StepsLock ==
    ASSUME TypeOK, PositionInv, NEW h \in Handlers, Receive(h) \/ Step(h) \/ Fail(h)
    PROVE  \A r \in Held(h)' \ Held(h) : RowHolders(h, r) = {}
<1> USE DEF TypeOK, GoTo, Held, Target
<1>1. CASE \/ Receive(h) \/ Begin(h) \/ FindBatch(h) \/ FindDefault(h)
           \/ ReloadOld(h) \/ ReloadNew(h)
  BY <1>1 DEF Receive, Begin, FindBatch, FindDefault, ReloadOld, ReloadNew
<1>2. CASE ClearOld(h)
  <2>1. Held(h)' \subseteq Held(h) \cup {CurrentRow(h)}
    BY <1>2 DEF ClearOld
  <2>2. RowHolders(h, CurrentRow(h)) = {}
    BY <1>2 DEF ClearOld
  <2>3. QED
    BY <2>1, <2>2
<1>3. CASE LockNew(h)
  <2>1. Held(h)' \subseteq Held(h) \cup {Target(h)}
    BY <1>3 DEF LockNew
  <2>2. RowHolders(h, Target(h)) = {}
    BY <1>3 DEF LockNew
  <2>3. QED
    BY <2>1, <2>2
<1>4. CASE SetNew(h)
  BY <1>4 DEF SetNew
<1>5. CASE Log(h)
  <2>1. on'[h] = on[h] /\ off'[h] = off[h] /\ pc'[h] # "checkIndex"
    BY <1>5 DEF Log
  <2>2. QED
    BY <2>1
<1>6. CASE Commit(h)
  BY <1>6 DEF Commit
<1>7. CASE Rollback(h)
  BY <1>7 DEF Rollback
<1>8. QED
  BY <1>1, <1>2, <1>3, <1>4, <1>5, <1>6, <1>7
     DEF Step, Fail, BatchNotFound, UniqueViolation, DeadlockAbort

\* No step makes two transactions hold the lock of one row.
LEMMA LocksStep == Inv /\ [Next]_vars => LocksInv'
<1> SUFFICES ASSUME Inv, [Next]_vars PROVE LocksInv'
  OBVIOUS
<1>1. TypeOK /\ PositionInv /\ LocksInv
  BY DEF Inv
<1>2. ASSUME NEW h \in Handlers, Receive(h) \/ Step(h) \/ Fail(h) PROVE LocksInv'
  <2>1. \A g \in Handlers \ {h} : Held(g)' = Held(g)
    BY <1>1, <1>2, StepsAlone DEF OnlyBy, Held, Target
  <2>2. \A g \in Handlers \ {h} : Held(g) \cap Held(h)' = {}
    BY <1>1, <1>2, StepsLock DEF RowHolders, LocksInv
  <2>3. QED
    BY <1>1, <2>1, <2>2 DEF LocksInv
<1>3. CASE UNCHANGED vars
  BY <1>1, <1>3 DEF vars, LocksInv, Held, Target
<1>4. QED
  BY <1>2, <1>3 DEF Next, Quiet

\* Steps that write nothing to the table.
NoWrite(h) ==
    \/ Receive(h) \/ Begin(h) \/ FindBatch(h) \/ FindDefault(h) \/ ReloadOld(h)
    \/ ReloadNew(h) \/ LockNew(h) \/ Log(h)

LEMMA NoWriteFact ==
    ASSUME NEW h \in Handlers, NoWrite(h)
    PROVE  active' = active /\ on' = on /\ off' = off
<1>1. CASE Receive(h) \/ Begin(h) \/ FindBatch(h) \/ Log(h)
  BY <1>1 DEF Receive, Begin, FindBatch, Log
<1>2. CASE FindDefault(h)
  BY <1>2 DEF FindDefault
<1>3. CASE ReloadOld(h) \/ ReloadNew(h) \/ LockNew(h)
  BY <1>3 DEF ReloadOld, ReloadNew, LockNew
<1>4. QED
  BY <1>1, <1>2, <1>3 DEF NoWrite

\* Every step is one of these.
LEMMA StepKinds ==
    ASSUME NEW h \in Handlers, Receive(h) \/ Step(h) \/ Fail(h)
    PROVE  NoWrite(h) \/ ClearOld(h) \/ SetNew(h) \/ Commit(h) \/ Rollback(h)
BY DEF Step, Fail, BatchNotFound, UniqueViolation, DeadlockAbort, NoWrite

\* The row a transaction sets is the only one of its stream it can see, and
\* nobody else has written a row of the stream that is to become active.
LEMMA SetNewFact ==
    ASSUME Inv, NEW h \in Handlers, SetNew(h)
    PROVE  /\ \A q \in active : SameStream(q, Target(h)) => q = Target(h) \/ q \in off[h]
           /\ \A q \in on[h] : SameStream(q, Target(h)) => q = Target(h)
           /\ \A g \in Handlers \ {h} : \A q \in on[g] : ~SameStream(q, Target(h))
<1>1. TypeOK /\ LocksInv
  BY DEF Inv
<1>2. Rivals(Target(h)) \cap Seen(h) = {}
  BY DEF SetNew
<1>3. \A q \in Seen(h) : SameStream(q, Target(h)) => q = Target(h)
  BY <1>1, <1>2, SeenFact DEF Rivals
<1>4. \A g \in Handlers \ {h} : Target(h) \notin on[g]
  <2>1. Target(h) \in Held(h)
    BY DEF SetNew, Held
  <2>2. QED
    BY <1>1, <2>1 DEF LocksInv, Held
<1>5. \A g \in Handlers \ {h} : on[g] \cap Rivals(Target(h)) = {}
  BY DEF SetNew, IndexHolders
<1>6. QED
  BY <1>1, <1>3, <1>4, <1>5 DEF Seen, Rivals, TypeOK

\* No step adds a second row of a stream to what is about to become active.
LEMMA IndexStep == Inv /\ [Next]_vars => IndexInv'
<1> SUFFICES ASSUME Inv, [Next]_vars PROVE IndexInv'
  OBVIOUS
<1>1. TypeOK /\ LocksInv /\ IndexInv
  BY DEF Inv
<1>2. ASSUME NEW h \in Handlers, NoWrite(h) PROVE IndexInv'
  BY <1>1, <1>2, NoWriteFact DEF IndexInv
<1>3. ASSUME NEW h \in Handlers, ClearOld(h) PROVE IndexInv'
  <2>1. /\ active' = active
        /\ \A g \in Handlers : on'[g] \subseteq on[g] /\ off[g] \subseteq off'[g]
    BY <1>1, <1>3 DEF ClearOld, TypeOK
  <2>2. QED
    BY <1>1, <2>1 DEF IndexInv
<1>4. ASSUME NEW h \in Handlers, Rollback(h) PROVE IndexInv'
  <2>1. /\ active' = active /\ on'[h] = {}
        /\ \A g \in Handlers \ {h} : on'[g] = on[g] /\ off'[g] = off[g]
    BY <1>1, <1>4 DEF Rollback, TypeOK
  <2>2. QED
    BY <1>1, <2>1 DEF IndexInv
<1>5. ASSUME NEW h \in Handlers, SetNew(h) PROVE IndexInv'
  <2>1. /\ active' = active
        /\ on'[h] = on[h] \cup {Target(h)} /\ off'[h] = off[h] \ {Target(h)}
        /\ \A g \in Handlers \ {h} : on'[g] = on[g] /\ off'[g] = off[g]
    BY <1>1, <1>5 DEF SetNew, TypeOK
  <2>2. ASSUME NEW g \in Handlers, NEW r \in on'[g], NEW q \in active', SameStream(q, r)
        PROVE  q = r \/ q \in off'[g]
    <3>1. CASE g # h
      BY <1>1, <2>1, <2>2, <3>1 DEF IndexInv
    <3>2. CASE g = h /\ r = Target(h)
      BY <1>5, <2>1, <2>2, <3>2, SetNewFact
    <3>3. CASE g = h /\ r # Target(h)
      <4>1. r \in on[h] /\ ~SameStream(r, Target(h))
        BY <1>5, <2>1, <2>2, <3>3, SetNewFact
      <4>2. QED
        BY <1>1, <2>1, <2>2, <3>3, <4>1 DEF IndexInv, SameStream
    <3>4. QED
      BY <3>1, <3>2, <3>3
  <2>3. ASSUME NEW g \in Handlers, NEW k \in Handlers,
               NEW r \in on'[g], NEW q \in on'[k], SameStream(q, r)
        PROVE  q = r /\ k = g
    <3>1. CASE r \in on[g] /\ q \in on[k]
      BY <1>1, <2>3, <3>1 DEF IndexInv
    <3>2. CASE g = h /\ r = Target(h)
      BY <1>5, <2>1, <2>3, <3>2, SetNewFact
    <3>3. CASE k = h /\ q = Target(h)
      BY <1>5, <2>1, <2>3, <3>3, SetNewFact DEF SameStream
    <3>4. QED
      BY <2>1, <2>3, <3>1, <3>2, <3>3
  <2>4. QED
    BY <2>2, <2>3 DEF IndexInv
<1>6. ASSUME NEW h \in Handlers, Commit(h) PROVE IndexInv'
  <2>1. /\ active' = (active \ off[h]) \cup on[h]
        /\ on'[h] = {} /\ off'[h] = {}
        /\ \A g \in Handlers \ {h} : on'[g] = on[g] /\ off'[g] = off[g]
    BY <1>1, <1>6 DEF Commit, TypeOK, Seen
  <2>2. QED
    BY <1>1, <2>1 DEF IndexInv, SameStream
<1>7. CASE UNCHANGED vars
  BY <1>1, <1>7 DEF vars, IndexInv
<1>8. QED
  BY <1>2, <1>3, <1>4, <1>5, <1>6, <1>7, StepKinds DEF Next, Quiet

\* No commit leaves two active batches of one stream.
LEMMA ActiveStep == Inv /\ [Next]_vars => AtMostOneActive'
<1> SUFFICES ASSUME Inv, [Next]_vars PROVE AtMostOneActive'
  OBVIOUS
<1>1. TypeOK /\ IndexInv /\ AtMostOneActive
  BY DEF Inv
<1>2. ASSUME NEW h \in Handlers, Commit(h) PROVE AtMostOneActive'
  <2>1. active' = (active \ off[h]) \cup on[h]
    BY <1>2 DEF Commit, Seen
  <2>2. QED
    BY <1>1, <2>1 DEF IndexInv, AtMostOneActive, AtMostOnePerStream, SameStream
<1>3. CASE active' = active
  BY <1>1, <1>3 DEF AtMostOneActive
<1>4. QED
  BY <1>2, <1>3, StepKinds, NoWriteFact DEF Next, Quiet, vars, ClearOld, SetNew, Rollback

\* A transaction that has cleared an active row goes on until it has set
\* another row of the stream, or gives up what it has written.
LEMMA ReplacementStep == Inv /\ [Next]_vars => ReplacementInv'
<1> SUFFICES ASSUME Inv, [Next]_vars PROVE ReplacementInv'
  OBVIOUS
<1>1. TypeOK /\ PositionInv /\ LocksInv /\ AtMostOneActive /\ ReplacementInv
  BY DEF Inv
<1>2. ASSUME NEW h \in Handlers, Receive(h) \/ Step(h) \/ Fail(h),
             NEW g \in Handlers \ {h}, NEW r \in off'[g] \cap active'
      PROVE  \/ /\ pc'[g] \in {"reloadNew", "setNew", "checkIndex"}
                /\ SameStream(Target(g)', r)
             \/ \E q \in on'[g] : SameStream(q, r)
  <2>1. /\ pc'[g] = pc[g] /\ on'[g] = on[g] /\ off'[g] = off[g]
        /\ Target(g)' = Target(g)
    BY <1>1, <1>2, StepsAlone DEF OnlyBy, Target
  <2>2. active' = active \/ active' = Seen(h)
    BY <1>2, StepKinds, NoWriteFact DEF ClearOld, SetNew, Commit, Rollback
  <2>3. r \notin on[h]
    BY <1>1, <1>2, <2>1 DEF LocksInv, Held
  <2>4. r \in active
    BY <1>2, <2>2, <2>3 DEF Seen
  <2>5. QED
    BY <1>1, <1>2, <2>1, <2>4 DEF ReplacementInv
<1>3. ASSUME NEW h \in Handlers, Receive(h) \/ Step(h) \/ Fail(h),
             NEW r \in off'[h] \cap active'
      PROVE  \/ /\ pc'[h] \in {"reloadNew", "setNew", "checkIndex"}
                /\ SameStream(Target(h)', r)
             \/ \E q \in on'[h] : SameStream(q, r)
  <2>1. CASE ClearOld(h)
    <3>1. /\ active' = active /\ pc[h] = "clearOld" /\ pc'[h] = "reloadNew"
          /\ on'[h] = on[h] \ {CurrentRow(h)} /\ off'[h] = off[h] \cup {CurrentRow(h)}
          /\ Target(h)' = Target(h)
      BY <1>1, <2>1 DEF ClearOld, TypeOK, GoTo, Target
    <3>2. SameStream(Target(h), CurrentRow(h))
      BY DEF SameStream, CurrentRow
    <3>3. CASE r = CurrentRow(h)
      BY <3>1, <3>2, <3>3
    <3>4. CASE r # CurrentRow(h)
      <4>1. PICK q \in on[h] : SameStream(q, r)
        BY <1>1, <1>3, <3>1, <3>4 DEF ReplacementInv
      <4>2. CASE q = CurrentRow(h)
        BY <3>1, <3>2, <4>1, <4>2 DEF SameStream
      <4>3. CASE q # CurrentRow(h)
        BY <3>1, <4>1, <4>3
      <4>4. QED
        BY <4>2, <4>3
    <3>5. QED
      BY <3>3, <3>4
  <2>2. CASE SetNew(h)
    <3>1. /\ active' = active
          /\ on'[h] = on[h] \cup {Target(h)} /\ off'[h] = off[h] \ {Target(h)}
      BY <1>1, <2>2 DEF SetNew, TypeOK
    <3>2. QED
      BY <1>1, <1>3, <3>1 DEF ReplacementInv
  <2>3. CASE Commit(h) \/ Rollback(h)
    BY <1>1, <1>3, <2>3 DEF Commit, Rollback, TypeOK
  <2>4. CASE NoWrite(h)
    <3>1. active' = active /\ on' = on /\ off' = off
      BY <2>4, NoWriteFact
    <3>2. CASE \E q \in on[h] : SameStream(q, r)
      BY <3>1, <3>2
    <3>3. CASE ~\E q \in on[h] : SameStream(q, r)
      <4>1. /\ pc[h] \in {"reloadNew", "setNew", "checkIndex"}
            /\ SameStream(Target(h), r)
        BY <1>1, <1>3, <3>1, <3>3 DEF ReplacementInv
      <4>2. ReloadNew(h) \/ LockNew(h)
        BY <2>4, <4>1
           DEF NoWrite, Receive, Begin, FindBatch, FindDefault, ReloadOld, Log
      <4>3. ReloadNew(h) => Target(h) \notin Seen(h)
        BY <1>1, <1>3, <3>1, <3>3, <4>1
           DEF Seen, AtMostOneActive, AtMostOnePerStream
      <4>4. pc'[h] \in {"setNew", "checkIndex"} /\ Target(h)' = Target(h)
        BY <1>1, <4>2, <4>3 DEF ReloadNew, LockNew, GoTo, TypeOK, Target
      <4>5. QED
        BY <4>1, <4>4
    <3>4. QED
      BY <3>2, <3>3
  <2>5. QED
    BY <1>3, <2>1, <2>2, <2>3, <2>4, StepKinds
<1>4. CASE UNCHANGED vars
  BY <1>1, <1>4 DEF vars, ReplacementInv, Target
<1>5. ASSUME NEW h \in Handlers, Receive(h) \/ Step(h) \/ Fail(h)
      PROVE  ReplacementInv'
  BY <1>2, <1>3, <1>5 DEF ReplacementInv
<1>6. QED
  BY <1>4, <1>5 DEF Next, Quiet

LEMMA StepInv == Inv /\ [Next]_vars => Inv'
BY TypeStep, PositionStep, LocksStep, IndexStep, ActiveStep, ReplacementStep DEF Inv

\* The invariant holds in every reachable state.
LEMMA Invariance == Spec => []Inv
BY InitInv, StepInv, PTL DEF Spec

-----------------------------------------------------------------------------
\* Every variable keeps its type: rows that transactions write are rows of the
\* table, and positions stay positive (the whole of SetActiveBatchesHandler.start).
THEOREM Typing == Spec => []TypeOK
<1>1. Inv => TypeOK
  BY DEF Inv
<1>2. QED
  BY <1>1, Invariance, PTL

\* No interleaving of requests to set active batches commits two default
\* batches of one stream.
THEOREM OneActive == Spec => []AtMostOneActive
<1>1. Inv => AtMostOneActive
  BY DEF Inv
<1>2. QED
  BY <1>1, Invariance, PTL

\* What a commit removes, it replaces.
LEMMA CommitReplaces ==
    Inv /\ [Next]_vars => \A r \in active : \E q \in active' : SameStream(q, r)
<1> SUFFICES ASSUME Inv, [Next]_vars, NEW r \in active
             PROVE  \E q \in active' : SameStream(q, r)
  OBVIOUS
<1>1. ASSUME NEW h \in Handlers, Commit(h) PROVE \E q \in active' : SameStream(q, r)
  <2>1. active' = (active \ off[h]) \cup on[h] /\ pc[h] = "commit"
    BY <1>1 DEF Commit, Seen
  <2>2. CASE r \in off[h]
    <3>1. \E q \in on[h] : SameStream(q, r)
      BY <2>1, <2>2 DEF Inv, ReplacementInv
    <3>2. QED
      BY <2>1, <3>1
  <2>3. CASE r \notin off[h]
    BY <2>1, <2>3 DEF SameStream
  <2>4. QED
    BY <2>2, <2>3
<1>2. CASE active' = active
  BY <1>2 DEF SameStream
<1>3. QED
  BY <1>1, <1>2, StepKinds, NoWriteFact DEF Next, Quiet, vars, ClearOld, SetNew, Rollback

\* Once a stream has a default batch, no step of any handler - a commit, a
\* failure in the middle, a lost race - leaves it without one.
THEOREM NeverUnpublished == Spec => StaysPublished
<1>1. Inv /\ [Next]_vars => [\A r \in active : \E q \in active' : SameStream(q, r)]_vars
  BY CommitReplaces
<1>2. QED
  BY <1>1, Invariance, PTL DEF Spec, StaysPublished

-----------------------------------------------------------------------------
(* The refinement.                                                         *)

\* Positions of the request whose batch has been set.
Done(h) ==
    {i \in 1..Len(request[h]) : i < pos[h] \/ (i = pos[h] /\ pc[h] \in {"log", "commit"})}

\* A handler works on one of its requests, and commits at the end of it.
RequestInv(h) ==
    /\ pc[h] # "idle" => request[h] \in Requests[h]
    /\ pc[h] = "commit" => Len(request[h]) <= pos[h]

\* What a transaction has set are the rows that it has worked through.
DoneInv(h) ==
    /\ pc[h] \in InTransaction => \A i \in Done(h) : request[h][i] \in on[h]
    /\ \A r \in on[h] : \E i \in Done(h) : r = request[h][i]

\* save() never finds the row it is to set as it should be.
UnsetInv(h) ==
    /\ pc[h] \in {"reloadOld", "clearOld"} /\ Target(h) \in active \ off[h] => CurrentRow(h) = Target(h)
    /\ pc[h] = "reloadNew" => Target(h) \notin Seen(h)

OwnInv == \A h \in Handlers : RequestInv(h) /\ DoneInv(h) /\ UnsetInv(h)

-----------------------------------------------------------------------------
\* A stream is named once in a request.
LEMMA NamedOnce ==
    ASSUME OwnBatches, TypeOK, NEW h \in Handlers, request[h] \in Requests[h],
           NEW i \in 1..Len(request[h]), NEW j \in 1..Len(request[h]),
           SameStream(request[h][i], request[h][j])
    PROVE  i = j
BY DEF OwnBatches, SameStream

\* What a handler is about to set it has not set yet.
LEMMA TargetUnset ==
    ASSUME OwnBatches, Inv, NEW h \in Handlers, RequestInv(h), DoneInv(h),
           pc[h] \in Working \ {"log"}
    PROVE  /\ pos[h] \in 1..Len(request[h]) /\ request[h] \in Requests[h]
           /\ \A i \in Done(h) : ~SameStream(request[h][i], Target(h))
           /\ \A r \in on[h] : ~SameStream(r, Target(h))
<1>1. pos[h] \in 1..Len(request[h]) /\ request[h] \in Requests[h] /\ TypeOK
  BY DEF Inv, TypeOK, PositionInv, RequestInv, Working, InTransaction
<1>2. pos[h] \notin Done(h) /\ Done(h) \subseteq 1..Len(request[h])
  BY DEF Done, Working
<1>3. \A i \in Done(h) : ~SameStream(request[h][i], Target(h))
  BY <1>1, <1>2, NamedOnce DEF Target
<1> QED BY <1>1, <1>3 DEF DoneInv

\* Nobody else sets what a handler works on.
LEMMA OthersUnset ==
    ASSUME OwnBatches, Inv, OwnInv, NEW h \in Handlers, NEW g \in Handlers, g # h,
           pc[h] \in Working \ {"log"}
    PROVE  Target(h) \notin on[g]
<1>1. pos[h] \in 1..Len(request[h]) /\ request[h] \in Requests[h]
  BY TargetUnset DEF OwnInv
<1>2. SUFFICES ASSUME Target(h) \in on[g] PROVE FALSE
  OBVIOUS
<1>3. PICK i \in Done(g) : Target(h) = request[g][i]
  BY <1>2 DEF OwnInv, DoneInv
<1>4. i \in 1..Len(request[g]) /\ pc[g] # "idle"
  BY DEF Done, Inv, PositionInv, TypeOK
<1>5. request[g] \in Requests[g]
  BY <1>4 DEF OwnInv, RequestInv
<1> QED BY <1>1, <1>3, <1>4, <1>5 DEF OwnBatches, Target

-----------------------------------------------------------------------------
(* What the steps of a handler do to its own part of the invariant.        *)

\* A step that writes nothing to the table and stays at the same identifier.
LEMMA SamePlace ==
    ASSUME OwnBatches, Inv, OwnInv, NEW h \in Handlers,
           FindBatch(h) \/ FindDefault(h) \/ ReloadOld(h) \/ ReloadNew(h) \/ LockNew(h)
    PROVE  RequestInv(h)' /\ DoneInv(h)'
<1> USE DEF GoTo, Inv, TypeOK
<1>1. /\ pc[h] \in Working \ {"log"} /\ pc'[h] \in InTransaction \ {"commit"}
      /\ UNCHANGED <<request, pos, on>>
      /\ pc'[h] = "log" => pc[h] = "reloadNew" /\ Target(h) \in Seen(h)
  BY DEF FindBatch, FindDefault, ReloadOld, ReloadNew, LockNew, Working, InTransaction
<1>2. pc'[h] # "log"
  BY <1>1 DEF OwnInv, UnsetInv
<1>3. Done(h)' = Done(h)
  BY <1>1, <1>2 DEF Done, Working
<1> QED BY <1>1, <1>3 DEF OwnInv, RequestInv, DoneInv, Working, InTransaction

\* The row that is cleared is none of those that have been set.
LEMMA ClearOldKeeps ==
    ASSUME OwnBatches, Inv, OwnInv, NEW h \in Handlers, ClearOld(h)
    PROVE  RequestInv(h)' /\ DoneInv(h)' /\ UnsetInv(h)'
<1> USE DEF GoTo
<1>1. /\ pc[h] = "clearOld" /\ pc'[h] = "reloadNew" /\ UNCHANGED <<active, request, pos>>
      /\ on'[h] = on[h] \ {CurrentRow(h)} /\ off'[h] = off[h] \cup {CurrentRow(h)}
  BY DEF ClearOld, Inv, TypeOK
<1>2. /\ \A i \in Done(h) : ~SameStream(request[h][i], Target(h))
      /\ \A r \in on[h] : ~SameStream(r, Target(h))
  BY <1>1, TargetUnset DEF OwnInv, Working, InTransaction
<1>3. SameStream(CurrentRow(h), Target(h))
  BY DEF SameStream, CurrentRow
<1>4. Done(h)' = Done(h)
  BY <1>1 DEF Done
<1>5. DoneInv(h)' /\ RequestInv(h)'
  BY <1>1, <1>2, <1>3, <1>4 DEF OwnInv, DoneInv, RequestInv, InTransaction
<1>6. Target(h) \notin active \ off'[h] /\ Target(h) \notin on'[h]
  BY <1>1, <1>2 DEF OwnInv, UnsetInv, SameStream
<1> QED BY <1>1, <1>5, <1>6 DEF UnsetInv, Seen, Target

\* The row that is set is the one of the identifier at hand.
LEMMA SetNewKeeps ==
    ASSUME OwnBatches, Inv, OwnInv, NEW h \in Handlers, SetNew(h)
    PROVE  RequestInv(h)' /\ DoneInv(h)' /\ UnsetInv(h)'
<1> USE DEF GoTo
<1>1. /\ pc[h] = "checkIndex" /\ pc'[h] = "log" /\ UNCHANGED <<active, request, pos>>
      /\ on'[h] = on[h] \cup {Target(h)}
  BY DEF SetNew, Inv, TypeOK
<1>2. pos[h] \in 1..Len(request[h])
  BY <1>1, TargetUnset DEF OwnInv, Working, InTransaction
<1>3. Done(h)' = Done(h) \cup {pos[h]}
  BY <1>1, <1>2 DEF Done
<1> QED BY <1>1, <1>3 DEF OwnInv, DoneInv, RequestInv, UnsetInv, InTransaction, Target

\* After the last identifier comes the commit.
LEMMA LogKeeps ==
    ASSUME OwnBatches, Inv, OwnInv, NEW h \in Handlers, Log(h)
    PROVE  RequestInv(h)' /\ DoneInv(h)' /\ UnsetInv(h)'
<1> USE DEF GoTo
<1>1. /\ pc[h] = "log" /\ pc'[h] \in {"find", "commit"} /\ UNCHANGED <<active, request, on>>
      /\ pc'[h] = "find" => pos'[h] = pos[h] + 1
      /\ pc'[h] = "commit" => pos'[h] = pos[h] /\ ~(pos[h] < Len(request[h]))
  BY DEF Log, Inv, TypeOK
<1>2. pos[h] \in Nat \ {0} /\ Len(request[h]) \in Nat
  BY DEF Inv, TypeOK
<1>3. Done(h)' = Done(h)
  BY <1>1, <1>2 DEF Done
<1> QED BY <1>1, <1>2, <1>3 DEF OwnInv, DoneInv, RequestInv, UnsetInv, InTransaction

\* The default batch that is found is the one to be set, if that is active.
LEMMA FindDefaultFinds ==
    ASSUME OwnBatches, Inv, OwnInv, NEW h \in Handlers, FindDefault(h)
    PROVE  UnsetInv(h)'
<1> USE DEF GoTo
<1>1. pc[h] = "findDefault" /\ UNCHANGED <<active, request, pos, on, off>>
  BY DEF FindDefault
<1>2. Target(h) \in Rows /\ Target(h) = <<Target(h)[1], Target(h)[2]>>
  BY <1>1, TargetFact DEF Inv, Working, InTransaction
<1>3. Target(h) \notin on[h]
  BY <1>1, TargetUnset DEF OwnInv, Working, InTransaction, SameStream
<1>4. CASE pc'[h] = "reloadNew"
  <2>1. {b \in Batches : <<Target(h)[1], b>> \in Seen(h)} = {}
    BY <1>4 DEF FindDefault, Inv, TypeOK
  <2>2. Target(h) \notin Seen(h)
    BY <1>2, <2>1 DEF Rows
  <2> QED BY <1>1, <1>4, <2>2 DEF UnsetInv, Seen, Target
<1>5. CASE pc'[h] = "reloadOld"
  <2>1. CurrentRow(h)' \in Seen(h) /\ CurrentRow(h)' = <<Target(h)[1], current'[h]>>
    BY <1>1, <1>5 DEF FindDefault, Inv, TypeOK, CurrentRow, Target
  <2>2. ASSUME Target(h) \in active \ off[h] PROVE CurrentRow(h)' = Target(h)
    <3>1. SameStream(CurrentRow(h)', Target(h))
      BY <2>1 DEF SameStream
    <3>2. CurrentRow(h)' \in active => CurrentRow(h)' = Target(h)
      BY <2>2, <3>1 DEF Inv, AtMostOneActive, AtMostOnePerStream
    <3>3. CurrentRow(h)' \notin on[h]
      BY <1>1, <3>1, TargetUnset DEF OwnInv, Working, InTransaction
    <3> QED BY <2>1, <3>2, <3>3 DEF Seen
  <2> QED BY <1>1, <1>5, <2>2 DEF UnsetInv, Target
<1> QED BY <1>4, <1>5 DEF FindDefault, Inv, TypeOK

\* A handler that has not begun has set nothing.
LEMMA NothingDone ==
    ASSUME Inv, OwnInv, NEW h \in Handlers, pc[h] \in {"idle", "queued"}
    PROVE  Done(h) = {} /\ on[h] = {}
<1>1. pos[h] = 1 /\ Len(request[h]) \in Nat
  BY DEF Inv, TypeOK, PositionInv
<1>2. \A i \in 1..Len(request[h]) : ~(i < 1)
  BY <1>1
<1>3. Done(h) = {}
  BY <1>1, <1>2 DEF Done
<1> QED BY <1>3 DEF OwnInv, DoneInv

LEMMA OwnStep ==
    ASSUME OwnBatches, Inv, OwnInv, NEW h \in Handlers, Receive(h) \/ Step(h) \/ Fail(h)
    PROVE  RequestInv(h)' /\ DoneInv(h)' /\ UnsetInv(h)'
<1>1. CASE Receive(h)
  <2>1. pc[h] = "idle" /\ pc'[h] = "queued" /\ request'[h] \in Requests[h] /\ UNCHANGED <<pos, on>> /\ pos[h] = 1
    BY <1>1 DEF Receive, GoTo, Inv, TypeOK, PositionInv
  <2>2. on[h] = {}
    BY <2>1, NothingDone
  <2> QED BY <2>1, <2>2 DEF RequestInv, DoneInv, UnsetInv, InTransaction
<1>2. CASE Begin(h)
  <2>1. /\ pc[h] = "queued" /\ pc'[h] \in {"commit", "find"} /\ UNCHANGED <<request, pos, on>> /\ pos[h] = 1
        /\ pc'[h] = "commit" => request[h] = <<>>
    BY <1>2 DEF Begin, GoTo, Inv, TypeOK, PositionInv
  <2>2. on[h] = {} /\ \A i \in 1..Len(request[h]) : ~(i < 1)
    BY <2>1, NothingDone DEF Inv, TypeOK
  <2>3. pc'[h] = "commit" => Len(request'[h]) <= pos'[h]
    BY <2>1
  <2>4. Done(h)' = {}
    BY <2>1, <2>2 DEF Done
  <2> QED BY <2>1, <2>2, <2>3, <2>4 DEF OwnInv, RequestInv, DoneInv, UnsetInv, InTransaction
<1>3. CASE FindBatch(h) \/ LockNew(h)
  <2>1. pc'[h] \in {"findDefault", "checkIndex"}
    BY <1>3 DEF FindBatch, LockNew, GoTo, Inv, TypeOK
  <2> QED BY <1>3, <2>1, SamePlace DEF UnsetInv
<1>4. CASE ReloadNew(h)
  <2>1. pc'[h] \in {"log", "setNew"}
    BY <1>4 DEF ReloadNew, GoTo, Inv, TypeOK
  <2> QED BY <1>4, <2>1, SamePlace DEF UnsetInv
<1>5. CASE ReloadOld(h)
  <2>1. /\ pc[h] = "reloadOld" /\ UNCHANGED <<active, request, pos, current, on, off>>
        /\ pc'[h] = IF CurrentRow(h) \in Seen(h) THEN "clearOld" ELSE "reloadNew"
    BY <1>5 DEF ReloadOld, GoTo, Inv, TypeOK
  <2>2. Target(h) \in active \ off[h] => CurrentRow(h) = Target(h)
    BY <2>1 DEF OwnInv, UnsetInv
  <2>3. Target(h) \notin on[h]
    BY <2>1, TargetUnset DEF OwnInv, Working, InTransaction, SameStream
  <2>4. pc'[h] = "reloadNew" => Target(h) \notin Seen(h)
    BY <2>1, <2>2, <2>3 DEF Seen
  <2>5. UnsetInv(h)'
    BY <2>1, <2>2, <2>4 DEF UnsetInv, Target, CurrentRow, Seen
  <2> QED BY <1>5, <2>5, SamePlace
<1>6. CASE Commit(h) \/ (Rollback(h) /\ pc[h] # "idle")
  <2>1. pc'[h] \in Ended /\ on'[h] = {} /\ UNCHANGED request /\ pc[h] # "idle"
    BY <1>6 DEF Commit, Rollback, GoTo, Inv, TypeOK, Ended
  <2> QED BY <2>1 DEF OwnInv, RequestInv, DoneInv, UnsetInv, Ended, InTransaction
<1>7. BatchNotFound(h) \/ UniqueViolation(h) \/ DeadlockAbort(h) \/ Fail(h) => Rollback(h) /\ pc[h] # "idle"
  <2>1. DeadlockAbort(h) => Rollback(h) /\ WaitsFor(h) # {}
    BY DEF DeadlockAbort
  <2>2. pc[h] = "idle" => WaitsFor(h) = {}
    BY DEF WaitsFor
  <2> QED BY <2>1, <2>2 DEF BatchNotFound, UniqueViolation, Fail, InTransaction
<1>8. CASE FindDefault(h)
  BY <1>8, SamePlace, FindDefaultFinds
<1>9. CASE ClearOld(h) \/ SetNew(h) \/ Log(h)
  BY <1>9, ClearOldKeeps, SetNewKeeps, LogKeeps
<1> QED BY <1>1, <1>2, <1>3, <1>4, <1>5, <1>6, <1>7, <1>8, <1>9 DEF Step

\* A step of another handler commits nothing that h is to set.
LEMMA OthersStep ==
    ASSUME OwnBatches, Inv, OwnInv, NEW h \in Handlers, NEW g \in Handlers, g # h,
           Receive(g) \/ Step(g) \/ Fail(g)
    PROVE  RequestInv(h)' /\ DoneInv(h)' /\ UnsetInv(h)'
<1>1. /\ pc'[h] = pc[h] /\ request'[h] = request[h] /\ pos'[h] = pos[h]
      /\ on'[h] = on[h] /\ off'[h] = off[h]
  BY StepsAlone DEF OnlyBy, Inv
<1>2. current'[h] = current[h]
  <2>1. CASE FindDefault(g)
    BY <2>1 DEF FindDefault, Inv, TypeOK
  <2>2. CASE ~FindDefault(g)
    BY <2>2, StepKinds DEF NoWrite, Receive, Begin, FindBatch, ReloadOld, ReloadNew, LockNew, Log,
                           ClearOld, SetNew, Commit, Rollback
  <2> QED BY <2>1, <2>2
<1>3. active' \subseteq active \cup on[g]
  BY StepKinds, NoWriteFact DEF ClearOld, SetNew, Commit, Rollback, Seen
<1>4. Done(h)' = Done(h)
  BY <1>1 DEF Done
<1>5. RequestInv(h)' /\ DoneInv(h)'
  BY <1>1, <1>4 DEF OwnInv, RequestInv, DoneInv
<1>6. pc[h] \in Working \ {"log"} => Target(h) \notin on[g]
  BY OthersUnset
<1>7. UnsetInv(h)'
  BY <1>1, <1>2, <1>3, <1>6 DEF OwnInv, UnsetInv, Working, InTransaction, Seen, Target, CurrentRow
<1> QED BY <1>5, <1>7

LEMMA OwnInvStep == OwnBatches /\ Inv /\ OwnInv /\ [Next]_vars => OwnInv'
<1> SUFFICES ASSUME OwnBatches, Inv, OwnInv, [Next]_vars, NEW h \in Handlers
             PROVE  RequestInv(h)' /\ DoneInv(h)' /\ UnsetInv(h)'
  BY DEF OwnInv
<1>1. ASSUME NEW g \in Handlers, Receive(g) \/ Step(g) \/ Fail(g)
      PROVE  RequestInv(h)' /\ DoneInv(h)' /\ UnsetInv(h)'
  BY <1>1, OwnStep, OthersStep
<1>2. CASE UNCHANGED vars
  BY <1>2 DEF vars, OwnInv, RequestInv, DoneInv, UnsetInv, Done, Target, CurrentRow, Seen
<1> QED BY <1>1, <1>2 DEF Next, Quiet

LEMMA OwnInvInit == Init => OwnInv
BY DEF Init, OwnInv, RequestInv, DoneInv, UnsetInv, InTransaction

\* Under OwnBatches, every reachable state satisfies both invariants.
LEMMA OwnInvariance == ASSUME OwnBatches PROVE Spec => [](Inv /\ OwnInv)
<1>1. Init => Inv /\ OwnInv
  BY InitInv, OwnInvInit
<1>2. Inv /\ OwnInv /\ [Next]_vars => (Inv /\ OwnInv)'
  BY StepInv, OwnInvStep
<1> QED BY <1>1, <1>2, PTL DEF Spec

-----------------------------------------------------------------------------
(* Commits.                                                                *)

\* A handler that commits has set what its request names, and nothing else.
LEMMA CommitFact ==
    ASSUME Inv, OwnInv, NEW h \in Handlers, pc[h] = "commit"
    PROVE  on[h] = {request[h][i] : i \in 1..Len(request[h])}
<1>1. Done(h) = 1..Len(request[h])
  <2>1. Len(request[h]) \in Nat /\ pos[h] \in Nat /\ Len(request[h]) <= pos[h]
    BY DEF Inv, TypeOK, OwnInv, RequestInv
  <2>2. \A i \in 1..Len(request[h]) : i < pos[h] \/ i = pos[h]
    BY <2>1
  <2> QED BY <2>2 DEF Done
<1> QED BY <1>1 DEF OwnInv, DoneInv, InTransaction

\* Only a commit ends as a commit.
LEMMA CommittedFact ==
    ASSUME Inv, [Next]_vars, NEW h \in Handlers, pc[h] = "commit", pc'[h] = "committed"
    PROVE  Commit(h)
<1>1. ASSUME NEW g \in Handlers, g # h, Receive(g) \/ Step(g) \/ Fail(g) PROVE FALSE
  BY <1>1, StepsAlone DEF OnlyBy, Inv
<1>2. ASSUME Receive(h) \/ Step(h) \/ Fail(h) PROVE Commit(h)
  BY <1>2, StepKinds DEF NoWrite, Receive, Begin, FindBatch, FindDefault, ReloadOld, ReloadNew, LockNew,
                         Log, ClearOld, SetNew, Rollback, GoTo, Inv, TypeOK
<1> QED BY <1>1, <1>2 DEF Next, Quiet, vars

\* What is answered with success has been done whole: the batches of the request are active
\* after the commit, for all handlers that publish batches of their own.
THEOREM WholeOrNotAtAll == ASSUME OwnBatches PROVE Spec => SwitchedAllAtOnce
<1>1. Inv /\ OwnInv /\ [Next]_vars =>
         [\A h \in Handlers :
             pc[h] = "commit" /\ pc'[h] = "committed" =>
                \A i \in 1..Len(request[h]) : request[h][i] \in active']_vars
  <2> SUFFICES ASSUME Inv, OwnInv, [Next]_vars, NEW h \in Handlers, pc[h] = "commit", pc'[h] = "committed"
               PROVE  \A i \in 1..Len(request[h]) : request[h][i] \in active'
    OBVIOUS
  <2> QED BY CommittedFact, CommitFact DEF Commit, Seen
<1> QED BY <1>1, OwnInvariance, PTL DEF Spec, SwitchedAllAtOnce

-----------------------------------------------------------------------------
(* Refinement.                                                             *)

\* What findDefaultBatch finds: the only one there is.
LEMMA ServingFact ==
    ASSUME AtMostOneActive, active \subseteq Rows, NEW s \in Streams
    PROVE  /\ \A b \in Batches : <<s, b>> \in active => Serving[s] = b
           /\ (\A b \in Batches : <<s, b>> \notin active) => Serving[s] = NoBatch
<1> DEFINE c == CHOOSE c \in Batches : <<s, c>> \in active
<1>1. Serving[s] = IF \E b \in Batches : <<s, b>> \in active THEN c ELSE NoBatch
  BY DEF Serving
<1>2. ASSUME NEW b \in Batches, <<s, b>> \in active PROVE c = b
  <2>1. c \in Batches /\ <<s, c>> \in active
    BY <1>2
  <2> HIDE DEF c
  <2>2. <<s, c>> = <<s, b>>
    BY <1>2, <2>1 DEF AtMostOneActive, AtMostOnePerStream, SameStream
  <2> QED BY <2>2
<1> HIDE DEF c
<1> QED BY <1>1, <1>2

\* The same after a step.
LEMMA ServingFactNext ==
    ASSUME AtMostOneActive', active' \subseteq Rows, NEW s \in Streams
    PROVE  /\ \A b \in Batches : <<s, b>> \in active' => Serving'[s] = b
           /\ (\A b \in Batches : <<s, b>> \notin active') => Serving'[s] = NoBatch
<1> DEFINE c == CHOOSE c \in Batches : <<s, c>> \in active'
<1>1. Serving'[s] = IF \E b \in Batches : <<s, b>> \in active' THEN c ELSE NoBatch
  BY DEF Serving
<1>2. ASSUME NEW b \in Batches, <<s, b>> \in active' PROVE c = b
  <2>1. c \in Batches /\ <<s, c>> \in active'
    BY <1>2
  <2> HIDE DEF c
  <2>2. <<s, c>> = <<s, b>>
    BY <1>2, <2>1 DEF AtMostOneActive, AtMostOnePerStream, SameStream
  <2> QED BY <2>2
<1> HIDE DEF c
<1> QED BY <1>1, <1>2

\* Two states serve the same if the same rows of each stream are active.
LEMMA SameServing ==
    ASSUME AtMostOneActive, AtMostOneActive', active \subseteq Rows, active' \subseteq Rows,
           NEW s \in Streams, \A b \in Batches : <<s, b>> \in active' <=> <<s, b>> \in active
    PROVE  Serving'[s] = Serving[s]
<1>1. /\ \A b \in Batches : <<s, b>> \in active => Serving[s] = b
      /\ (\A b \in Batches : <<s, b>> \notin active) => Serving[s] = NoBatch
  BY ServingFact
<1>2. /\ \A b \in Batches : <<s, b>> \in active' => Serving'[s] = b
      /\ (\A b \in Batches : <<s, b>> \notin active') => Serving'[s] = NoBatch
  BY ServingFactNext
<1> QED BY <1>1, <1>2

\* A commit publishes its request.
LEMMA CommitPublishes ==
    ASSUME OwnBatches, Inv, OwnInv, Inv', NEW h \in Handlers, Commit(h)
    PROVE  Serving' = [s \in Streams |-> IF s \in DOMAIN AsPublication(request[h])
                                         THEN AsPublication(request[h])[s] ELSE Serving[s]]
<1> DEFINE r == request[h]
           p == AsPublication(r)
<1>1. /\ r \in Requests[h] /\ r \in Seq(Rows) /\ pc[h] = "commit"
      /\ active' = (active \ off[h]) \cup on[h]
      /\ on[h] = {r[i] : i \in 1..Len(r)}
  BY CommitFact DEF Commit, Seen, OwnInv, RequestInv, Inv, TypeOK
<1>2. active \subseteq Rows /\ active' \subseteq Rows /\ AtMostOneActive /\ AtMostOneActive'
  BY RowsAssumption DEF Inv, TypeOK
<1>3. DOMAIN p = {r[i][1] : i \in 1..Len(r)}
  BY DEF AsPublication
<1>4. ASSUME NEW s \in Streams, s \in DOMAIN p PROVE Serving'[s] = p[s]
  <2> DEFINE k == CHOOSE i \in 1..Len(r) : r[i][1] = s
  <2>1. k \in 1..Len(r) /\ r[k][1] = s /\ p[s] = r[k][2]
    BY <1>3, <1>4 DEF AsPublication
  <2> HIDE DEF k, p
  <2>2. r[k] \in Rows /\ r[k] \in active'
    BY <1>1, <2>1
  <2>3. r[k] = <<s, p[s]>> /\ p[s] \in Batches
    BY <2>1, <2>2 DEF Rows
  <2>4. \A b \in Batches : <<s, b>> \in active' => Serving'[s] = b
    BY <1>2, ServingFactNext
  <2> QED BY <2>2, <2>3, <2>4
<1>5. ASSUME NEW s \in Streams, s \notin DOMAIN p PROVE Serving'[s] = Serving[s]
  <2>1. \A q \in on[h] : q[1] # s
    BY <1>1, <1>3, <1>5
  <2>2. \A q \in off[h] \cap active : q[1] # s
    BY <1>1, <2>1 DEF Inv, ReplacementInv, SameStream
  <2>3. \A b \in Batches : <<s, b>> \in active' <=> <<s, b>> \in active
    BY <1>1, <2>1, <2>2
  <2> QED BY <1>2, <2>3, SameServing
<1>6. DOMAIN Serving' = Streams
  BY DEF Serving
<1> HIDE DEF p
<1>7. Serving' = [s \in Streams |-> Serving'[s]]
  BY DEF Serving
<1>8. \A s \in Streams : Serving'[s] = IF s \in DOMAIN p THEN p[s] ELSE Serving[s]
  BY <1>4, <1>5
<1> QED BY <1>7, <1>8 DEF p

\* For all handlers that publish batches of their own, readers see requests take effect one
\* after the other and whole: SetActiveBatchesHandler implements PublishedBatches.
THEOREM Implementation == ASSUME OwnBatches PROVE Spec => ImplementsPublishedBatches
<1>1. Init => Published!Init
  BY DEF Init, Published!Init, Serving, InitServing
<1>2. Inv /\ OwnInv /\ Inv' /\ [Next]_vars => [Published!Next]_Serving
  <2> SUFFICES ASSUME Inv, OwnInv, Inv', [Next]_vars PROVE [Published!Next]_Serving
    OBVIOUS
  <2>1. ASSUME NEW h \in Handlers, Commit(h) PROVE Published!Next
    <3>1. AsPublication(request[h]) \in Publications
      BY <2>1 DEF Commit, Publications, OwnInv, RequestInv
    <3> QED BY <2>1, <3>1, CommitPublishes DEF Published!Next, Published!Publish
  <2>2. CASE active' = active
    BY <2>2 DEF Serving
  <2> QED BY <2>1, <2>2, StepKinds, NoWriteFact DEF Next, Quiet, vars, ClearOld, SetNew, Rollback
<1> QED BY <1>1, <1>2, OwnInvariance, PTL DEF Spec, ImplementsPublishedBatches, Published!Spec
=============================================================================
