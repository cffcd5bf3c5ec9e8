-------------------------- MODULE GroupMembersProofs --------------------------
(***************************************************************************)
(* Theorems about GroupMembers, for any users, lists, requests, failures   *)
(* and deleted accounts.                                                   *)
(*                                                                         *)
(* The argument: the invariant is about the view of a request, which is    *)
(* what the group will be if the request commits now.  A request that is   *)
(* alone keeps its view proper (one row per user and per id) and managed,  *)
(* so the group is so before and after it, wherever it ends.  A removal    *)
(* does not see the view but the committed rows; as long as nothing has    *)
(* been changed before it, that is the same.                               *)
(***************************************************************************)
EXTENDS GroupMembers, SequenceTheorems, TLAPS

RequestRecords ==
    [st : {"idle", "next", "ensure", "find", "reload", "update", "delete", "commit"},
     by : Users, todo : Seq(Users \X Levels), found : Rows \cup {NoRow},
     buf : SUBSET Rows, logged : SUBSET Users]

TargetOf(q) == Head(q.todo)[1]
LevelOf(q) == Head(q.todo)[2]

\* A request works on an entry of its list; a removal and a change go their own ways.
Fits(q) ==
    /\ q.st = "idle" => q = Idle
    /\ q.st \notin {"idle", "commit"} => q.todo # <<>>
    /\ q.st \in {"find", "reload", "update"} => LevelOf(q) # "none"
    /\ q.st = "delete" => LevelOf(q) = "none"
    /\ q.st \in {"reload", "update", "delete"} \/ (q.st = "ensure" /\ LevelOf(q) = "none") =>
          q.found \in Rows /\ q.found.user = TargetOf(q)

Types ==
    /\ live \in BOOLEAN /\ overlapped \in BOOLEAN /\ mixed \in BOOLEAN
    /\ accounts \subseteq Users /\ members \subseteq Rows /\ nextId \in Nat \ {0}
    /\ request \in [Requests -> RequestRecords]
    /\ \A r \in Requests : Fits(request[r])

\* What the group will be when q commits, of rows that are committed.
ViewOf(rows, q) == {row \in rows : row.id \notin Ids(q.buf)} \cup q.buf

\* One row per user, one per id, and no id that is still to come.
Proper(rows, n) ==
    /\ \A row1, row2 \in rows : row1.user = row2.user => row1 = row2
    /\ \A row1, row2 \in rows : row1.id = row2.id => row1 = row2
    /\ \A row \in rows : row.id < n

\* The row that q has found is the only one of its user, or has gone.
OneRow(rows, q, n) ==
    /\ Proper(ViewOf(rows, q), n)
    /\ q.st \in {"reload", "update"} =>
          /\ q.found.id < n
          /\ \A row \in ViewOf(rows, q) : row.user = q.found.user <=> row.id = q.found.id

\* What is true of requests that follow one another.
InTurn ==
    /\ \A p, q \in Requests : Open(p) /\ Open(q) => p = q
    /\ Proper(members, nextId)
    /\ \A r \in Requests : OneRow(members, request[r], nextId)

HasManager(rows) == \E row \in rows : row.manager
OthersManage(rows, u) == \E row \in rows : row.manager /\ row.user # u

\* A request that keeps the group managed: nothing is removed after a change, and
\* who is demoted or removed is not the last manager.
Managing(rows, q) ==
    /\ ~ChangesThenRemoves(q.todo)
    /\ q.buf # {} => \A i \in DOMAIN q.todo : Changes(q.todo, i)
    /\ HasManager(ViewOf(rows, q))
    /\ q.st \in {"find", "reload", "update"} /\ LevelOf(q) # "manager" =>
          OthersManage(ViewOf(rows, q), TargetOf(q))
    /\ q.st \in {"ensure", "delete"} /\ LevelOf(q) = "none" => q.found \in rows
    /\ q.st = "delete" => OthersManage(rows, TargetOf(q))

Kept == Managed /\ \A r \in Requests : Managing(members, request[r])

Inv ==
    /\ Types
    /\ overlapped \/ InTurn
    /\ overlapped \/ mixed \/ ~live \/ accounts # Users \/ Kept

-----------------------------------------------------------------------------
(* Lists and views.                                                        *)

LEMMA TailFact ==
    ASSUME NEW s \in Seq(Users \X Levels), s # <<>>
    PROVE  /\ Tail(s) \in Seq(Users \X Levels) /\ (Len(s) # 1 => Tail(s) # <<>>)
           /\ Head(s)[1] \in Users /\ Head(s)[2] \in Levels
           /\ ~ChangesThenRemoves(s) => ~ChangesThenRemoves(Tail(s))
           /\ ~ChangesThenRemoves(s) /\ Head(s)[2] # "none" =>
                 \A i \in DOMAIN Tail(s) : Changes(Tail(s), i)
           /\ (\A i \in DOMAIN s : Changes(s, i)) => Head(s)[2] # "none"
<1>1. /\ Len(s) \in Nat \ {0} /\ Head(s) = s[1] /\ s[1] \in Users \X Levels
      /\ Tail(s) \in Seq(Users \X Levels) /\ Len(Tail(s)) = Len(s) - 1
      /\ \A i \in 1..Len(s) - 1 : Tail(s)[i] = s[i + 1]
      /\ DOMAIN s = 1..Len(s) /\ DOMAIN Tail(s) = 1..Len(s) - 1
  OBVIOUS
<1>2. ~ChangesThenRemoves(s) => ~ChangesThenRemoves(Tail(s))
  <2> SUFFICES ASSUME ChangesThenRemoves(Tail(s)) PROVE ChangesThenRemoves(s)
    OBVIOUS
  <2>1. PICK i, j \in 1..Len(s) - 1 : i < j /\ Changes(Tail(s), i) /\ ~Changes(Tail(s), j)
    BY <1>1 DEF ChangesThenRemoves
  <2>2. i + 1 \in DOMAIN s /\ j + 1 \in DOMAIN s /\ i + 1 < j + 1
    BY <1>1, <2>1
  <2>3. Changes(s, i + 1) /\ ~Changes(s, j + 1)
    BY <1>1, <2>1 DEF Changes
  <2> QED BY <2>2, <2>3 DEF ChangesThenRemoves
<1>3. ASSUME ~ChangesThenRemoves(s), Head(s)[2] # "none", NEW i \in DOMAIN Tail(s)
      PROVE  Changes(Tail(s), i)
  <2>1. 1 \in DOMAIN s /\ i + 1 \in DOMAIN s /\ 1 < i + 1
    BY <1>1
  <2>2. Changes(s, 1)
    BY <1>1, <1>3 DEF Changes
  <2>3. Changes(s, i + 1)
    BY <1>3, <2>1, <2>2 DEF ChangesThenRemoves
  <2> QED BY <1>1, <2>3 DEF Changes
<1>4. (\A i \in DOMAIN s : Changes(s, i)) => Head(s)[2] # "none"
  BY <1>1 DEF Changes
<1>5. Len(s) # 1 => Tail(s) # <<>>
  <2>1. Len(s) # 1 => Len(Tail(s)) # 0
    BY <1>1
  <2> QED BY <1>1, <2>1, EmptySeq
<1> QED BY <1>1, <1>2, <1>3, <1>4, <1>5

\* Rows that go leave the rest proper.
LEMMA ProperSubset ==
    ASSUME NEW n \in Nat, NEW rows \in SUBSET Rows, Proper(rows, n), NEW S, S \subseteq rows
    PROVE  Proper(S, n)
BY DEF Proper

\* A row with an id and a user of its own joins the view.
LEMMA AddedRow ==
    ASSUME NEW rows \in SUBSET Rows, NEW q, NEW q2, NEW n \in Nat, NEW n2 \in Nat, n <= n2,
           q.buf \subseteq Rows, NEW row \in Rows,
           row.id \notin Ids(ViewOf(rows, q)), row.id < n2,
           \A w \in ViewOf(rows, q) : w.user # row.user,
           Proper(ViewOf(rows, q), n),
           q2.buf = q.buf \cup {row}
    PROVE  ViewOf(rows, q2) = ViewOf(rows, q) \cup {row} /\ Proper(ViewOf(rows, q2), n2)
<1>1. Ids(q2.buf) = Ids(q.buf) \cup {row.id}
  BY DEF Ids
<1>2. \A m \in rows : m.id \notin Ids(q.buf) => m.id # row.id
  BY DEF ViewOf, Ids
<1>3. ViewOf(rows, q2) = ViewOf(rows, q) \cup {row}
  BY <1>1, <1>2 DEF ViewOf
<1>4. \A w \in ViewOf(rows, q) : w.id # row.id /\ w.id \in Nat
  BY DEF Ids, ViewOf, Rows
<1>5. \A w \in ViewOf(rows, q) : w.id < n2
  BY <1>4 DEF Proper
<1> QED BY <1>3, <1>4, <1>5 DEF Proper

\* A row takes the place of the one with its id.
LEMMA ReplacedRow ==
    ASSUME NEW rows \in SUBSET Rows, NEW q, NEW q2, NEW n \in Nat,
           q.buf \subseteq Rows, NEW row \in Rows, row.id < n,
           \A w \in ViewOf(rows, q) : w.user = row.user => w.id = row.id,
           Proper(ViewOf(rows, q), n),
           q2.buf = {w \in q.buf : w.id # row.id} \cup {row}
    PROVE  /\ ViewOf(rows, q2) = {w \in ViewOf(rows, q) : w.id # row.id} \cup {row}
           /\ Proper(ViewOf(rows, q2), n)
<1>1. Ids(q2.buf) = Ids(q.buf) \cup {row.id}
  BY DEF Ids
<1>2. ViewOf(rows, q2) = {w \in ViewOf(rows, q) : w.id # row.id} \cup {row}
  BY <1>1 DEF ViewOf
<1> QED BY <1>2 DEF Proper

-----------------------------------------------------------------------------
(* Types.                                                                  *)

LEMMA IdleFact == Idle \in RequestRecords /\ Fits(Idle)
BY ListsAssumption DEF Idle, RequestRecords, Fits

\* One request becomes q2.
LEMMA RequestChanged ==
    ASSUME Types, NEW r \in Requests, NEW q2 \in RequestRecords, Fits(q2), Becomes(r, q2)
    PROVE  /\ request' \in [Requests -> RequestRecords]
           /\ \A p \in Requests : Fits(request'[p])
           /\ request'[r] = q2 /\ \A p \in Requests \ {r} : request'[p] = request[p]
BY DEF Types, Becomes

\* A request that is not idle or at its end works on an entry.
LEMMA EntryFact ==
    ASSUME Types, NEW r \in Requests
    PROVE  /\ request[r] \in RequestRecords /\ Fits(request[r])
           /\ request[r].st \notin {"idle", "commit"} =>
                 request[r].todo # <<>> /\ Target(r) \in Users /\ Level(r) \in Levels
           /\ Target(r) = TargetOf(request[r]) /\ Level(r) = LevelOf(request[r])
<1>1. request[r] \in RequestRecords /\ Fits(request[r])
  BY DEF Types
<1>2. request[r].st \notin {"idle", "commit"} => request[r].todo # <<>>
  BY <1>1 DEF Fits
<1>3. request[r].todo # <<>> => Target(r) \in Users /\ Level(r) \in Levels
  BY <1>1, TailFact DEF RequestRecords, Target, Level, Entry
<1> QED BY <1>1, <1>2, <1>3 DEF Target, Level, Entry, TargetOf, LevelOf

LEMMA AdvancedFact ==
    ASSUME Types, NEW r \in Requests, request[r].st \notin {"idle", "commit"}
    PROVE  /\ Advanced(r) \in RequestRecords /\ Fits(Advanced(r))
           /\ Advanced(r).buf = request[r].buf /\ Advanced(r).todo = Tail(request[r].todo)
           /\ Advanced(r).st \in {"next", "commit"}
           /\ Advanced(r).st # "commit" => Advanced(r).todo # <<>>
<1>1. request[r] \in RequestRecords /\ request[r].todo # <<>>
  BY EntryFact
<1>2. /\ Tail(request[r].todo) \in Seq(Users \X Levels)
      /\ Len(request[r].todo) # 1 => Tail(request[r].todo) # <<>>
  BY <1>1, TailFact DEF RequestRecords
<1> QED BY <1>1, <1>2 DEF Advanced, RequestRecords, Fits

\* The entry with another row, state and log.
LEMMA MovedFact ==
    ASSUME Types, NEW r \in Requests, request[r].st \notin {"idle", "commit"},
           NEW q2 \in RequestRecords, q2.todo = request[r].todo, q2.st \notin {"idle", "commit"},
           q2.st \in {"find", "reload", "update"} => Level(r) # "none",
           q2.st = "delete" => Level(r) = "none",
           q2.st \in {"reload", "update", "delete"} \/ (q2.st = "ensure" /\ Level(r) = "none") =>
               q2.found \in Rows /\ q2.found.user = Target(r)
    PROVE  Fits(q2)
BY EntryFact DEF Fits, TargetOf, LevelOf, Target, Level, Entry

\* What an action of r makes of r is a request again.
Leaves(r) == \E q2 \in RequestRecords : Fits(q2) /\ Becomes(r, q2)

LEMMA EndsFact == ASSUME NEW r \in Requests, Ends(r) PROVE Leaves(r)
BY IdleFact DEF Ends, Leaves

LEMMA DeleteFact ==
    ASSUME Types, NEW r \in Requests, NEW q2 \in RequestRecords, Delete(r, q2),
           request[r].st \notin {"idle", "commit"}, Level(r) = "none",
           q2.todo = request[r].todo, q2.found \in Rows, q2.found.user = Target(r)
    PROVE  Leaves(r)
<1>1. CASE ~CanLog(r)
  BY <1>1, EndsFact DEF Delete
<1>2. CASE CanLog(r)
  <2> DEFINE q3 == [q2 EXCEPT !.st = "delete"]
  <2>1. Becomes(r, q3)
    BY <1>2 DEF Delete
  <2>2. /\ q3 \in RequestRecords /\ q3.todo = request[r].todo /\ q3.st = "delete"
        /\ q3.found = q2.found
    BY DEF RequestRecords
  <2> HIDE DEF q3
  <2>3. Fits(q3)
    BY <2>2, MovedFact
  <2> QED BY <2>1, <2>2, <2>3 DEF Leaves
<1> QED BY <1>1, <1>2

LEMMA ExamineRemovalLeaves ==
    ASSUME Types, NEW r \in Requests, ExamineRemoval(r) PROVE Leaves(r)
<1>1. request[r] \in RequestRecords /\ request[r].st = "next" /\ Level(r) = "none"
  BY EntryFact DEF ExamineRemoval, Removing
<1>2. CASE Ends(r)
  BY <1>2, EndsFact
<1>3. ASSUME NEW row \in RowsOf(members, Target(r)),
             Becomes(r, [[request[r] EXCEPT !.found = row] EXCEPT !.st = "ensure"])
      PROVE  Leaves(r)
  <2> DEFINE q2 == [[request[r] EXCEPT !.found = row] EXCEPT !.st = "ensure"]
  <2>1. row \in Rows /\ row.user = Target(r)
    BY <1>3 DEF RowsOf, Types
  <2>2. /\ q2 \in RequestRecords /\ q2.todo = request[r].todo /\ q2.st = "ensure"
        /\ q2.found = row
    BY <1>1, <2>1 DEF RequestRecords
  <2>3. Becomes(r, q2)
    BY <1>3
  <2> HIDE DEF q2
  <2>4. Fits(q2)
    BY <1>1, <2>1, <2>2, MovedFact
  <2> QED BY <2>2, <2>3, <2>4 DEF Leaves
<1>4. ASSUME NEW row \in RowsOf(members, Target(r)),
             Delete(r, [request[r] EXCEPT !.found = row])
      PROVE  Leaves(r)
  <2> DEFINE q2 == [request[r] EXCEPT !.found = row]
  <2>1. row \in Rows /\ row.user = Target(r)
    BY <1>4 DEF RowsOf, Types
  <2>2. q2 \in RequestRecords /\ q2.todo = request[r].todo /\ q2.found = row
    BY <1>1, <2>1 DEF RequestRecords
  <2>3. Delete(r, q2)
    BY <1>4
  <2> HIDE DEF q2
  <2> QED BY <1>1, <2>1, <2>2, <2>3, DeleteFact
<1> QED BY <1>2, <1>3, <1>4 DEF ExamineRemoval

LEMMA ExamineChangeLeaves ==
    ASSUME Types, NEW r \in Requests, ExamineChange(r) PROVE Leaves(r)
<1> DEFINE logged == [request[r] EXCEPT !.logged = @ \cup {request[r].by, Target(r)}]
<1>1. /\ request[r] \in RequestRecords /\ request[r].st = "next" /\ Level(r) # "none"
      /\ Target(r) \in Users
  BY EntryFact DEF ExamineChange, Removing
<1>2. PICK st \in {"ensure", "find"} : Becomes(r, [logged EXCEPT !.st = st])
  BY DEF ExamineChange
<1> DEFINE q2 == [logged EXCEPT !.st = st]
<1>3. q2 \in RequestRecords /\ q2.todo = request[r].todo /\ q2.st \in {"ensure", "find"}
  BY <1>1 DEF RequestRecords
<1>4. Becomes(r, q2)
  BY <1>2
<1> HIDE DEF q2
<1>5. Fits(q2)
  BY <1>1, <1>3, MovedFact
<1> QED BY <1>3, <1>4, <1>5 DEF Leaves

LEMMA EnsureLeaves ==
    ASSUME Types, NEW r \in Requests, Ensure(r) PROVE Leaves(r)
<1>1. request[r] \in RequestRecords /\ request[r].st = "ensure" /\ Fits(request[r])
  BY EntryFact DEF Ensure
<1>2. CASE Removing(r)
  <2>1. Level(r) = "none" /\ Delete(r, request[r])
    BY <1>2 DEF Ensure, Removing
  <2>2. request[r].found \in Rows /\ request[r].found.user = Target(r)
    BY <1>1, <2>1, EntryFact DEF Fits
  <2> QED BY <1>1, <2>1, <2>2, DeleteFact
<1>3. CASE ~Removing(r)
  <2> DEFINE q2 == [request[r] EXCEPT !.st = "find"]
  <2>1. Becomes(r, q2) /\ Level(r) # "none"
    BY <1>3 DEF Ensure, Removing
  <2>2. q2 \in RequestRecords /\ q2.todo = request[r].todo /\ q2.st = "find"
    BY <1>1 DEF RequestRecords
  <2> HIDE DEF q2
  <2>3. Fits(q2)
    BY <1>1, <2>1, <2>2, MovedFact
  <2> QED BY <2>1, <2>2, <2>3 DEF Leaves
<1> QED BY <1>2, <1>3

LEMMA WrittenFact ==
    ASSUME Types, NEW r \in Requests, request[r].st \notin {"idle", "commit"},
           NEW B \in SUBSET Rows, NEW L \in SUBSET Users
    PROVE  LET q2 == [Advanced(r) EXCEPT !.buf = B, !.logged = L]
           IN  /\ q2 \in RequestRecords /\ Fits(q2) /\ q2.buf = B
               /\ q2.todo = Tail(request[r].todo) /\ q2.st \in {"next", "commit"}
BY AdvancedFact DEF RequestRecords, Fits

LEMMA WantedFact ==
    ASSUME Types, NEW r \in Requests, request[r].st \in {"reload", "update"}
    PROVE  /\ request[r].found \in Rows /\ request[r].found.user = Target(r)
           /\ Wanted(r) \in Rows /\ Wanted(r).id = request[r].found.id
           /\ Wanted(r).user = Target(r) /\ Wanted(r).creator \in Users
           /\ Wanted(r).manager = (Level(r) = "manager")
<1>1. request[r].found \in Rows /\ request[r].found.user = Target(r)
  BY EntryFact DEF Fits
<1> QED BY <1>1 DEF Wanted, Rows

LEMMA FindLeaves ==
    ASSUME Types, NEW r \in Requests, Find(r)
    PROVE  Leaves(r) /\ nextId' \in Nat \ {0}
<1>1. /\ request[r] \in RequestRecords /\ request[r].st = "find" /\ Fits(request[r])
      /\ Target(r) \in Users /\ Level(r) # "none"
  BY EntryFact DEF Find, Fits
<1>2. CASE Insert(r, Row(nextId, Target(r), Level(r), request[r].by))
  <2> DEFINE row == Row(nextId, Target(r), Level(r), request[r].by)
  <2>1. row \in Rows
    BY <1>1 DEF Row, Rows, RequestRecords, Types
  <2> HIDE DEF row
  <2> DEFINE q2 == [Advanced(r) EXCEPT !.buf = @ \cup {row}]
  <2>2. Becomes(r, q2)
    BY <1>2 DEF Insert, row
  <2>3. q2 = [Advanced(r) EXCEPT !.buf = request[r].buf \cup {row}, !.logged = request[r].logged]
    BY <1>1, AdvancedFact DEF Advanced, RequestRecords
  <2>4. request[r].buf \cup {row} \in SUBSET Rows /\ request[r].logged \in SUBSET Users
    BY <1>1, <2>1 DEF RequestRecords
  <2> HIDE DEF q2
  <2>5. q2 \in RequestRecords /\ Fits(q2)
    BY <1>1, <2>3, <2>4, WrittenFact
  <2>6. nextId' \in Nat \ {0}
    BY <1>2 DEF Insert, Types
  <2> QED BY <2>2, <2>5, <2>6 DEF Leaves
<1>3. ASSUME NEW row \in RowsOf(View(r), Target(r)),
             Becomes(r, [request[r] EXCEPT !.st = "reload", !.found = row]), UNCHANGED nextId
      PROVE  Leaves(r) /\ nextId' \in Nat \ {0}
  <2> DEFINE q2 == [request[r] EXCEPT !.st = "reload", !.found = row]
  <2>1. row \in Rows /\ row.user = Target(r)
    BY <1>1, <1>3 DEF RowsOf, Types, View, RequestRecords
  <2>2. /\ q2 \in RequestRecords /\ q2.todo = request[r].todo /\ q2.st = "reload"
        /\ q2.found = row
    BY <1>1, <2>1 DEF RequestRecords
  <2>3. Becomes(r, q2)
    BY <1>3
  <2> HIDE DEF q2
  <2>4. Fits(q2)
    BY <1>1, <2>1, <2>2, MovedFact
  <2> QED BY <1>3, <2>2, <2>3, <2>4 DEF Leaves, Types
<1> QED BY <1>2, <1>3 DEF Find

LEMMA ReloadLeaves ==
    ASSUME Types, NEW r \in Requests, Reload(r) PROVE Leaves(r)
<1>1. /\ request[r] \in RequestRecords /\ request[r].st = "reload" /\ Fits(request[r])
      /\ Level(r) # "none" /\ request[r].found \in Rows /\ request[r].found.user = Target(r)
  BY EntryFact, WantedFact DEF Reload, Fits
<1>2. CASE Becomes(r, Advanced(r))
  BY <1>1, <1>2, AdvancedFact DEF Leaves
<1>3. CASE Becomes(r, [request[r] EXCEPT !.st = "update"])
  <2> DEFINE q2 == [request[r] EXCEPT !.st = "update"]
  <2>1. /\ q2 \in RequestRecords /\ q2.todo = request[r].todo /\ q2.st = "update"
        /\ q2.found = request[r].found
    BY <1>1 DEF RequestRecords
  <2>2. Becomes(r, q2)
    BY <1>3
  <2> HIDE DEF q2
  <2>3. Fits(q2)
    BY <1>1, <2>1, MovedFact
  <2> QED BY <2>1, <2>2, <2>3 DEF Leaves
<1> QED BY <1>2, <1>3 DEF Reload

LEMMA ReinsertLeaves ==
    ASSUME Types, NEW r \in Requests, Reinsert(r) PROVE Leaves(r)
<1>1. request[r] \in RequestRecords /\ request[r].st = "reload"
  BY EntryFact DEF Reinsert
<1>2. Wanted(r) \in Rows /\ Wanted(r).creator \in Users
  BY <1>1, WantedFact
<1>3. CASE Ends(r)
  BY <1>3, EndsFact
<1>4. CASE Becomes(r, [Advanced(r) EXCEPT !.buf = @ \cup {Wanted(r)},
                                         !.logged = @ \cup {Wanted(r).creator}])
  <2> DEFINE q2 == [Advanced(r) EXCEPT !.buf = @ \cup {Wanted(r)},
                                       !.logged = @ \cup {Wanted(r).creator}]
             B == request[r].buf \cup {Wanted(r)}
             L == request[r].logged \cup {Wanted(r).creator}
  <2>1. B \in SUBSET Rows /\ L \in SUBSET Users
    BY <1>1, <1>2 DEF RequestRecords
  <2>2. q2 = [Advanced(r) EXCEPT !.buf = B, !.logged = L]
    BY <1>1, AdvancedFact DEF Advanced, RequestRecords
  <2>3. Becomes(r, q2)
    BY <1>4
  <2> HIDE DEF q2, B, L
  <2>4. q2 \in RequestRecords /\ Fits(q2)
    BY <1>1, <2>1, <2>2, WrittenFact
  <2> QED BY <2>3, <2>4 DEF Leaves
<1> QED BY <1>3, <1>4 DEF Reinsert

LEMMA UpdateLeaves ==
    ASSUME Types, NEW r \in Requests, Update(r) PROVE Leaves(r)
<1>1. request[r] \in RequestRecords /\ request[r].st = "update"
  BY EntryFact DEF Update
<1>2. Wanted(r) \in Rows
  BY <1>1, WantedFact
<1> DEFINE B == {w \in request[r].buf : w.id # Wanted(r).id} \cup {Wanted(r)}
           q2 == [Advanced(r) EXCEPT !.buf = B]
<1>3. Becomes(r, Advanced(r)) \/ Becomes(r, q2)
  BY DEF Update
<1>4. CASE Becomes(r, Advanced(r))
  BY <1>1, <1>4, AdvancedFact DEF Leaves
<1>5. CASE Becomes(r, q2)
  <2>1. B \in SUBSET Rows /\ request[r].logged \in SUBSET Users
    BY <1>1, <1>2 DEF RequestRecords
  <2>2. q2 = [Advanced(r) EXCEPT !.buf = B, !.logged = request[r].logged]
    BY <1>1, AdvancedFact DEF Advanced, RequestRecords
  <2> HIDE DEF q2, B
  <2>3. q2 \in RequestRecords /\ Fits(q2)
    BY <1>1, <2>1, <2>2, WrittenFact
  <2> QED BY <1>5, <2>3 DEF Leaves
<1> QED BY <1>3, <1>4, <1>5

LEMMA StartLeaves ==
    ASSUME Types, NEW r \in Requests, Start(r) PROVE Leaves(r)
<1>1. PICK row \in members, list \in Lists :
         Becomes(r, [Idle EXCEPT !.st = "next", !.by = row.user, !.todo = list])
  BY DEF Start
<1> DEFINE q2 == [Idle EXCEPT !.st = "next", !.by = row.user, !.todo = list]
<1>2. row.user \in Users /\ list \in Seq(Users \X Levels) /\ list # <<>>
  BY ListsAssumption DEF Types, Rows
<1>3. q2 \in RequestRecords /\ Fits(q2)
  BY <1>2, IdleFact DEF RequestRecords, Fits, Idle
<1> QED BY <1>1, <1>3 DEF Leaves

LEMMA TypesStep ==
    ASSUME Types, [Next]_vars PROVE Types'
<1>1. ASSUME NEW r \in Requests, Leaves(r),
             live' \in BOOLEAN, overlapped' \in BOOLEAN, mixed' \in BOOLEAN,
             accounts' \subseteq Users, members' \subseteq Rows, nextId' \in Nat \ {0}
      PROVE  Types'
  <2>1. PICK q2 \in RequestRecords : Fits(q2) /\ Becomes(r, q2)
    BY <1>1 DEF Leaves
  <2> QED BY <1>1, <2>1, RequestChanged DEF Types
<1>2. ASSUME NEW r \in Requests, Leaves(r),
             UNCHANGED <<live, accounts, members, nextId, overlapped, mixed>>
      PROVE  Types'
  BY <1>1, <1>2 DEF Types
<1>3. ASSUME NEW r \in Requests, Start(r) PROVE Types'
  <2>1. /\ UNCHANGED <<live, accounts, members, nextId>>
        /\ overlapped' \in BOOLEAN /\ mixed' \in BOOLEAN
    BY <1>3 DEF Start, Types
  <2> QED BY <1>1, <1>3, <2>1, StartLeaves DEF Types
<1>4. ASSUME NEW r \in Requests, Step(r) PROVE Types'
  <2>1. CASE ExamineRemoval(r)
    BY <1>2, <2>1, ExamineRemovalLeaves DEF ExamineRemoval
  <2>2. CASE ExamineChange(r)
    BY <1>2, <2>2, ExamineChangeLeaves DEF ExamineChange
  <2>3. CASE Refused(r)
    BY <1>2, <2>3, EndsFact DEF Refused
  <2>4. CASE Ensure(r)
    BY <1>2, <2>4, EnsureLeaves DEF Ensure
  <2>5. CASE Find(r)
    <3>1. UNCHANGED <<live, accounts, members, overlapped, mixed>>
      BY <2>5 DEF Find
    <3> QED BY <1>1, <2>5, <3>1, FindLeaves DEF Types
  <2>6. CASE Reload(r)
    BY <1>2, <2>6, ReloadLeaves DEF Reload
  <2>7. CASE Reinsert(r)
    BY <1>2, <2>7, ReinsertLeaves DEF Reinsert
  <2>8. CASE Update(r)
    BY <1>2, <2>8, UpdateLeaves DEF Update
  <2>9. CASE RemoveRow(r)
    <3>1. request[r].st = "delete" /\ Becomes(r, Advanced(r))
      BY <2>9 DEF RemoveRow
    <3>2. Leaves(r)
      BY <3>1, AdvancedFact DEF Leaves
    <3>3. members' \subseteq Rows /\ UNCHANGED <<live, accounts, nextId, overlapped, mixed>>
      BY <2>9 DEF RemoveRow, Types
    <3> QED BY <1>1, <3>2, <3>3 DEF Types
  <2>10. CASE Commit(r)
    <3>1. /\ members' = View(r) /\ Ends(r)
          /\ UNCHANGED <<live, accounts, nextId, overlapped, mixed>>
      BY <2>10 DEF Commit
    <3>2. members' \subseteq Rows
      BY <3>1, EntryFact DEF View, Types, RequestRecords
    <3> QED BY <1>1, <3>1, <3>2, EndsFact DEF Types
  <2> QED BY <1>4, <2>1, <2>2, <2>3, <2>4, <2>5, <2>6, <2>7, <2>8, <2>9, <2>10
          DEF Step, ChangeRefused, LastManager, DeadlockAbort
<1>5. ASSUME NEW r \in Requests, Fail(r) PROVE Types'
  BY <1>2, <1>5, EndsFact DEF Fail
<1>6. ASSUME DeleteGroup PROVE Types'
  BY <1>6 DEF DeleteGroup, Types
<1>7. ASSUME NEW u \in Users, DeleteUser(u) PROVE Types'
  <2>1. accounts' \subseteq Users /\ members' \subseteq Rows
    BY <1>7 DEF DeleteUser, Types
  <2>2. live' \in BOOLEAN /\ UNCHANGED <<request, nextId, overlapped, mixed>>
    BY <1>7 DEF DeleteUser, Types
  <2> QED BY <2>1, <2>2 DEF Types
<1>8. CASE UNCHANGED vars
  BY <1>8 DEF vars, Types
<1> QED BY <1>3, <1>4, <1>5, <1>6, <1>7, <1>8 DEF Next

-----------------------------------------------------------------------------
(* One row per user, as long as requests follow one another.               *)

LEMMA ViewFact ==
    ASSUME NEW r \in Requests
    PROVE  View(r) = ViewOf(members, request[r])
BY DEF View, ViewOf

LEMMA IdleView ==
    ASSUME NEW rows
    PROVE  ViewOf(rows, Idle) = rows /\ Idle.st = "idle" /\ Idle.buf = {} /\ Idle.todo = <<>>
BY DEF ViewOf, Idle, Ids

LEMMA OneRowIdle ==
    ASSUME NEW rows, NEW n, Proper(rows, n) PROVE OneRow(rows, Idle, n)
BY IdleView DEF OneRow

LEMMA OneRowQuiet ==
    ASSUME NEW rows, NEW n, NEW q, NEW q2, OneRow(rows, q, n), q2.buf = q.buf,
           q2.st \in {"reload", "update"} => q.st \in {"reload", "update"} /\ q2.found = q.found
    PROVE  OneRow(rows, q2, n)
<1>1. ViewOf(rows, q2) = ViewOf(rows, q)
  BY DEF ViewOf
<1> QED BY <1>1 DEF OneRow

LEMMA OneRowLess ==
    ASSUME NEW rows \in SUBSET Rows, NEW n \in Nat, NEW q \in RequestRecords, OneRow(rows, q, n),
           NEW S, S \subseteq rows
    PROVE  OneRow(S, q, n)
<1>1. ViewOf(S, q) \subseteq ViewOf(rows, q) /\ ViewOf(rows, q) \in SUBSET Rows
  BY DEF ViewOf, RequestRecords
<1>2. Proper(ViewOf(S, q), n)
  BY <1>1, ProperSubset DEF OneRow
<1> QED BY <1>1, <1>2 DEF OneRow

\* Nothing but r is open: what r becomes decides.
LEMMA TurnOf ==
    ASSUME Types, Types', NEW r \in Requests,
           \A p \in Requests \ {r} : ~Open(p) /\ request'[p] = request[p],
           Proper(members', nextId'), OneRow(members', request'[r], nextId')
    PROVE  InTurn'
<1>1. \A p \in Requests \ {r} : request[p] = Idle
  BY DEF Open, Types, Fits
<1>2. \A p \in Requests \ {r} : request'[p] = Idle
  BY <1>1
<1>3. \A p \in Requests : OneRow(members', request'[p], nextId')
  BY <1>2, OneRowIdle
<1>4. \A p, q \in Requests : request'[p].st # "idle" /\ request'[q].st # "idle" => p = q
  BY <1>2, IdleView
<1> QED BY <1>3, <1>4 DEF InTurn, Open

LEMMA Others ==
    ASSUME Types, InTurn, NEW r \in Requests, Open(r), Leaves(r)
    PROVE  \A p \in Requests \ {r} : ~Open(p) /\ request'[p] = request[p]
BY RequestChanged DEF InTurn, Leaves

\* r looks at something, or ends.
Quiet(q, q2) ==
    \/ q2 = Idle
    \/ q2.buf = q.buf /\ q2.todo = q.todo /\ q2.st \notin {"idle", "reload", "update", "commit"}

LEMMA QuietFact ==
    ASSUME Types, NEW r \in Requests,
           ExamineRemoval(r) \/ ExamineChange(r) \/ Ensure(r) \/ Refused(r) \/ Fail(r)
    PROVE  /\ UNCHANGED <<live, accounts, members, nextId, overlapped, mixed>>
           /\ Quiet(request[r], request'[r]) /\ Leaves(r)
<1>1. request \in [Requests -> RequestRecords] /\ request[r] \in RequestRecords
  BY DEF Types
<1>2. ASSUME NEW q2, Becomes(r, q2) PROVE request'[r] = q2
  BY <1>1, <1>2 DEF Becomes
<1>3. ASSUME Ends(r) PROVE request'[r] = Idle
  BY <1>2, <1>3 DEF Ends
<1>4. ASSUME NEW q2 \in RequestRecords, Delete(r, q2)
      PROVE  request'[r] = Idle \/ request'[r] = [q2 EXCEPT !.st = "delete"]
  BY <1>2, <1>3, <1>4 DEF Delete
<1>5. CASE ExamineRemoval(r)
  <2>1. CASE Ends(r)
    BY <1>3, <1>5, <2>1, ExamineRemovalLeaves DEF ExamineRemoval, Quiet
  <2>2. ASSUME NEW row \in members,
               \/ Becomes(r, [[request[r] EXCEPT !.found = row] EXCEPT !.st = "ensure"])
               \/ Delete(r, [request[r] EXCEPT !.found = row])
        PROVE  Quiet(request[r], request'[r])
    <3>1. row \in Rows
      BY DEF Types
    <3>2. [request[r] EXCEPT !.found = row] \in RequestRecords
      BY <1>1, <3>1 DEF RequestRecords
    <3> DEFINE q2 == [request[r] EXCEPT !.found = row]
    <3>3. q2.buf = request[r].buf /\ q2.todo = request[r].todo
      BY <1>1 DEF RequestRecords
    <3>4. /\ [q2 EXCEPT !.st = "ensure"].buf = q2.buf /\ [q2 EXCEPT !.st = "ensure"].todo = q2.todo
          /\ [q2 EXCEPT !.st = "delete"].buf = q2.buf /\ [q2 EXCEPT !.st = "delete"].todo = q2.todo
          /\ [q2 EXCEPT !.st = "ensure"].st = "ensure" /\ [q2 EXCEPT !.st = "delete"].st = "delete"
      BY <3>2 DEF RequestRecords
    <3>5. CASE Becomes(r, [q2 EXCEPT !.st = "ensure"])
      BY <1>2, <3>3, <3>4, <3>5 DEF Quiet
    <3>6. CASE Delete(r, q2)
      <4>1. request'[r] = Idle \/ request'[r] = [q2 EXCEPT !.st = "delete"]
        BY <1>4, <3>2, <3>6
      <4> QED BY <4>1, <3>3, <3>4 DEF Quiet
    <3> QED BY <2>2, <3>5, <3>6
  <2> QED BY <1>5, <2>1, <2>2, ExamineRemovalLeaves DEF ExamineRemoval, RowsOf
<1>6. CASE ExamineChange(r)
  <2> DEFINE logged == [request[r] EXCEPT !.logged = @ \cup {request[r].by, Target(r)}]
  <2>1. PICK st \in {"ensure", "find"} : Becomes(r, [logged EXCEPT !.st = st])
    BY <1>6 DEF ExamineChange
  <2>2. request'[r] = [logged EXCEPT !.st = st]
    BY <1>2, <2>1
  <2>3. /\ request'[r].buf = request[r].buf /\ request'[r].todo = request[r].todo
        /\ request'[r].st = st
    BY <1>1, <2>2 DEF RequestRecords
  <2> QED BY <1>6, <2>3, ExamineChangeLeaves DEF ExamineChange, Quiet
<1>7. CASE Ensure(r)
  <2>1. \/ request'[r] = Idle \/ request'[r] = [request[r] EXCEPT !.st = "delete"]
        \/ request'[r] = [request[r] EXCEPT !.st = "find"]
    BY <1>1, <1>2, <1>4, <1>7 DEF Ensure
  <2>2. Quiet(request[r], request'[r])
    BY <1>1, <2>1 DEF Quiet, RequestRecords
  <2> QED BY <1>7, <2>2, EnsureLeaves DEF Ensure
<1>8. CASE Refused(r)
  BY <1>3, <1>8, EndsFact DEF Refused, Quiet
<1>9. CASE Fail(r)
  BY <1>3, <1>9, EndsFact DEF Fail, Quiet
<1> QED BY <1>5, <1>6, <1>7, <1>8, <1>9

LEMMA BecomesFact ==
    ASSUME Types, NEW r \in Requests, NEW q2, Becomes(r, q2)
    PROVE  request'[r] = q2 /\ \A p \in Requests \ {r} : request'[p] = request[p]
BY DEF Becomes, Types

\* A user without a row gets one; a row is found.
LEMMA FindTurn ==
    ASSUME Types, NEW r \in Requests, OneRow(members, request[r], nextId), Find(r)
    PROVE  OneRow(members, request'[r], nextId')
<1> DEFINE V == ViewOf(members, request[r])
<1>1. /\ request[r] \in RequestRecords /\ request[r].st = "find" /\ Fits(request[r])
      /\ Target(r) \in Users /\ View(r) = V /\ V \in SUBSET Rows /\ Proper(V, nextId)
      /\ members \in SUBSET Rows /\ nextId \in Nat \ {0}
  BY EntryFact, ViewFact DEF Find, OneRow, Types, ViewOf, RequestRecords
<1>2. CASE /\ RowsOf(V, Target(r)) = {}
           /\ Insert(r, Row(nextId, Target(r), Level(r), request[r].by))
  <2> DEFINE row == Row(nextId, Target(r), Level(r), request[r].by)
             q2 == [Advanced(r) EXCEPT !.buf = @ \cup {row}]
  <2>1. row \in Rows /\ row.id = nextId /\ row.user = Target(r)
    BY <1>1 DEF Row, Rows, RequestRecords
  <2>2. Becomes(r, q2) /\ nextId' = nextId + 1
    BY <1>2 DEF Insert
  <2>3. q2.buf = request[r].buf \cup {row} /\ q2.st \in {"next", "commit"}
    BY <1>1, AdvancedFact DEF RequestRecords
  <2> HIDE DEF row, q2
  <2>4. row.id \notin Ids(V) /\ \A w \in V : w.user # row.user
    BY <1>1, <1>2, <2>1 DEF Ids, Proper, RowsOf, Rows
  <2>5. Proper(ViewOf(members, q2), nextId + 1)
    <3>1. /\ request[r].buf \subseteq Rows /\ row.id < nextId + 1 /\ nextId <= nextId + 1
          /\ nextId \in Nat /\ nextId + 1 \in Nat
      BY <1>1, <2>1 DEF RequestRecords
    <3> QED BY <1>1, <2>1, <2>3, <2>4, <3>1, AddedRow
  <2>6. request'[r] = q2
    BY <2>2, BecomesFact
  <2> QED BY <2>2, <2>3, <2>5, <2>6 DEF OneRow
<1>3. ASSUME NEW row \in RowsOf(V, Target(r)),
             Becomes(r, [request[r] EXCEPT !.st = "reload", !.found = row]), UNCHANGED nextId
      PROVE  OneRow(members, request'[r], nextId')
  <2> DEFINE q2 == [request[r] EXCEPT !.st = "reload", !.found = row]
  <2>1. request'[r] = q2
    BY <1>3, BecomesFact
  <2>2. q2.buf = request[r].buf /\ q2.st = "reload" /\ q2.found = row
    BY <1>1 DEF RequestRecords
  <2> HIDE DEF q2
  <2>3. ViewOf(members, q2) = V
    BY <2>2 DEF ViewOf
  <2>4. row \in V
    BY DEF RowsOf
  <2>5. row.id < nextId /\ \A w \in V : w.user = row.user <=> w.id = row.id
    BY <1>1, <2>4 DEF Proper
  <2> QED BY <1>1, <1>3, <2>1, <2>2, <2>3, <2>5 DEF OneRow
<1> QED BY <1>1, <1>2, <1>3 DEF Find

LEMMA ReloadTurn ==
    ASSUME Types, NEW r \in Requests, OneRow(members, request[r], nextId), Reload(r)
    PROVE  OneRow(members, request'[r], nextId')
<1>1. request[r] \in RequestRecords /\ request[r].st = "reload" /\ nextId' = nextId
  BY EntryFact DEF Reload
<1>2. \/ request'[r] = Advanced(r)
      \/ request'[r] = [request[r] EXCEPT !.st = "update"]
  BY BecomesFact DEF Reload
<1>3. CASE request'[r] = Advanced(r)
  <2>1. Advanced(r).buf = request[r].buf /\ Advanced(r).st \in {"next", "commit"}
    BY <1>1, AdvancedFact
  <2> QED BY <1>1, <1>3, <2>1, OneRowQuiet
<1>4. CASE request'[r] = [request[r] EXCEPT !.st = "update"]
  <2>1. /\ request'[r].buf = request[r].buf /\ request'[r].st = "update"
        /\ request'[r].found = request[r].found
    BY <1>1, <1>4 DEF RequestRecords
  <2> QED BY <1>1, <2>1, OneRowQuiet
<1> QED BY <1>2, <1>3, <1>4

LEMMA ReinsertTurn ==
    ASSUME Types, NEW r \in Requests, OneRow(members, request[r], nextId),
           Proper(members, nextId), Reinsert(r)
    PROVE  OneRow(members, request'[r], nextId')
<1> DEFINE V == ViewOf(members, request[r])
           row == Wanted(r)
           q2 == [Advanced(r) EXCEPT !.buf = @ \cup {row}, !.logged = @ \cup {row.creator}]
<1>1. /\ request[r] \in RequestRecords /\ request[r].st = "reload" /\ nextId' = nextId
      /\ row.id \notin Ids(View(r))
  BY EntryFact DEF Reinsert
<1>2. row \in Rows /\ row.id = request[r].found.id /\ row.user = request[r].found.user
  BY <1>1, WantedFact
<1>3. /\ View(r) = V /\ members \in SUBSET Rows /\ nextId \in Nat \ {0}
      /\ Proper(V, nextId) /\ request[r].found.id < nextId
      /\ \A w \in V : w.user = request[r].found.user <=> w.id = request[r].found.id
  BY <1>1, ViewFact DEF OneRow, Types
<1>4. request'[r] = Idle \/ request'[r] = q2
  BY BecomesFact DEF Reinsert, Ends
<1>5. CASE request'[r] = Idle
  BY <1>1, <1>5, OneRowIdle
<1>6. CASE request'[r] = q2
  <2>1. q2.buf = request[r].buf \cup {row} /\ q2.st \in {"next", "commit"}
    BY <1>1, AdvancedFact DEF RequestRecords
  <2> HIDE DEF row, q2
  <2>2. \A w \in V : w.user # row.user
    BY <1>1, <1>2, <1>3 DEF Ids
  <2>3. Proper(ViewOf(members, q2), nextId)
    <3>1. request[r].buf \subseteq Rows /\ row.id < nextId
      BY <1>1, <1>2, <1>3 DEF RequestRecords
    <3>2. row.id \notin Ids(V) /\ nextId \in Nat /\ nextId <= nextId
      BY <1>1, <1>3
    <3> QED BY <1>2, <1>3, <2>1, <2>2, <3>1, <3>2, AddedRow
  <2> QED BY <1>1, <1>6, <2>1, <2>3 DEF OneRow
<1> QED BY <1>4, <1>5, <1>6

LEMMA UpdateTurn ==
    ASSUME Types, NEW r \in Requests, OneRow(members, request[r], nextId), Update(r)
    PROVE  OneRow(members, request'[r], nextId')
<1> DEFINE V == ViewOf(members, request[r])
           row == Wanted(r)
           q2 == [Advanced(r) EXCEPT !.buf = {w \in request[r].buf : w.id # row.id} \cup {row}]
<1>1. request[r] \in RequestRecords /\ request[r].st = "update" /\ nextId' = nextId
  BY EntryFact DEF Update
<1>2. row \in Rows /\ row.id = request[r].found.id /\ row.user = request[r].found.user
  BY <1>1, WantedFact
<1>3. /\ members \in SUBSET Rows /\ nextId \in Nat \ {0}
      /\ Proper(V, nextId) /\ request[r].found.id < nextId
      /\ \A w \in V : w.user = request[r].found.user <=> w.id = request[r].found.id
  BY <1>1 DEF OneRow, Types
<1>4. request'[r] = Advanced(r) \/ request'[r] = q2
  BY BecomesFact DEF Update
<1>5. Advanced(r).buf = request[r].buf /\ Advanced(r).st \in {"next", "commit"}
  BY <1>1, AdvancedFact
<1>6. CASE request'[r] = Advanced(r)
  BY <1>1, <1>5, <1>6, OneRowQuiet
<1>7. CASE request'[r] = q2
  <2>1. /\ q2.buf = {w \in request[r].buf : w.id # row.id} \cup {row}
        /\ q2.st \in {"next", "commit"}
    BY <1>1, AdvancedFact DEF RequestRecords
  <2> HIDE DEF row, q2
  <2>2. Proper(ViewOf(members, q2), nextId)
    <3>1. /\ request[r].buf \subseteq Rows /\ row.id < nextId
          /\ \A w \in V : w.user = row.user => w.id = row.id
      BY <1>1, <1>2, <1>3 DEF RequestRecords
    <3> QED BY <1>2, <1>3, <2>1, <3>1, ReplacedRow
  <2> QED BY <1>1, <1>7, <2>1, <2>2 DEF OneRow
<1> QED BY <1>4, <1>6, <1>7

LEMMA RemoveRowTurn ==
    ASSUME Types, NEW r \in Requests, OneRow(members, request[r], nextId),
           Proper(members, nextId), RemoveRow(r)
    PROVE  Proper(members', nextId') /\ OneRow(members', request'[r], nextId')
<1>1. /\ request[r] \in RequestRecords /\ request[r].st = "delete"
      /\ members \in SUBSET Rows /\ nextId \in Nat
  BY EntryFact DEF RemoveRow, Types
<1>2. members' \subseteq members /\ nextId' = nextId /\ request'[r] = Advanced(r)
  BY BecomesFact DEF RemoveRow
<1>3. Advanced(r).buf = request[r].buf /\ Advanced(r).st \in {"next", "commit"}
  BY <1>1, AdvancedFact
<1>4. OneRow(members', request[r], nextId)
  BY <1>1, <1>2, OneRowLess
<1>5. Proper(members', nextId)
  BY <1>1, <1>2, ProperSubset
<1> QED BY <1>2, <1>3, <1>4, <1>5, OneRowQuiet

\* The rows that are committed, and the view of the request that is open.
LEMMA StepTurn ==
    ASSUME Types, InTurn, NEW r \in Requests, Step(r) \/ Fail(r)
    PROVE  Proper(members', nextId') /\ OneRow(members', request'[r], nextId') /\ Leaves(r)
<1>1. OneRow(members, request[r], nextId) /\ Proper(members, nextId)
  BY DEF InTurn
<1>2. CASE ExamineRemoval(r) \/ ExamineChange(r) \/ Ensure(r) \/ Refused(r) \/ Fail(r)
  <2>1. /\ members' = members /\ nextId' = nextId /\ Leaves(r)
        /\ Quiet(request[r], request'[r])
    BY <1>2, QuietFact
  <2> QED BY <1>1, <2>1, OneRowQuiet, OneRowIdle DEF Quiet
<1>3. CASE Find(r)
  <2>1. members' = members /\ nextId' \in {nextId, nextId + 1} /\ nextId \in Nat
    BY <1>3 DEF Find, Insert, Types
  <2>2. \A row \in members : row.id \in Nat
    BY DEF Types, Rows
  <2>3. Proper(members', nextId')
    BY <1>1, <2>1, <2>2 DEF Proper
  <2> QED BY <1>1, <1>3, <2>1, <2>3, FindTurn, FindLeaves
<1>4. CASE Reload(r)
  BY <1>1, <1>4, ReloadTurn, ReloadLeaves DEF Reload
<1>5. CASE Reinsert(r)
  BY <1>1, <1>5, ReinsertTurn, ReinsertLeaves DEF Reinsert
<1>6. CASE Update(r)
  BY <1>1, <1>6, UpdateTurn, UpdateLeaves DEF Update
<1>7. CASE RemoveRow(r)
  <2>1. Leaves(r)
    BY <1>7, AdvancedFact DEF RemoveRow, Leaves
  <2> QED BY <1>1, <1>7, <2>1, RemoveRowTurn
<1>8. CASE Commit(r)
  <2>1. members' = ViewOf(members, request[r]) /\ nextId' = nextId /\ Ends(r)
    BY <1>8, ViewFact DEF Commit
  <2>2. request'[r] = Idle
    BY <2>1, BecomesFact DEF Ends
  <2> QED BY <1>1, <2>1, <2>2, EndsFact, OneRowIdle DEF OneRow
<1> QED BY <1>2, <1>3, <1>4, <1>5, <1>6, <1>7, <1>8
        DEF Step, ChangeRefused, LastManager, DeadlockAbort

LEMMA StepOpen ==
    ASSUME Types, NEW r \in Requests, Step(r) \/ Fail(r)
    PROVE  Open(r) \/ Refused(r)
BY DEF Step, Fail, Open, ExamineRemoval, ExamineChange, ChangeRefused, LastManager, Ensure, Find,
       Reload, Reinsert, Update, RemoveRow, Commit, DeadlockAbort

LEMMA StepOnly ==
    ASSUME NEW r \in Requests, Step(r) \/ Fail(r)
    PROVE  UNCHANGED <<live, accounts, overlapped, mixed>>
<1>1. CASE ExamineRemoval(r) \/ ExamineChange(r) \/ Ensure(r) \/ Refused(r) \/ Fail(r)
  BY <1>1 DEF ExamineRemoval, ExamineChange, Ensure, Refused, Fail
<1>2. CASE Find(r) \/ Reload(r) \/ Reinsert(r) \/ Update(r)
  BY <1>2 DEF Find, Reload, Reinsert, Update
<1>3. CASE RemoveRow(r) \/ Commit(r)
  BY <1>3 DEF RemoveRow, Commit
<1> QED BY <1>1, <1>2, <1>3 DEF Step, ChangeRefused, LastManager, DeadlockAbort

LEMMA TurnStep ==
    ASSUME Types, Types', overlapped \/ InTurn, [Next]_vars
    PROVE  (overlapped \/ InTurn)'
<1> SUFFICES ASSUME ~overlapped' PROVE InTurn'
  OBVIOUS
<1>1. ASSUME NEW r \in Requests, Start(r) PROVE InTurn'
  <2>1. ~overlapped /\ \A p \in Requests : ~Open(p)
    BY <1>1 DEF Start
  <2> PICK row \in members, list \in Lists :
         Becomes(r, [Idle EXCEPT !.st = "next", !.by = row.user, !.todo = list])
    BY <1>1 DEF Start
  <2> DEFINE q2 == [Idle EXCEPT !.st = "next", !.by = row.user, !.todo = list]
  <2>2. Becomes(r, q2) /\ q2.buf = {} /\ q2.st = "next"
    BY DEF Idle
  <2> HIDE DEF q2
  <2>3. request'[r] = q2 /\ \A p \in Requests \ {r} : request'[p] = request[p]
    BY <2>2, BecomesFact
  <2>4. members' = members /\ nextId' = nextId
    BY <1>1 DEF Start
  <2>5. Proper(members, nextId)
    BY <2>1 DEF InTurn
  <2>6. OneRow(members, q2, nextId)
    BY <2>2, <2>5, OneRowIdle, OneRowQuiet, IdleView
  <2> QED BY <2>1, <2>3, <2>4, <2>5, <2>6, TurnOf
<1>2. ASSUME NEW r \in Requests, Step(r) \/ Fail(r) PROVE InTurn'
  <2>1. ~overlapped
    BY <1>2, StepOnly
  <2>2. /\ Proper(members', nextId') /\ OneRow(members', request'[r], nextId') /\ Leaves(r)
    BY <1>2, <2>1, StepTurn
  <2>3. CASE Open(r)
    BY <2>1, <2>2, <2>3, Others, TurnOf
  <2>4. CASE ~Open(r)
    <3>1. Refused(r) /\ request[r] = Idle
      BY <1>2, <2>4, StepOpen DEF Open, Types, Fits
    <3>2. request' = request /\ members' = members /\ nextId' = nextId
      BY <3>1 DEF Refused, Ends, Becomes, Types
    <3> QED BY <2>1, <3>2 DEF InTurn, Open
  <2> QED BY <2>3, <2>4
<1>3. ASSUME members' \subseteq members, UNCHANGED <<request, nextId, overlapped>>
      PROVE  InTurn'
  <2>1. InTurn /\ members \in SUBSET Rows /\ nextId \in Nat
    BY <1>3 DEF Types
  <2>2. Proper(members', nextId)
    BY <1>3, <2>1, ProperSubset DEF InTurn
  <2>3. \A r \in Requests : OneRow(members', request[r], nextId)
    BY <1>3, <2>1, OneRowLess DEF InTurn, Types
  <2> QED BY <1>3, <2>1, <2>2, <2>3 DEF InTurn, Open
<1>4. ASSUME DeleteGroup PROVE InTurn'
  BY <1>3, <1>4 DEF DeleteGroup
<1>5. ASSUME NEW u \in Users, DeleteUser(u) PROVE InTurn'
  BY <1>3, <1>5 DEF DeleteUser
<1>6. CASE UNCHANGED vars
  BY <1>3, <1>6 DEF vars
<1> QED BY <1>1, <1>2, <1>4, <1>5, <1>6 DEF Next

-----------------------------------------------------------------------------
(* A manager stays, as long as requests follow one another and nothing is  *)
(* removed after a change.                                                 *)

LEMMA ManagingIdle ==
    ASSUME NEW rows, HasManager(rows) PROVE Managing(rows, Idle)
BY IdleView DEF Managing, ChangesThenRemoves

\* An entry is done, and the view has kept a manager.
LEMMA ManagingNext ==
    ASSUME NEW rows, NEW q \in RequestRecords, NEW q2, q.todo # <<>>,
           ~ChangesThenRemoves(q.todo), q2.todo = Tail(q.todo), q2.st \in {"next", "commit"},
           HasManager(ViewOf(rows, q2)), q2.buf # {} => LevelOf(q) # "none"
    PROVE  Managing(rows, q2)
<1>1. /\ ~ChangesThenRemoves(q2.todo)
      /\ LevelOf(q) # "none" => \A i \in DOMAIN q2.todo : Changes(q2.todo, i)
  BY TailFact DEF RequestRecords, LevelOf
<1> QED BY <1>1 DEF Managing

\* Another look at the same entry.
LEMMA ManagingSame ==
    ASSUME NEW rows, NEW q, NEW q2, Managing(rows, q), q2.todo = q.todo, q2.buf = q.buf,
           q2.st \in {"find", "reload", "update"} /\ LevelOf(q) # "manager" =>
               OthersManage(ViewOf(rows, q), TargetOf(q)),
           q2.st \in {"ensure", "delete"} /\ LevelOf(q) = "none" => q2.found \in rows,
           q2.st = "delete" => OthersManage(rows, TargetOf(q))
    PROVE  Managing(rows, q2)
<1>1. ViewOf(rows, q2) = ViewOf(rows, q) /\ TargetOf(q2) = TargetOf(q) /\ LevelOf(q2) = LevelOf(q)
  BY DEF ViewOf, TargetOf, LevelOf
<1> QED BY <1>1 DEF Managing

\* Nothing has been changed before a removal.
LEMMA RemovalFirst ==
    ASSUME NEW rows, NEW q \in RequestRecords, q.todo # <<>>, Managing(rows, q), LevelOf(q) = "none"
    PROVE  q.buf = {}
BY TailFact DEF Managing, LevelOf, RequestRecords

\* Who is no manager, or no member, is not the last manager.
LEMMA AnotherManages ==
    ASSUME NEW rows, NEW n, Proper(rows, n), HasManager(rows), NEW u,
           RowsOf(rows, u) = {} \/ \E row \in RowsOf(rows, u) : ~row.manager
    PROVE  OthersManage(rows, u)
BY DEF Proper, HasManager, RowsOf, OthersManage

LEMMA LookedAtKept ==
    ASSUME Types, NEW r \in Requests, OneRow(members, request[r], nextId),
           Proper(members, nextId), Managed, Managing(members, request[r]),
           ExamineRemoval(r) \/ ExamineChange(r) \/ Ensure(r) \/ Refused(r) \/ Fail(r)
    PROVE  Managing(members, request'[r])
<1> DEFINE q == request[r]
           V == ViewOf(members, q)
<1>1. /\ q \in RequestRecords /\ View(r) = V /\ HasManager(members)
      /\ HasManager(V) /\ Proper(V, nextId)
      /\ Target(r) = TargetOf(q) /\ Level(r) = LevelOf(q)
  BY EntryFact, ViewFact DEF Managed, HasManager, Managing, OneRow
<1>2. CASE request'[r] = Idle
  BY <1>1, <1>2, ManagingIdle
<1>3. CASE ExamineRemoval(r)
  <2>1. Level(r) = "none"
    BY <1>3 DEF ExamineRemoval, Removing
  <2>2. ASSUME NEW row \in RowsOf(members, Target(r)), row.manager,
               Becomes(r, [[q EXCEPT !.found = row] EXCEPT !.st = "ensure"])
        PROVE  Managing(members, request'[r])
    <3>1. request'[r] = [[q EXCEPT !.found = row] EXCEPT !.st = "ensure"]
      BY <2>2, BecomesFact
    <3>2. /\ request'[r].todo = q.todo /\ request'[r].buf = q.buf /\ request'[r].found = row
          /\ request'[r].st = "ensure"
      BY <1>1, <3>1 DEF RequestRecords
    <3> QED BY <3>2, ManagingSame DEF RowsOf
  <2>3. ASSUME NEW row \in RowsOf(members, Target(r)), ~row.manager,
               Delete(r, [q EXCEPT !.found = row])
        PROVE  Managing(members, request'[r])
    <3>1. request'[r] = Idle \/ request'[r] = [[q EXCEPT !.found = row] EXCEPT !.st = "delete"]
      BY <2>3, BecomesFact DEF Delete, Ends
    <3>2. CASE request'[r] = [[q EXCEPT !.found = row] EXCEPT !.st = "delete"]
      <4>1. /\ request'[r].todo = q.todo /\ request'[r].buf = q.buf /\ request'[r].found = row
            /\ request'[r].st = "delete"
        BY <1>1, <3>2 DEF RequestRecords
      <4>2. OthersManage(members, Target(r))
        BY <1>1, <2>3, AnotherManages
      <4> QED BY <1>1, <4>1, <4>2, ManagingSame DEF RowsOf
    <3> QED BY <1>2, <3>1, <3>2
  <2>4. CASE Ends(r)
    BY <1>2, <2>4, BecomesFact DEF Ends
  <2> QED BY <1>3, <2>2, <2>3, <2>4 DEF ExamineRemoval
<1>4. CASE ExamineChange(r)
  <2> DEFINE logged == [q EXCEPT !.logged = @ \cup {q.by, Target(r)}]
  <2>1. /\ Level(r) # "none"
        /\ \/ /\ Level(r) = "manager" \/ RowsOf(V, Target(r)) = {}
              /\ Becomes(r, [logged EXCEPT !.st = "find"])
           \/ \E row \in RowsOf(V, Target(r)) :
                 Becomes(r, [logged EXCEPT !.st = IF row.manager THEN "ensure" ELSE "find"])
    BY <1>1, <1>4 DEF ExamineChange, Removing
  <2>2. ASSUME Becomes(r, [logged EXCEPT !.st = "find"]),
               Level(r) # "manager" => OthersManage(V, Target(r))
        PROVE  Managing(members, request'[r])
    <3>1. request'[r] = [logged EXCEPT !.st = "find"]
      BY <2>2, BecomesFact
    <3>2. request'[r].todo = q.todo /\ request'[r].buf = q.buf /\ request'[r].st = "find"
      BY <1>1, <3>1 DEF RequestRecords
    <3> QED BY <1>1, <2>2, <3>2, ManagingSame
  <2>3. ASSUME Becomes(r, [logged EXCEPT !.st = "ensure"])
        PROVE  Managing(members, request'[r])
    <3>1. request'[r] = [logged EXCEPT !.st = "ensure"]
      BY <2>3, BecomesFact
    <3>2. request'[r].todo = q.todo /\ request'[r].buf = q.buf /\ request'[r].st = "ensure"
      BY <1>1, <3>1 DEF RequestRecords
    <3> QED BY <1>1, <2>1, <3>2, ManagingSame
  <2>4. CASE /\ Level(r) = "manager" \/ RowsOf(V, Target(r)) = {}
             /\ Becomes(r, [logged EXCEPT !.st = "find"])
    BY <1>1, <2>2, <2>4, AnotherManages
  <2>5. ASSUME NEW row \in RowsOf(V, Target(r)),
               Becomes(r, [logged EXCEPT !.st = IF row.manager THEN "ensure" ELSE "find"])
        PROVE  Managing(members, request'[r])
    <3>1. CASE row.manager
      BY <2>3, <2>5, <3>1
    <3>2. CASE ~row.manager
      BY <1>1, <2>2, <2>5, <3>2, AnotherManages
    <3> QED BY <3>1, <3>2
  <2> QED BY <2>1, <2>4, <2>5
<1>5. CASE Ensure(r)
  <2>1. OthersManage(IF Removing(r) THEN members ELSE V, Target(r)) /\ q.st = "ensure"
    BY <1>1, <1>5 DEF Ensure, OtherManagers, Sees, OthersManage
  <2>2. CASE Removing(r)
    <3>1. request'[r] = Idle \/ request'[r] = [q EXCEPT !.st = "delete"]
      BY <1>5, <2>2, BecomesFact DEF Ensure, Delete, Ends
    <3>2. CASE request'[r] = [q EXCEPT !.st = "delete"]
      <4>1. /\ request'[r].todo = q.todo /\ request'[r].buf = q.buf
            /\ request'[r].found = q.found /\ request'[r].st = "delete"
        BY <1>1, <3>2 DEF RequestRecords
      <4>2. q.found \in members
        BY <1>1, <2>1, <2>2 DEF Managing, Removing
      <4> QED BY <1>1, <2>1, <2>2, <4>1, <4>2, ManagingSame
    <3> QED BY <1>2, <3>1, <3>2
  <2>3. CASE ~Removing(r)
    <3>1. request'[r] = [q EXCEPT !.st = "find"]
      BY <1>5, <2>3, BecomesFact DEF Ensure
    <3>2. request'[r].todo = q.todo /\ request'[r].buf = q.buf /\ request'[r].st = "find"
      BY <1>1, <3>1 DEF RequestRecords
    <3> QED BY <1>1, <2>1, <2>3, <3>2, ManagingSame
  <2> QED BY <2>2, <2>3
<1>6. CASE Refused(r) \/ Fail(r)
  BY <1>2, <1>6, BecomesFact DEF Refused, Fail, Ends
<1> QED BY <1>3, <1>4, <1>5, <1>6

LEMMA WrittenKept ==
    ASSUME Types, NEW r \in Requests, OneRow(members, request[r], nextId),
           HasManager(members), Managing(members, request[r]),
           Find(r) \/ Reload(r) \/ Reinsert(r) \/ Update(r)
    PROVE  Managing(members, request'[r])
<1> DEFINE q == request[r]
           V == ViewOf(members, q)
<1>1. /\ q \in RequestRecords /\ q.todo # <<>> /\ q.st \in {"find", "reload", "update"}
      /\ LevelOf(q) # "none" /\ View(r) = V /\ HasManager(V) /\ V \in SUBSET Rows
      /\ Target(r) = TargetOf(q) /\ Level(r) = LevelOf(q)
      /\ LevelOf(q) # "manager" => OthersManage(V, TargetOf(q))
  <2>1. q.st \in {"find", "reload", "update"}
    BY DEF Find, Reload, Reinsert, Update
  <2>2. q \in RequestRecords /\ Fits(q) /\ Target(r) = TargetOf(q) /\ Level(r) = LevelOf(q)
    BY EntryFact
  <2> QED BY <2>1, <2>2, ViewFact DEF Fits, Managing, ViewOf, Types, RequestRecords
<1>2. /\ Advanced(r).todo = Tail(q.todo) /\ Advanced(r).buf = q.buf
      /\ Advanced(r).st \in {"next", "commit"} /\ Advanced(r) \in RequestRecords
  BY <1>1, AdvancedFact
\* What the next entry finds in order: a manager in the view.
<1>3. ASSUME NEW q2, q2.todo = Tail(q.todo), q2.st \in {"next", "commit"},
             HasManager(ViewOf(members, q2))
      PROVE  Managing(members, q2)
  BY <1>1, <1>3, ManagingNext DEF Managing
<1>4. ASSUME request'[r] = Advanced(r) PROVE Managing(members, request'[r])
  <2>1. ViewOf(members, Advanced(r)) = V
    BY <1>2 DEF ViewOf
  <2> QED BY <1>1, <1>2, <1>3, <1>4, <2>1
<1>5. ASSUME NEW row, request'[r].buf = q.buf \cup {row},
             request'[r].todo = Tail(q.todo), request'[r].st \in {"next", "commit"},
             row.id \notin Ids(V)
      PROVE  Managing(members, request'[r])
  <2>1. Ids(request'[r].buf) = Ids(q.buf) \cup {row.id}
    BY <1>5 DEF Ids
  <2>2. \A w \in V : w.id # row.id
    BY <1>5 DEF Ids
  <2>3. V \subseteq ViewOf(members, request'[r])
    BY <1>5, <2>1, <2>2 DEF ViewOf
  <2> QED BY <1>1, <1>3, <1>5, <2>3 DEF HasManager
<1>6. CASE Find(r)
  <2>1. ASSUME Insert(r, Row(nextId, Target(r), Level(r), q.by)) PROVE Managing(members, request'[r])
    <3> DEFINE row == Row(nextId, Target(r), Level(r), q.by)
    <3>1. request'[r] = [Advanced(r) EXCEPT !.buf = @ \cup {row}] /\ row.id = nextId
      BY <2>1, BecomesFact DEF Insert, Row
    <3>2. /\ request'[r].buf = q.buf \cup {row} /\ request'[r].todo = Tail(q.todo)
          /\ request'[r].st \in {"next", "commit"}
      BY <1>2, <3>1 DEF RequestRecords
    <3>3. row.id \notin Ids(V)
      BY <1>1, <3>1 DEF OneRow, Proper, Ids, Rows, Types
    <3> QED BY <1>5, <3>2, <3>3
  <2>2. ASSUME NEW row, Becomes(r, [q EXCEPT !.st = "reload", !.found = row])
        PROVE  Managing(members, request'[r])
    <3>1. request'[r] = [q EXCEPT !.st = "reload", !.found = row]
      BY <2>2, BecomesFact
    <3>2. request'[r].todo = q.todo /\ request'[r].buf = q.buf /\ request'[r].st = "reload"
      BY <1>1, <3>1 DEF RequestRecords
    <3> QED BY <1>1, <3>2, ManagingSame
  <2> QED BY <1>6, <2>1, <2>2 DEF Find
<1>7. CASE Reload(r)
  <2>1. request'[r] = Advanced(r) \/ request'[r] = [q EXCEPT !.st = "update"]
    BY <1>7, BecomesFact DEF Reload
  <2>2. CASE request'[r] = [q EXCEPT !.st = "update"]
    <3>1. request'[r].todo = q.todo /\ request'[r].buf = q.buf /\ request'[r].st = "update"
      BY <1>1, <2>2 DEF RequestRecords
    <3> QED BY <1>1, <3>1, ManagingSame
  <2> QED BY <1>4, <2>1, <2>2
<1>8. CASE Reinsert(r)
  <2> DEFINE row == Wanted(r)
  <2>1. CASE request'[r] = Idle
    BY <2>1, ManagingIdle
  <2>2. CASE request'[r] = [Advanced(r) EXCEPT !.buf = @ \cup {row}, !.logged = @ \cup {row.creator}]
    <3>1. /\ request'[r].buf = q.buf \cup {row} /\ request'[r].todo = Tail(q.todo)
          /\ request'[r].st \in {"next", "commit"}
      BY <1>2, <2>2 DEF RequestRecords
    <3>2. row.id \notin Ids(V)
      BY <1>1, <1>8 DEF Reinsert
    <3> QED BY <1>5, <3>1, <3>2
  <2> QED BY <1>8, <2>1, <2>2, BecomesFact DEF Reinsert, Ends
<1>9. CASE Update(r)
  <2> DEFINE row == Wanted(r)
  <2>1. /\ row \in Rows /\ row.id = q.found.id /\ q.found.user = TargetOf(q)
        /\ row.manager = (LevelOf(q) = "manager")
        /\ \A w \in V : w.user = q.found.user <=> w.id = q.found.id
    BY <1>1, <1>9, WantedFact DEF Update, OneRow
  <2>2. CASE request'[r] = [Advanced(r) EXCEPT !.buf = {w \in q.buf : w.id # row.id} \cup {row}]
    <3>1. /\ request'[r].buf = {w \in q.buf : w.id # row.id} \cup {row}
          /\ request'[r].todo = Tail(q.todo) /\ request'[r].st \in {"next", "commit"}
      BY <1>2, <2>2 DEF RequestRecords
    <3> HIDE DEF row
    <3>2. Ids(request'[r].buf) = Ids(q.buf) \cup {row.id}
      BY <3>1 DEF Ids
    <3>3. {w \in V : w.id # row.id} \cup {row} \subseteq ViewOf(members, request'[r])
      BY <3>1, <3>2 DEF ViewOf
    <3>4. LevelOf(q) # "manager" => \E w \in V : w.manager /\ w.id # row.id
      BY <1>1, <2>1 DEF OthersManage
    <3>5. HasManager(ViewOf(members, request'[r]))
      BY <2>1, <3>3, <3>4 DEF HasManager
    <3> QED BY <1>3, <3>1, <3>5
  <2> QED BY <1>4, <1>9, <2>2, BecomesFact DEF Update
<1> QED BY <1>6, <1>7, <1>8, <1>9

LEMMA RemovedKept ==
    ASSUME Types, NEW r \in Requests, Proper(members, nextId),
           Managing(members, request[r]), RemoveRow(r)
    PROVE  HasManager(members') /\ Managing(members', request'[r])
<1> DEFINE q == request[r]
<1>1. /\ q \in RequestRecords /\ q.st = "delete" /\ q.todo # <<>> /\ LevelOf(q) = "none"
      /\ q.found.user = TargetOf(q)
  BY EntryFact DEF RemoveRow, Fits
<1>2. /\ members' = {row \in members : row.id # q.found.id}
      /\ request'[r] = Advanced(r)
  BY BecomesFact DEF RemoveRow
<1>3. /\ Advanced(r).todo = Tail(q.todo) /\ Advanced(r).buf = {}
      /\ Advanced(r).st \in {"next", "commit"}
  BY <1>1, AdvancedFact, RemovalFirst
<1>4. HasManager(members')
  <2>1. q.found \in members /\ OthersManage(members, q.found.user)
    BY <1>1 DEF Managing
  <2>2. PICK w \in members : w.manager /\ w.user # q.found.user
    BY <2>1 DEF OthersManage
  <2>3. w.id # q.found.id
    BY <2>1, <2>2 DEF Proper
  <2> QED BY <1>2, <2>2, <2>3 DEF HasManager
<1>5. ViewOf(members', Advanced(r)) = members'
  BY <1>3 DEF ViewOf, Ids
<1>6. ~ChangesThenRemoves(q.todo)
  BY DEF Managing
<1>7. Managing(members', Advanced(r))
  <2> HIDE DEF q
  <2> DEFINE q2 == Advanced(r)
  <2>1. HasManager(ViewOf(members', q2)) /\ q2.buf = {} /\ q2.todo = Tail(q.todo)
        /\ q2.st \in {"next", "commit"}
    BY <1>3, <1>4, <1>5
  <2> HIDE DEF q2
  <2>2. Managing(members', q2)
    BY <1>1, <1>6, <2>1, ManagingNext
  <2> QED BY <2>2 DEF q2
<1> QED BY <1>2, <1>4, <1>7

LEMMA StepKept ==
    ASSUME Types, InTurn, NEW r \in Requests, Kept, Step(r) \/ Fail(r)
    PROVE  HasManager(members') /\ Managing(members', request'[r])
<1>1. /\ OneRow(members, request[r], nextId) /\ Proper(members, nextId)
      /\ Managed /\ HasManager(members) /\ Managing(members, request[r])
  BY DEF InTurn, Kept, Managed, HasManager
<1>2. CASE ExamineRemoval(r) \/ ExamineChange(r) \/ Ensure(r) \/ Refused(r) \/ Fail(r)
  <2>1. members' = members
    BY <1>2, QuietFact
  <2> QED BY <1>1, <1>2, <2>1, LookedAtKept
<1>3. CASE Find(r) \/ Reload(r) \/ Reinsert(r) \/ Update(r)
  <2>1. members' = members
    BY <1>3 DEF Find, Reload, Reinsert, Update
  <2> QED BY <1>1, <1>3, <2>1, WrittenKept
<1>4. CASE RemoveRow(r)
  BY <1>1, <1>4, RemovedKept
<1>5. CASE Commit(r)
  <2>1. members' = ViewOf(members, request[r]) /\ request'[r] = Idle
    BY <1>5, ViewFact, BecomesFact DEF Commit, Ends
  <2> QED BY <1>1, <2>1, ManagingIdle DEF Managing
<1> QED BY <1>2, <1>3, <1>4, <1>5 DEF Step, ChangeRefused, LastManager, DeadlockAbort

\* Nothing but r is open: what r becomes decides.
LEMMA KeptOf ==
    ASSUME Types, NEW r \in Requests,
           \A p \in Requests \ {r} : ~Open(p) /\ request'[p] = request[p],
           HasManager(members'), Managing(members', request'[r])
    PROVE  Kept'
<1>1. \A p \in Requests \ {r} : request'[p] = Idle
  BY DEF Open, Types, Fits
<1>2. \A p \in Requests : Managing(members', request'[p])
  BY <1>1, ManagingIdle
<1> QED BY <1>2 DEF Kept, Managed, HasManager

LEMMA KeptStep ==
    ASSUME Types, overlapped \/ InTurn, overlapped \/ mixed \/ ~live \/ accounts # Users \/ Kept,
           [Next]_vars, ~overlapped', ~mixed', live', accounts' = Users
    PROVE  Kept'
<1>1. ASSUME NEW r \in Requests, Start(r) PROVE Kept'
  <2>1. /\ ~overlapped /\ ~mixed /\ live /\ accounts = Users
        /\ \A p \in Requests : ~Open(p)
    BY <1>1 DEF Start
  <2>2. PICK row \in members, list \in Lists :
           /\ Becomes(r, [Idle EXCEPT !.st = "next", !.by = row.user, !.todo = list])
           /\ mixed' = (mixed \/ ChangesThenRemoves(list))
    BY <1>1 DEF Start
  <2> DEFINE q2 == [Idle EXCEPT !.st = "next", !.by = row.user, !.todo = list]
  <2>3. q2.buf = {} /\ q2.st = "next" /\ q2.todo = list
    BY DEF Idle
  <2>4. request'[r] = q2 /\ \A p \in Requests \ {r} : request'[p] = request[p]
    BY <2>2, BecomesFact
  <2> HIDE DEF q2
  <2>5. members' = members /\ HasManager(members) /\ ~ChangesThenRemoves(list)
    BY <1>1, <2>1, <2>2 DEF Start, Kept, Managed, HasManager
  <2>6. ViewOf(members, q2) = members
    BY <2>3 DEF ViewOf, Ids
  <2>7. Managing(members, q2)
    BY <2>3, <2>5, <2>6 DEF Managing
  <2> QED BY <2>1, <2>4, <2>5, <2>7, KeptOf
<1>2. ASSUME NEW r \in Requests, Step(r) \/ Fail(r) PROVE Kept'
  <2>1. ~overlapped /\ ~mixed /\ live /\ accounts = Users
    BY <1>2, StepOnly
  <2>2. InTurn /\ Kept
    BY <2>1
  <2>3. HasManager(members') /\ Managing(members', request'[r]) /\ Leaves(r)
    BY <1>2, <2>2, StepKept, StepTurn
  <2>4. CASE Open(r)
    BY <2>2, <2>3, <2>4, Others, KeptOf
  <2>5. CASE ~Open(r)
    <3>1. Refused(r) /\ request[r] = Idle
      BY <1>2, <2>5, StepOpen DEF Open, Types, Fits
    <3>2. request' = request /\ members' = members
      BY <3>1 DEF Refused, Ends, Becomes, Types
    <3> QED BY <2>2, <3>2 DEF Kept, Managed
  <2> QED BY <2>4, <2>5
<1>3. ASSUME DeleteGroup PROVE FALSE
  BY <1>3 DEF DeleteGroup
<1>4. ASSUME NEW u \in Users, DeleteUser(u) PROVE FALSE
  BY <1>4 DEF DeleteUser
<1>5. CASE UNCHANGED vars
  BY <1>5 DEF vars, Kept, Managed
<1> QED BY <1>1, <1>2, <1>3, <1>4, <1>5 DEF Next

LEMMA InitInv == Init => Inv
<1> SUFFICES ASSUME Init PROVE Inv
  OBVIOUS
<1>1. \A r \in Requests : request[r] = Idle
  BY DEF Init
<1>2. Row(1, Creator, "manager", Creator) \in Rows
  BY ListsAssumption DEF Row, Rows
<1>3. Types
  <2>1. request \in [Requests -> RequestRecords] /\ \A r \in Requests : Fits(request[r])
    BY IdleFact DEF Init
  <2>2. members \subseteq Rows /\ accounts \subseteq Users
    BY <1>2 DEF Init
  <2>3. live \in BOOLEAN /\ overlapped \in BOOLEAN /\ mixed \in BOOLEAN
    BY DEF Init
  <2>4. nextId \in Nat \ {0}
    BY DEF Init
  <2> QED BY <2>1, <2>2, <2>3, <2>4 DEF Types
<1>4. Proper(members, nextId)
  BY DEF Init, Proper, Row
<1>5. InTurn
  BY <1>1, <1>4, OneRowIdle, IdleView DEF InTurn, Open
<1>6. HasManager(members)
  BY DEF Init, HasManager, Row
<1>7. Kept
  BY <1>1, <1>6, ManagingIdle DEF Kept, Managed, HasManager
<1> QED BY <1>3, <1>5, <1>7 DEF Inv

LEMMA NextInv == Inv /\ [Next]_vars => Inv'
BY TypesStep, TurnStep, KeptStep DEF Inv

\* The invariant holds in every behaviour.
LEMMA Invariance == Spec => []Inv
BY InitInv, NextInv, PTL DEF Spec

\* addOrUpdateUserToGroup and removeUserFromGroup keep one row of group_user for
\* every member, whatever lists they work through and wherever they fail, as long as
\* one request ends before the next starts: no key of the table does that for them.
THEOREM MemberHasOneRow == Spec => []OneRowPerMember
<1>1. Inv => OneRowPerMember
  BY DEF Inv, InTurn, Proper, OneRowPerMember
<1> QED BY <1>1, Invariance, PTL

\* ensureOtherManagers keeps a manager in the group over any number of requests that
\* follow one another, each with any list that does not remove a member after it has
\* changed one, whichever entry is refused and wherever a request fails.
THEOREM GroupKeepsManager == Spec => []ManagedWhenAlone
<1>1. Inv => ManagedWhenAlone
  BY DEF Inv, Kept, ManagedWhenAlone, EveryGroupManaged
<1> QED BY <1>1, Invariance, PTL

=============================================================================
