----------------------------- MODULE GroupMembers ----------------------------
(***************************************************************************)
(* The members of a group: addOrUpdateUserToGroup and removeUserFromGroup  *)
(* of backend/src/resolvers/GroupResolver.ts, on the table group_user.     *)
(*                                                                         *)
(* A request carries a list of users and the level each is to have.  It    *)
(* works through the list in one READ COMMITTED transaction, except that   *)
(* level "none" is handed to removeUserFromGroup, which opens a            *)
(* transaction of its own on another connection and commits it at once.    *)
(* Before a manager is demoted or removed, ensureOtherManagers looks for   *)
(* another one.  group_user has a row per member, but no unique key: what  *)
(* findOne returns is any row of the user.                                 *)
(***************************************************************************)
EXTENDS Naturals, FiniteSets, Sequences, Relation

CONSTANTS
    Users,
    Creator,        \* the user who creates the group
    Requests,       \* requests that may be open at once
    Lists,          \* the lists of <<user, level>> they may carry
    MaxRequests,    \* requests in all
    MaxFailures,    \* requests that fail for a reason of their own
    MaxDeletedUsers,
    NoRow

Levels == {"none", "member", "manager"}

ASSUME ListsAssumption ==
    /\ Creator \in Users
    /\ Lists \subseteq Seq(Users \X Levels)
    /\ \A list \in Lists : list # <<>>

VARIABLES
    live,       \* the group exists
    accounts,   \* the users that exist
    members,    \* committed rows of group_user
    request,    \* the requests that are open
    nextId,     \* the identity of the next row
    counts,     \* requests and failures so far
    overlapped, \* two requests have been open at the same time
    mixed       \* a request has changed one member and then removed another

vars == <<live, accounts, members, request, nextId, counts, overlapped, mixed>>

Row(id, user, level, creator) ==
    [id |-> id, user |-> user, manager |-> level = "manager", creator |-> creator]
Rows == [id : Nat \ {0}, user : Users, manager : BOOLEAN, creator : Users]

Idle == [st |-> "idle", by |-> Creator, todo |-> <<>>, found |-> NoRow, buf |-> {}, logged |-> {}]

TypeOK ==
    /\ live \in BOOLEAN /\ overlapped \in BOOLEAN /\ mixed \in BOOLEAN
    /\ accounts \subseteq Users /\ members \subseteq Rows
    /\ \A r \in Requests :
          /\ request[r].st \in {"idle", "next", "ensure", "find", "reload", "update", "delete", "commit"}
          /\ request[r].by \in Users /\ request[r].todo \in Seq(Users \X Levels)
          /\ request[r].found \in Rows \cup {NoRow} /\ request[r].buf \subseteq Rows
          /\ request[r].logged \subseteq Users
    /\ nextId \in Nat /\ counts \in [requests : 0..MaxRequests, failures : 0..MaxFailures]

\* createGroup has made its caller the first manager.
Init ==
    /\ live = TRUE /\ accounts = Users
    /\ members = {Row(1, Creator, "manager", Creator)}
    /\ request = [r \in Requests |-> Idle]
    /\ nextId = 2 /\ counts = [requests |-> 0, failures |-> 0]
    /\ overlapped = FALSE /\ mixed = FALSE

-----------------------------------------------------------------------------
(* The database.                                                           *)

Ids(rows) == {row.id : row \in rows}
RowsOf(rows, u) == {row \in rows : row.user = u}

Entry(r) == Head(request[r].todo)
Target(r) == Entry(r)[1]
Level(r) == Entry(r)[2]
Removing(r) == Level(r) = "none"
Open(r) == request[r].st # "idle"

\* What a transaction sees: committed rows under its own writes.
View(r) == {row \in members : row.id \notin Ids(request[r].buf)} \cup request[r].buf

\* removeUserFromGroup reads on a connection of its own.
Sees(r) == IF Removing(r) THEN members ELSE View(r)

\* Row locks last to the end of the transaction.  A removal waits also for the
\* transaction of the request it is a part of.
Holders(id) == {r \in Requests : id \in Ids(request[r].buf)}
Locked(r) ==
    CASE request[r].st = "update" -> Holders(request[r].found.id) \ {r}
      [] request[r].st = "delete" -> Holders(request[r].found.id)
      [] OTHER                    -> {}

\* PostgreSQL sees only transactions that wait in the database: one that waits
\* for its removal waits in the server.
WaitsInDatabase(r) == IF request[r].st = "update" THEN Locked(r) ELSE {}
OnCycle(r) ==
    LET waits == [p \in Requests \X Requests |-> p[2] \in WaitsInDatabase(p[1])]
    IN  TransitiveClosure(waits, Requests)[r, r]

\* The rows of the activity log refer to the group, to the user who asks and to
\* the user concerned, so those stay as long as the transaction is open.
CanLog(r) == live /\ {request[r].by, Target(r)} \subseteq accounts
GroupFree == \A r \in Requests : request[r].logged = {} /\ request[r].st # "delete"
UserFree(u) ==
    \A r \in Requests :
       /\ u \notin request[r].logged
       /\ request[r].st = "delete" => u \notin {request[r].by, Target(r)}

-----------------------------------------------------------------------------
(* A request.                                                              *)

Becomes(r, record) == request' = [request EXCEPT ![r] = record]
Ends(r) == Becomes(r, Idle)

Advanced(r) ==
    [request[r] EXCEPT !.todo = Tail(@), !.found = NoRow,
                       !.st = IF Len(request[r].todo) = 1 THEN "commit" ELSE "next"]

\* The request throws: its transaction is rolled back, removals stay.
Refused(r) ==
    /\ Ends(r)
    /\ UNCHANGED <<live, accounts, members, nextId, counts, overlapped, mixed>>

Changes(list, i) == list[i][2] # "none"
ChangesThenRemoves(list) == \E i, j \in DOMAIN list : i < j /\ Changes(list, i) /\ ~Changes(list, j)

\* hasGroupPermission(MANAGE) looks at one row of the caller; findGroup.
Start(r) ==
    /\ ~Open(r) /\ live /\ counts.requests < MaxRequests
    /\ \E row \in members, list \in Lists :
          /\ row.manager
          /\ Becomes(r, [Idle EXCEPT !.st = "next", !.by = row.user, !.todo = list])
          /\ mixed' = (mixed \/ ChangesThenRemoves(list))
    /\ overlapped' = (overlapped \/ \E q \in Requests : Open(q))
    /\ counts' = [counts EXCEPT !.requests = @ + 1]
    /\ UNCHANGED <<live, accounts, members, nextId>>

\* The activity log of a removal, in its own transaction.
Delete(r, record) ==
    IF CanLog(r) THEN Becomes(r, [record EXCEPT !.st = "delete"]) ELSE Ends(r)

\* removeUserFromGroup: findOneOrFail.
ExamineRemoval(r) ==
    /\ request[r].st = "next" /\ Removing(r)
    /\ \/ /\ RowsOf(members, Target(r)) = {} /\ Ends(r)
       \/ \E row \in RowsOf(members, Target(r)) :
             LET found == [request[r] EXCEPT !.found = row]
             IN  IF row.manager THEN Becomes(r, [found EXCEPT !.st = "ensure"]) ELSE Delete(r, found)
    /\ UNCHANGED <<live, accounts, members, nextId, counts, overlapped, mixed>>

\* The activity log, and whether the change would demote a manager.
ExamineChange(r) ==
    LET logged == [request[r] EXCEPT !.logged = @ \cup {request[r].by, Target(r)}]
        rows == RowsOf(View(r), Target(r))
    IN  /\ request[r].st = "next" /\ ~Removing(r) /\ CanLog(r)
        /\ \/ /\ Level(r) = "manager" \/ rows = {}
              /\ Becomes(r, [logged EXCEPT !.st = "find"])
           \/ \E row \in rows :
                 /\ Level(r) # "manager"
                 /\ Becomes(r, [logged EXCEPT !.st = IF row.manager THEN "ensure" ELSE "find"])
        /\ UNCHANGED <<live, accounts, members, nextId, counts, overlapped, mixed>>

\* The group or an account is gone.
ChangeRefused(r) ==
    /\ request[r].st = "next" /\ ~Removing(r) /\ ~CanLog(r)
    /\ Refused(r)

\* The check reads on the connection of the context, not of the transaction.
OtherManagersMutant(r) == {row \in members : row.manager /\ row.user # Target(r)}

OtherManagers(r) == {row \in Sees(r) : row.manager /\ row.user # Target(r)}

\* ensureOtherManagers.
Ensure(r) ==
    /\ request[r].st = "ensure" /\ OtherManagers(r) # {}
    /\ IF Removing(r) THEN Delete(r, request[r]) ELSE Becomes(r, [request[r] EXCEPT !.st = "find"])
    /\ UNCHANGED <<live, accounts, members, nextId, counts, overlapped, mixed>>

LastManager(r) ==
    /\ request[r].st = "ensure" /\ OtherManagers(r) = {}
    /\ Refused(r)

Insert(r, row) ==
    /\ Becomes(r, [Advanced(r) EXCEPT !.buf = @ \cup {row}])
    /\ nextId' = nextId + 1

\* The repository looks for the row on the connection of the context.
FindMutant(r) ==
    LET rows == RowsOf(members, Target(r))
    IN  /\ request[r].st = "find"
        /\ \/ rows = {} /\ Insert(r, Row(nextId, Target(r), Level(r), request[r].by))
           \/ /\ \E row \in rows : Becomes(r, [request[r] EXCEPT !.st = "reload", !.found = row])
              /\ UNCHANGED nextId
        /\ UNCHANGED <<live, accounts, members, counts, overlapped, mixed>>

\* GroupUserRepository.addOrUpdateUserToGroup: findOne; a user without a row gets one.
Find(r) ==
    LET rows == RowsOf(View(r), Target(r))
    IN  /\ request[r].st = "find"
        /\ \/ rows = {} /\ Insert(r, Row(nextId, Target(r), Level(r), request[r].by))
           \/ /\ \E row \in rows : Becomes(r, [request[r] EXCEPT !.st = "reload", !.found = row])
              /\ UNCHANGED nextId
        /\ UNCHANGED <<live, accounts, members, counts, overlapped, mixed>>

Wanted(r) == [request[r].found EXCEPT !.manager = Level(r) = "manager"]

\* save(entity) reloads the row by its id, and writes it only when it differs;
Reload(r) ==
    LET row == Wanted(r)
    IN  /\ request[r].st = "reload" /\ row.id \in Ids(View(r))
        /\ Becomes(r, IF row \in View(r) THEN Advanced(r) ELSE [request[r] EXCEPT !.st = "update"])
        /\ UNCHANGED <<live, accounts, members, nextId, counts, overlapped, mixed>>

\* a row that has gone since it was found is inserted, if who added it is there.
Reinsert(r) ==
    LET row == Wanted(r)
    IN  /\ request[r].st = "reload" /\ row.id \notin Ids(View(r))
        /\ IF row.creator \in accounts
           THEN Becomes(r, [Advanced(r) EXCEPT !.buf = @ \cup {row}, !.logged = @ \cup {row.creator}])
           ELSE Ends(r)
        /\ UNCHANGED <<live, accounts, members, nextId, counts, overlapped, mixed>>

\* UPDATE, which does nothing when the row has been deleted by now.
Update(r) ==
    LET row == Wanted(r)
        others == {w \in request[r].buf : w.id # row.id}
    IN  /\ request[r].st = "update" /\ Locked(r) = {}
        /\ Becomes(r, IF row.id \in Ids(View(r)) THEN [Advanced(r) EXCEPT !.buf = others \cup {row}]
                      ELSE Advanced(r))
        /\ UNCHANGED <<live, accounts, members, nextId, counts, overlapped, mixed>>

\* DELETE and COMMIT of the removal's own transaction.
RemoveRow(r) ==
    /\ request[r].st = "delete" /\ Locked(r) = {}
    /\ members' = {row \in members : row.id # request[r].found.id}
    /\ Becomes(r, Advanced(r))
    /\ UNCHANGED <<live, accounts, nextId, counts, overlapped, mixed>>

Commit(r) ==
    /\ request[r].st = "commit"
    /\ members' = View(r)
    /\ Ends(r)
    /\ UNCHANGED <<live, accounts, nextId, counts, overlapped, mixed>>

\* Waiting transactions are not looked for cycles.
DeadlockAbortMutant(r) == FALSE /\ OnCycle(r) /\ Refused(r)

DeadlockAbort(r) == OnCycle(r) /\ Refused(r)

\* A query fails or a connection is lost.
Fail(r) ==
    /\ Open(r) /\ counts.failures < MaxFailures
    /\ Ends(r)
    /\ counts' = [counts EXCEPT !.failures = @ + 1]
    /\ UNCHANGED <<live, accounts, members, nextId, overlapped, mixed>>

-----------------------------------------------------------------------------
(* The group or an account goes.                                           *)

\* deleteGroup by a manager, adminDeleteGroup by an administrator.
DeleteGroup ==
    /\ live /\ GroupFree
    /\ live' = FALSE /\ members' = {}
    /\ UNCHANGED <<accounts, request, nextId, counts, overlapped, mixed>>

\* deleteUser: the group goes with its creator, and rows go with their user and
\* with the user who added them.
DeleteUser(u) ==
    /\ u \in accounts /\ UserFree(u)
    /\ Cardinality(Users \ accounts) < MaxDeletedUsers
    /\ u = Creator /\ live => GroupFree
    /\ \A row \in members : u \in {row.user, row.creator} => Holders(row.id) = {}
    /\ accounts' = accounts \ {u}
    /\ live' = (live /\ u # Creator)
    /\ members' = IF u = Creator THEN {} ELSE {row \in members : u \notin {row.user, row.creator}}
    /\ UNCHANGED <<request, nextId, counts, overlapped, mixed>>

Step(r) ==
    \/ ExamineRemoval(r) \/ ExamineChange(r) \/ ChangeRefused(r)
    \/ Ensure(r) \/ LastManager(r)
    \/ Find(r) \/ Reload(r) \/ Reinsert(r) \/ Update(r) \/ RemoveRow(r)
    \/ Commit(r) \/ DeadlockAbort(r)

Next ==
    \/ \E r \in Requests : Start(r) \/ Step(r) \/ Fail(r)
    \/ DeleteGroup
    \/ \E u \in Users : DeleteUser(u)

Spec == Init /\ [][Next]_vars

\* The server and the database go on with what has been started.
FairSpec == Spec /\ \A r \in Requests : WF_vars(Step(r))

-----------------------------------------------------------------------------
(* Properties.                                                             *)

Managed == \E row \in members : row.manager

\* "Can not remove the last manager from the group" (ensureOtherManagers): as
\* long as the group and the accounts of all users exist, somebody manages it.
EveryGroupManaged == live /\ accounts = Users => Managed

\* What is true of it: a group keeps a manager over any sequence of requests
\* that do not overlap and do not remove a member after having changed one,
\* however many members one list demotes, and wherever it fails.
ManagedWhenAlone == ~overlapped /\ ~mixed => EveryGroupManaged

\* A member has one row, as long as requests do not overlap: then a member that
\* has been removed is one no more, and any row says what the member may do.
OneRowPerMember ==
    ~overlapped => \A row1, row2 \in members : row1.user = row2.user => row1 = row2

\* Every request ends although requests wait for each other's rows, unless one
\* removes a member after it has changed one: such a removal may wait for its
\* own request, which no one finds out.
EveryRequestEnds == \A r \in Requests : Open(r) ~> (~Open(r) \/ mixed)
=============================================================================
