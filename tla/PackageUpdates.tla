---------------------------- MODULE PackageUpdates ----------------------------
(***************************************************************************)
(* The package update service of the registry:                             *)
(* backend/src/service/package-update-service.ts.                          *)
(*                                                                         *)
(* Every minute a tick reads the Limit packages whose last update job is   *)
(* the oldest, and more than a day old.  For one after the other it saves  *)
(* the package entity with a new date, and runs an update job.  Nothing    *)
(* holds the next tick back while a tick is at work, and what a tick saves *)
(* is the entity it has read at its start, every column of it, however     *)
(* long the jobs before have taken; if the row is gone, save() inserts it. *)
(*                                                                         *)
(* The dates are abstracted to the order of the rows by date and to how    *)
(* many of the first rows are more than a day old.                         *)
(*                                                                         *)
(* The specification is UpdatesSpec: PackagesProofs extends this module    *)
(* and PackageVersions.                                                    *)
(***************************************************************************)
EXTENDS Naturals, FiniteSets, Sequences, SequencesExt

CONSTANTS
    Packages,
    Ticks,          \* ticks that may be at work at once, those that hang apart
    Limit,          \* packages a tick takes
    Touched,        \* the packages users change
    MaxChanges,     \* edits and deletions by users
    MaxCrashes,
    Deleted

ASSUME ConstantsAssumption ==
    /\ IsFiniteSet(Packages) /\ Touched \subseteq Packages
    /\ Limit \in Nat \ {0} /\ MaxChanges \in Nat /\ MaxCrashes \in Nat
    /\ Deleted \notin 0..MaxChanges

VARIABLES
    row,        \* what is stored of each package: the number of an edit, or Deleted
    wanted,     \* what the users last made of each package
    order,      \* the rows by last_update_job_date
    due,        \* how many of them are more than a day old
    tick,       \* the ticks
    waiting,    \* packages that have become due and have not had a job since
    raced,      \* packages a user has changed while a tick was about to save them
    counts      \* changes and crashes so far

updatesVars == <<row, wanted, order, due, tick, waiting, raced, counts>>

Contents == 0..MaxChanges
Entities == [package : Packages, content : Contents]

Off == [list |-> <<>>, at |-> "off"]

TickType == [list : Seq(Entities), at : {"off", "listed", "saved", "run"}]

\* Every package that is stored has its place among the dates.
OrderOK ==
    /\ order \in Seq(Packages) /\ IsInjective(order)
    /\ ToSet(order) = {p \in Packages : row[p] # Deleted}
    /\ due \in 0..Len(order)

UpdatesTypeOK ==
    /\ row \in [Packages -> Contents \cup {Deleted}]
    /\ wanted \in [Packages -> Contents \cup {Deleted}]
    /\ OrderOK
    /\ tick \in [Ticks -> TickType]
    /\ \A t \in Ticks : tick[t].at = "off" <=> tick[t].list = <<>>
    /\ waiting \subseteq Packages /\ raced \subseteq Packages
    /\ counts \in [changes : 0..MaxChanges, crashes : 0..MaxCrashes]

\* The packages exist, in any one order, and the day of none of them is over.
UpdatesInit ==
    /\ row = [p \in Packages |-> 0] /\ wanted = row
    /\ order = SetToSeq(Packages) /\ due = 0
    /\ tick = [t \in Ticks |-> Off]
    /\ waiting = {} /\ raced = {}
    /\ counts = [changes |-> 0, crashes |-> 0]

-----------------------------------------------------------------------------
(* The rows by date.                                                       *)

Place(p) == CHOOSE i \in 1..Len(order) : order[i] = p

\* The rows, and how many of them are due, once the row of p has left its place.
Without(p) == IF row[p] = Deleted THEN order ELSE RemoveAt(order, Place(p))
DueWithout(p) == IF row[p] # Deleted /\ Place(p) <= due THEN due - 1 ELSE due

\* A day has passed since the date of the next row.
BecomesDue ==
    /\ due < Len(order)
    /\ due' = due + 1
    /\ waiting' = waiting \cup {order[due + 1]}
    /\ UNCHANGED <<row, wanted, order, tick, raced, counts>>

-----------------------------------------------------------------------------
(* The ticks.                                                              *)

Current(t) == Head(tick[t].list).package

\* The entities a tick has still to save.
Unsaved(t) ==
    IF tick[t].at = "listed" THEN ToSet(tick[t].list) ELSE ToSet(Tail(tick[t].list))

AboutToSave(p) ==
    \E t \in Ticks : tick[t].at # "off" /\ \E e \in Unsaved(t) : e.package = p

\* A mutation, for the runs: the newest of those that are due first.
OldestUpdatedMutant ==
    LET entity(p) == [package |-> p, content |-> row[p]]
        n == IF due < Limit THEN due ELSE Limit
    IN  [i \in 1..n |-> entity(order[due + 1 - i])]

\* getPackageOldestUpdated: the oldest that are due, as they are now.
OldestUpdated ==
    LET entity(p) == [package |-> p, content |-> row[p]]
        n == IF due < Limit THEN due ELSE Limit
    IN  [i \in 1..n |-> entity(order[i])]

\* The cron job fires, whatever other ticks are doing; with nothing due it is over.
List(t) ==
    /\ tick[t].at = "off" /\ due > 0
    /\ tick' = [tick EXCEPT ![t] = [list |-> OldestUpdated, at |-> "listed"]]
    /\ UNCHANGED <<row, wanted, order, due, waiting, raced, counts>>

\* save() writes the columns that differ from the row, or the whole row if there is none.
Save(t) ==
    LET entity == Head(tick[t].list)
        p == entity.package
    IN  /\ tick[t].at = "listed"
        /\ row' = [row EXCEPT ![p] = entity.content]
        /\ order' = Append(Without(p), p)
        /\ due' = DueWithout(p)
        /\ tick' = [tick EXCEPT ![t].at = "saved"]
        /\ UNCHANGED <<wanted, waiting, raced, counts>>

StartJob(t) ==
    /\ tick[t].at = "saved"
    /\ tick' = [tick EXCEPT ![t].at = "run"]
    /\ waiting' = waiting \ {Current(t)}
    /\ UNCHANGED <<row, wanted, order, due, raced, counts>>

\* A mutation, for the runs: the entity is saved once more when its job is over.
EndJobMutant(t) ==
    LET rest == Tail(tick[t].list)
    IN  /\ tick[t].at = "run"
        /\ tick' = [tick EXCEPT ![t] =
                       IF rest = <<>> THEN Off ELSE [list |-> rest, at |-> "listed"]]
        /\ row' = [row EXCEPT ![Current(t)] = Head(tick[t].list).content]
        /\ order' = Append(Without(Current(t)), Current(t))
        /\ due' = DueWithout(Current(t))
        /\ UNCHANGED <<wanted, waiting, raced, counts>>

\* A job that fails counts like one that succeeds: its error is caught.
EndJob(t) ==
    LET rest == Tail(tick[t].list)
    IN  /\ tick[t].at = "run"
        /\ tick' = [tick EXCEPT ![t] =
                       IF rest = <<>> THEN Off ELSE [list |-> rest, at |-> "listed"]]
        /\ UNCHANGED <<row, wanted, order, due, waiting, raced, counts>>

\* The job waits for ever for a source, since no time limit ends it: what is left of the
\* list is never taken up, and the tick is of no further interest.
HangJob(t) ==
    /\ tick[t].at = "run"
    /\ tick' = [tick EXCEPT ![t] = Off]
    /\ UNCHANGED <<row, wanted, order, due, waiting, raced, counts>>

\* The server stops and starts again; a query of a tick that fails ends it too, since
\* nothing handles the promise of a tick.
Crash ==
    /\ counts.crashes < MaxCrashes
    /\ tick' = [t \in Ticks |-> Off]
    /\ counts' = [counts EXCEPT !.crashes = @ + 1]
    /\ UNCHANGED <<row, wanted, order, due, waiting, raced>>

-----------------------------------------------------------------------------
(* Users.                                                                  *)

Change(p, content) ==
    /\ row[p] # Deleted /\ counts.changes < MaxChanges
    /\ row' = [row EXCEPT ![p] = content]
    /\ wanted' = [wanted EXCEPT ![p] = content]
    /\ raced' = IF AboutToSave(p) THEN raced \cup {p} ELSE raced
    /\ counts' = [counts EXCEPT !.changes = @ + 1]
    /\ UNCHANGED tick

\* updatePackage: another description, another slug, or no longer public.
Edit(p) ==
    /\ Change(p, counts.changes + 1)
    /\ UNCHANGED <<order, due, waiting>>

\* deletePackage
Delete(p) ==
    /\ Change(p, Deleted)
    /\ order' = Without(p) /\ due' = DueWithout(p)
    /\ waiting' = waiting \ {p}

-----------------------------------------------------------------------------

Work(t) == Save(t) \/ StartJob(t)

UpdatesNext ==
    \/ BecomesDue \/ Crash
    \/ \E t \in Ticks : List(t) \/ Work(t) \/ EndJob(t) \/ HangJob(t)
    \/ \E p \in Touched : Edit(p) \/ Delete(p)

UpdatesSpec == UpdatesInit /\ [][UpdatesNext]_updatesVars

\* Days pass, the cron job keeps firing and what a tick has begun goes on.  That jobs
\* end is not assumed: a job that is no longer fair is one that hangs.
FairUpdatesSpec ==
    /\ UpdatesSpec
    /\ WF_updatesVars(BecomesDue)
    /\ WF_updatesVars(\E t \in Ticks : List(t))
    /\ \A t \in Ticks : WF_updatesVars(Work(t)) /\ WF_updatesVars(EndJob(t) \/ HangJob(t))

-----------------------------------------------------------------------------
(* Properties.                                                             *)

\* A package that has become due gets an update job in the end, whatever the jobs of the
\* other packages do, fail or hang, and though a crash takes a job whose date is saved
\* already (package-update-service.ts:42-70): nothing keeps a package from its turn.
EveryPackageUpdated ==
    \A p \in Packages : p \in waiting ~> p \notin waiting

\* What users make of a package stands, unless the change comes between the read and the
\* save of a tick: the jobs themselves, however long, put nothing back (:45-50).
ChangesStand ==
    \A p \in Packages : row[p] # wanted[p] => p \in raced

=============================================================================
