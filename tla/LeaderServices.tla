--------------------------- MODULE LeaderServices ---------------------------
(***************************************************************************)
(* The background services of a registry that runs on several servers:     *)
(* the servers elect a leader with a lock in the database                  *)
(* (LeaderElectionService, DistributedLockingService), and the leader's    *)
(* cron jobs mail what has happened to the users who follow it             *)
(* (notification-service.ts).                                              *)
(*                                                                         *)
(* A cron job runs again and again, whether its last run is over or not.   *)
(* A run reads the time up to which notifications have been sent, mails    *)
(* the events since then, user after user, and stores its own time.        *)
(*                                                                         *)
(* An event is written in a transaction: its created_at is the time the    *)
(* transaction began, and queries see it when the transaction commits.     *)
(* Only the order of times matters: the n-th event has created_at = n, and *)
(* "now" is the number of events so far: the clocks of the servers and of  *)
(* the database agree.  All events are recent enough for the run that      *)
(* finds no stored time to mail them.  One frequency is modelled; every    *)
(* recipient follows everything.                                           *)
(*                                                                         *)
(* The specification is ServicesSpec: FollowsProofs extends this module    *)
(* and Sharing.                                                            *)
(***************************************************************************)
EXTENDS Naturals, FiniteSets

CONSTANTS
    Servers,
    Recipients,     \* who is notified
    Runs,           \* runs of the cron job that may be going on at once
    MaxEvents,      \* entries of the activity log
    MaxFaults,      \* mails lost, queries failed, servers stopped and lock sessions
                    \* broken, together
    None            \* nobody, nothing stored

ASSUME LeaderAssumption ==
    /\ None \notin Servers /\ None \notin Nat
    /\ MaxEvents \in Nat /\ MaxFaults \in Nat

VARIABLES
    role,       \* "trying" to become the leader, "leader", or "down"
    holder,     \* who holds the lock datapm-leader
    events,     \* events so far; their created_at are 1..events
    open,       \* events whose transaction has not committed
    passedBy,   \* events that no run found when their time came: they were open when
                \* it looked, or it could not look
    stored,     \* PlatformStateEntity: time of the last notifications
    phase,      \* where each run is
    server,     \* the server of each run
    from,       \* lastNotificationDate of each run
    to,         \* its "now"
    batch,      \* the events it mails
    waiting,    \* the users it has still to mail
    told,       \* users and events: who has been told of what
    again,      \* what an undisturbed run has told a second time
    given,      \* users and events whose own mail, or its making, has failed
    leftOut,    \* users and events of a run that ended with the failure of another's
    faults,     \* how many there have been
    lockLost,   \* one of them was a lost lock
    disturbed   \* runs have overlapped, or one has been cut off

electionVars == <<role, holder>>
runVars == <<phase, server, from, to, batch, waiting>>
logVars == <<events, open, passedBy>>
mailVars == <<told, again, given, leftOut>>
faultVars == <<faults, lockLost>>
servicesVars == <<electionVars, logVars, stored, runVars, mailVars, faultVars, disturbed>>

Times == 0..MaxEvents
Events == 1..MaxEvents
Active == {"starting", "querying", "mailing", "failed"}

ServicesTypeOK ==
    /\ role \in [Servers -> {"trying", "leader", "down"}]
    /\ holder \in Servers \cup {None}
    /\ events \in Times /\ open \subseteq 1..events /\ passedBy \subseteq 1..events
    /\ stored \in Times \cup {None}
    /\ phase \in [Runs -> {"none"} \cup Active]
    /\ server \in [Runs -> Servers \cup {None}]
    /\ from \in [Runs -> Times] /\ to \in [Runs -> Times]
    /\ batch \in [Runs -> SUBSET Events]
    /\ waiting \in [Runs -> SUBSET Recipients]
    /\ told \subseteq Recipients \X Events /\ again \subseteq told
    /\ given \subseteq Recipients \X Events /\ leftOut \subseteq Recipients \X Events
    /\ faults \in 0..MaxFaults /\ lockLost \in BOOLEAN
    /\ disturbed \in BOOLEAN
    /\ stored # None => stored <= events
    /\ \A r \in Runs : to[r] <= events /\ (phase[r] = "none" <=> server[r] = None)

ServicesInit ==
    /\ role = [s \in Servers |-> "trying"]
    /\ holder = None
    /\ events = 0 /\ open = {} /\ passedBy = {}
    /\ stored = None
    /\ phase = [r \in Runs |-> "none"]
    /\ server = [r \in Runs |-> None]
    /\ from = [r \in Runs |-> 0] /\ to = [r \in Runs |-> 0]
    /\ batch = [r \in Runs |-> {}]
    /\ waiting = [r \in Runs |-> {}]
    /\ told = {} /\ again = {} /\ given = {} /\ leftOut = {}
    /\ faults = 0 /\ lockLost = FALSE
    /\ disturbed = FALSE

\* The runs in R are over.
RunsEnd(R) ==
    /\ phase' = [r \in Runs |-> IF r \in R THEN "none" ELSE phase[r]]
    /\ server' = [r \in Runs |-> IF r \in R THEN None ELSE server[r]]
    /\ from' = [r \in Runs |-> IF r \in R THEN 0 ELSE from[r]]
    /\ to' = [r \in Runs |-> IF r \in R THEN 0 ELSE to[r]]
    /\ batch' = [r \in Runs |-> IF r \in R THEN {} ELSE batch[r]]
    /\ waiting' = [r \in Runs |-> IF r \in R THEN {} ELSE waiting[r]]

Fault == faults < MaxFaults /\ faults' = faults + 1

RunsOf(s) == {r \in Runs : server[r] = s}

-----------------------------------------------------------------------------
(* The election.  (A definition whose name ends in Mutant is a mistake the *)
(* code does not make; the properties tell it from the code.)              *)

\* A server that finds the lock taken becomes the leader all the same.
BecomeLeaderMutant(s) ==
    /\ role[s] = "trying"
    /\ holder' = IF holder = None THEN s ELSE holder
    /\ role' = [role EXCEPT ![s] = "leader"]
    /\ UNCHANGED <<logVars, stored, runVars, mailVars, faultVars, disturbed>>

\* start(): a server tries every second until it gets the lock, then starts
\* the services and tries no more.
BecomeLeader(s) ==
    /\ role[s] = "trying"
    /\ holder = None
    /\ holder' = s
    /\ role' = [role EXCEPT ![s] = "leader"]
    /\ UNCHANGED <<logVars, stored, runVars, mailVars, faultVars, disturbed>>

\* A server stops, on purpose or not: its runs end where they are, and the
\* lock goes with its database session (stop() awaits, which a process that
\* exits does not).  A run whose stored time cannot be read or written ends
\* its server too: it is not awaited (instantNotificationJob).
Crash(s) ==
    /\ role[s] # "down"
    /\ Fault /\ UNCHANGED lockLost
    /\ role' = [role EXCEPT ![s] = "down"]
    /\ holder' = IF holder = s THEN None ELSE holder
    /\ disturbed' = (disturbed \/ RunsOf(s) # {})
    /\ RunsEnd(RunsOf(s))
    /\ UNCHANGED <<logVars, stored, mailVars>>

\* The session that holds the lock breaks; the leader is not told.
LoseLock ==
    /\ holder # None
    /\ Fault /\ lockLost' = TRUE
    /\ holder' = None
    /\ UNCHANGED <<role, logVars, stored, runVars, mailVars, disturbed>>

-----------------------------------------------------------------------------
(* Notifications.                                                          *)

\* A transaction that will log an event begins: createOrUpdateVersion writes
\* the package file in it, which may take any time.
BeginEvent ==
    /\ events < MaxEvents
    /\ events' = events + 1
    /\ open' = open \cup {events + 1}
    /\ UNCHANGED <<electionVars, passedBy, stored, runVars, mailVars, faultVars, disturbed>>

CommitEvent(e) ==
    /\ e \in open
    /\ open' = open \ {e}
    /\ UNCHANGED <<electionVars, events, passedBy, stored, runVars, mailVars, faultVars,
                   disturbed>>

\* The cron job fires on a leader.
Fire(s) ==
    /\ role[s] = "leader"
    /\ \E r \in Runs : phase[r] = "none"
    /\ LET new == CHOOSE r \in Runs : phase[r] = "none" IN
          /\ phase' = [phase EXCEPT ![new] = "starting"]
          /\ server' = [server EXCEPT ![new] = s]
          /\ from' = [from EXCEPT ![new] = IF stored = None THEN 0 ELSE stored]
    /\ disturbed' = (disturbed \/ \E r \in Runs : phase[r] # "none")
    /\ UNCHANGED <<electionVars, logVars, stored, to, batch, waiting, mailVars, faultVars>>

\* The window ends where it began.
TakeTimeMutant(r) ==
    /\ phase[r] = "starting"
    /\ phase' = [phase EXCEPT ![r] = "querying"]
    /\ to' = [to EXCEPT ![r] = from[r]]
    /\ UNCHANGED <<electionVars, logVars, stored, server, from, batch, waiting, mailVars,
                   faultVars, disturbed>>

\* findStateByKey has answered: now = new Date().
TakeTime(r) ==
    /\ phase[r] = "starting"
    /\ phase' = [phase EXCEPT ![r] = "querying"]
    /\ to' = [to EXCEPT ![r] = events]
    /\ UNCHANGED <<electionVars, logVars, stored, server, from, batch, waiting, mailVars,
                   faultVars, disturbed>>

\* The events a run finds are those in its window that have been committed.
Found(r, first) ==
    /\ batch' = [batch EXCEPT ![r] = (first..to[r]) \ open]
    /\ passedBy' = passedBy \cup ((first..to[r]) \cap open)
    /\ waiting' = [waiting EXCEPT ![r] = IF batch'[r] = {} THEN {} ELSE Recipients]
    /\ phase' = [phase EXCEPT ![r] = "mailing"]
    /\ UNCHANGED <<electionVars, events, open, stored, server, from, to, mailVars, faultVars,
                   disturbed>>

\* created_at >= start in place of created_at > start.
QueryMutant(r) == phase[r] = "querying" /\ Found(r, IF from[r] = 0 THEN 1 ELSE from[r])

\* getPendingNotifications
Query(r) == phase[r] = "querying" /\ Found(r, from[r] + 1)

\* getPendingNotifications fails: the run ends as if it had been.
QueryFails(r) ==
    /\ phase[r] = "querying"
    /\ Fault /\ UNCHANGED lockLost
    /\ passedBy' = passedBy \cup (from[r] + 1)..to[r]
    /\ phase' = [phase EXCEPT ![r] = "failed"]
    /\ UNCHANGED <<electionVars, events, open, stored, server, from, to, batch, waiting,
                   mailVars, disturbed>>

\* It is the turn of a user.
TurnOf(r, u) ==
    /\ phase[r] = "mailing" /\ u \in waiting[r]
    /\ waiting' = [waiting EXCEPT ![r] = @ \ {u}]

\* sendFollowNotificationEmail, for one user after the other.
Mail(r, u) ==
    /\ TurnOf(r, u)
    /\ told' = told \cup ({u} \X batch[r])
    /\ again' = again \cup IF disturbed THEN {} ELSE told \cap ({u} \X batch[r])
    /\ UNCHANGED <<electionVars, logVars, stored, phase, server, from, to, batch, given,
                   leftOut, faultVars, disturbed>>

\* The mail server refuses a mail: sendEmail logs it, and the next user has
\* his turn.
MailLost(r, u) ==
    /\ TurnOf(r, u)
    /\ Fault /\ UNCHANGED lockLost
    /\ given' = given \cup ({u} \X batch[r])
    /\ UNCHANGED <<electionVars, logVars, stored, phase, server, from, to, batch, told,
                   again, leftOut, disturbed>>

\* A query for a mail, or its template, fails (a version has been deleted, a
\* user is not found): the users after it have no turn.
UserFails(r, u) ==
    /\ TurnOf(r, u)
    /\ Fault /\ UNCHANGED lockLost
    /\ given' = given \cup ({u} \X batch[r])
    /\ leftOut' = leftOut \cup (waiting'[r] \X batch[r])
    /\ phase' = [phase EXCEPT ![r] = "failed"]
    /\ UNCHANGED <<electionVars, logVars, stored, server, from, to, batch, told, again,
                   disturbed>>

\* The time stored is that of the save, not that of the query.
SaveMutant(r) ==
    /\ \/ phase[r] = "failed"
       \/ phase[r] = "mailing" /\ waiting[r] = {}
    /\ stored' = events
    /\ RunsEnd({r})
    /\ UNCHANGED <<electionVars, logVars, mailVars, faultVars, disturbed>>

\* finally: the run's time is stored, whatever has been stored since it began.
Save(r) ==
    /\ \/ phase[r] = "failed"
       \/ phase[r] = "mailing" /\ waiting[r] = {}
    /\ stored' = to[r]
    /\ RunsEnd({r})
    /\ UNCHANGED <<electionVars, logVars, mailVars, faultVars, disturbed>>

Progress(r) ==
    \/ TakeTime(r) \/ Query(r) \/ Save(r)
    \/ \E u \in Recipients : Mail(r, u)

ServicesNext ==
    \/ \E s \in Servers : BecomeLeader(s) \/ Crash(s) \/ Fire(s)
    \/ \E r \in Runs :
          \/ Progress(r) \/ QueryFails(r)
          \/ \E u \in Recipients : MailLost(r, u) \/ UserFails(r, u)
    \/ LoseLock \/ BeginEvent \/ \E e \in open : CommitEvent(e)

ServicesSpec == ServicesInit /\ [][ServicesNext]_servicesVars

\* Servers keep trying, cron keeps firing on a leader, and runs go on.
FairServicesSpec ==
    /\ ServicesSpec
    /\ \A s \in Servers : WF_servicesVars(BecomeLeader(s))
    /\ WF_servicesVars(\E s \in Servers : Fire(s))
    /\ \A r \in Runs : WF_servicesVars(Progress(r))

-----------------------------------------------------------------------------
(* Properties.                                                             *)

\* The services run on one server at a time, although servers race for the
\* lock and crash, as long as no leader loses its database session.
OneLeader ==
    ~lockLost =>
       \A s, t \in Servers : role[s] = "leader" /\ role[t] = "leader" => s = t

\* No event is skipped: once the stored time has passed an event, every user
\* has been told of it, except where the code does lose it: his mail has
\* failed, a run ended at the failure of another user before his turn, or no
\* run found the event when its time came.  Neither overlapping runs, that may
\* set the stored time back, nor crashes, nor two leaders lose another.
NoEventSkipped ==
    \A e \in (1..events) \ passedBy : stored # None /\ e <= stored =>
       \A u \in Recipients : <<u, e>> \in told \cup given \cup leftOut

\* Nobody is told anything twice, as long as runs neither overlap nor are cut
\* off: the window of a run begins exactly where that of the last one ended,
\* although mails and queries may have failed in between.
ToldOnce ==
    again = {}

AllDown == \A s \in Servers : role[s] = "down"

\* As long as a server is up, everybody is told of every event in the end,
\* whatever leaders crash on the way, except for the losses that
\* NoEventSkipped names.  A lost mail costs nobody else his.
EveryoneTold ==
    \A u \in Recipients, e \in Events :
       e \in (1..events) \ open ~>
          <<u, e>> \in told \cup given \cup leftOut \/ e \in passedBy \/ AllDown

\* What following promises, "to be notified of changes"
\* (user-following.component.html): the failure of one user's mail is not the
\* loss of another's.  The code ends the run at the first query that fails, and
\* stores its time.
OthersAreTold ==
    \A u \in Recipients, e \in Events :
       e \in (1..events) \ open ~> <<u, e>> \in told \cup given \/ e \in passedBy \/ AllDown

\* The same promise, where nothing fails: every event that has been committed
\* is mailed.  The code looks for times since its last run, and an event whose
\* transaction began before that run and committed after it is never found.
CommittedIsTold ==
    \A u \in Recipients, e \in Events :
       e \in (1..events) \ open ~> <<u, e>> \in told \cup given \cup leftOut \/ AllDown
=============================================================================
