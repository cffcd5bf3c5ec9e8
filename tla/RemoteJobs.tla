----------------------------- MODULE RemoteJobs ------------------------------
(***************************************************************************)
(* Jobs a user runs on the server over a socket: PackageUpdateHandler and  *)
(* PackageHandler of backend/src/socket with WebsocketJobContext, and the  *)
(* command modal of the front end.                                         *)
(*                                                                         *)
(* A command is one modal with a socket of its own.  It asks for the job,  *)
(* the server answers with the name of a channel, the modal listens to the *)
(* channel and asks for the job to begin.  The job sends prompts and       *)
(* waits for their acknowledgement; its result ends the command.  An       *)
(* update holds a lock on the package from before the answer to the end of *)
(* the job.  All commands here are about one package: other packages have  *)
(* locks of their own.                                                     *)
(***************************************************************************)
EXTENDS Naturals, Sequences

CONSTANTS
    Commands,
    MaxAsked,   \* questions a job asks
    MaxFaults,  \* crashes of the server and broken connections
    None

ASSUME NoneAssumption == None \notin Commands
ASSUME BoundsAssumption == MaxAsked \in Nat /\ MaxFaults \in Nat

VARIABLES
    updates,    \* the commands that update the package; the others create one
    modal,      \* what the modal of a command shows
    socket,     \* its connection; when "closing" the server does not yet know
    toServer, toClient,     \* messages on their way
    handler,    \* how far the handler on the server has got
    job,        \* the job of the handler
    asked,      \* questions it has asked
    holder,     \* the command whose handler has been granted the lock
    unlocks,    \* releases of the lock that a handler has sent and not waited for
    faults,
    stolen,     \* a handler has released the lock of another one
    lost        \* commands whose connection broke before the server answered

vars == <<updates, modal, socket, toServer, toClient, handler, job, asked, holder, unlocks, faults, stolen, lost>>

TypeOK ==
    /\ updates \subseteq Commands
    /\ modal \in [Commands -> {"idle", "starting", "joining", "connected", "awaiting input",
                               "success", "error", "gone"}]
    /\ socket \in [Commands -> {"none", "open", "closing", "closed"}]
    /\ toServer \in [Commands -> Seq({"start", "start job", "answer"})]
    /\ toClient \in [Commands -> Seq({"started", "refused", "job started", "prompt", "task",
                                      "success", "error"})]
    /\ handler \in [Commands -> {"none", "checking", "locking", "reading", "ready", "deaf",
                                 "refused", "failed", "stopped"}]
    /\ job \in [Commands -> {"none", "running", "waiting", "done"}]
    /\ asked \in [Commands -> 0..MaxAsked]
    /\ holder \in Commands \cup {None}
    /\ unlocks \in [Commands -> Nat]
    /\ faults \in 0..MaxFaults /\ stolen \in BOOLEAN /\ lost \subseteq Commands

Init ==
    /\ updates = {}
    /\ modal = [c \in Commands |-> "idle"] /\ socket = [c \in Commands |-> "none"]
    /\ toServer = [c \in Commands |-> <<>>] /\ toClient = [c \in Commands |-> <<>>]
    /\ handler = [c \in Commands |-> "none"] /\ job = [c \in Commands |-> "none"]
    /\ asked = [c \in Commands |-> 0]
    /\ holder = None /\ unlocks = [c \in Commands |-> 0]
    /\ faults = 0 /\ stolen = FALSE /\ lost = {}

Ended == {"success", "error", "gone"}
Listening == {"joining", "connected", "awaiting input"}

\* What is sent to a socket that is not open is lost.
Send(c, message) ==
    toClient' = IF socket[c] = "open" THEN [toClient EXCEPT ![c] = Append(@, message)] ELSE toClient

-----------------------------------------------------------------------------
(* The modal.                                                              *)

locked == <<holder, unlocks, stolen>>
server == <<handler, job, asked>>

RunCommand(c) ==
    /\ modal[c] = "idle"
    /\ updates' \in {updates, updates \cup {c}}
    /\ modal' = [modal EXCEPT ![c] = "starting"]
    /\ socket' = [socket EXCEPT ![c] = "open"]
    /\ toServer' = [toServer EXCEPT ![c] = <<"start">>]
    /\ UNCHANGED <<toClient, server, locked, faults, lost>>

\* A message of the server, and the answer the modal gives by itself.
Hear(c, message, shows, answer) ==
    /\ socket[c] = "open" /\ toClient[c] # <<>> /\ Head(toClient[c]) = message
    /\ toClient' = [toClient EXCEPT ![c] = Tail(@)]
    /\ modal' = [modal EXCEPT ![c] = shows]
    /\ toServer' = IF answer = None THEN toServer ELSE [toServer EXCEPT ![c] = Append(@, answer)]
    /\ UNCHANGED <<updates, server, locked, faults, lost>>

\* A result ends the command, and the modal disconnects.
Receive(c) ==
    \/ Hear(c, "started", "joining", "start job") /\ UNCHANGED socket
    \/ Hear(c, "refused", "error", None) /\ UNCHANGED socket
    \/ Hear(c, "job started", "connected", None) /\ UNCHANGED socket
    \/ Hear(c, "prompt", "awaiting input", None) /\ UNCHANGED socket
    \/ Hear(c, "task", modal[c], "answer") /\ UNCHANGED socket
    \/ \E result \in {"success", "error"} :
          Hear(c, result, result, None) /\ socket' = [socket EXCEPT ![c] = "closing"]

SendPromptResponse(c) ==
    /\ modal[c] = "awaiting input" /\ socket[c] = "open"
    /\ modal' = [modal EXCEPT ![c] = "connected"]
    /\ toServer' = [toServer EXCEPT ![c] = Append(@, "answer")]
    /\ UNCHANGED <<updates, socket, toClient, server, locked, faults, lost>>

\* ngOnDestroy
Leave(c) ==
    /\ modal[c] \notin {"idle", "gone"}
    /\ modal' = [modal EXCEPT ![c] = "gone"]
    /\ socket' = [socket EXCEPT ![c] = IF @ = "open" THEN "closing" ELSE @]
    /\ toClient' = [toClient EXCEPT ![c] = <<>>]
    /\ UNCHANGED <<updates, toServer, server, locked, faults, lost>>

-----------------------------------------------------------------------------
(* The handler.                                                            *)

Locks(c) == c \in updates

Take(c, message) ==
    /\ toServer[c] # <<>> /\ Head(toServer[c]) = message
    /\ toServer' = [toServer EXCEPT ![c] = Tail(@)]

client == <<updates, modal, socket, lost, faults>>

Start(c) ==
    /\ Take(c, "start")
    /\ handler' = [handler EXCEPT ![c] = "checking"]
    /\ UNCHANGED <<client, toClient, job, asked, locked>>

Refuse(c, state) ==
    /\ handler' = [handler EXCEPT ![c] = state]
    /\ Send(c, "refused")
    /\ UNCHANGED <<client, toServer, job, asked, locked>>

CheckPermission(c) ==
    /\ handler[c] = "checking"
    /\ \/ /\ handler' = [handler EXCEPT ![c] = IF Locks(c) THEN "locking" ELSE "reading"]
          /\ UNCHANGED <<client, toServer, toClient, job, asked, locked>>
       \/ Refuse(c, "refused")

Granted(c) ==
    /\ holder' = c
    /\ handler' = [handler EXCEPT ![c] = "reading"]
    /\ UNCHANGED <<client, toServer, toClient, job, asked, unlocks, stolen>>

\* A mutation, for the runs: the promise of the lock is taken for the lock, as the upload
\* handler does.
CreateLockMutant(c) == handler[c] = "locking" /\ Granted(c)

CreateLock(c) ==
    /\ handler[c] = "locking"
    /\ IF holder = None THEN Granted(c) ELSE Refuse(c, "refused")

\* The handler listens to its channel and, for an update, to the end of the connection.
\* If the connection has already ended, it never hears of it.
Register(c) ==
    /\ handler[c] = "reading"
    /\ handler' = [handler EXCEPT ![c] = IF socket[c] = "closed" THEN "deaf" ELSE "ready"]
    /\ Send(c, "started")
    /\ UNCHANGED <<client, toServer, job, asked, locked>>

\* No version, no package any more, or a failed query: the lock stays.
StartFails(c) == handler[c] = "reading" /\ Refuse(c, "failed")

StartJob(c) ==
    /\ Take(c, "start job") /\ handler[c] = "ready"
    /\ job' = [job EXCEPT ![c] = "running"]
    /\ Send(c, "job started")
    /\ UNCHANGED <<client, handler, asked, locked>>

Release(c) ==
    unlocks' = IF Locks(c) THEN [unlocks EXCEPT ![c] = @ + 1] ELSE unlocks

\* A prompt, or the end of a task: either waits for its acknowledgement.
Ask(c) ==
    /\ job[c] = "running" /\ asked[c] < MaxAsked
    /\ job' = [job EXCEPT ![c] = "waiting"]
    /\ asked' = [asked EXCEPT ![c] = @ + 1]
    /\ \E question \in {"prompt", "task"} : Send(c, question)
    /\ UNCHANGED <<client, toServer, handler, locked>>

Answered(c) ==
    /\ Take(c, "answer") /\ job[c] = "waiting"
    /\ job' = [job EXCEPT ![c] = "running"]
    /\ UNCHANGED <<client, toClient, handler, asked, locked>>

\* A mutation, for the runs: only a success is reported.
EndJobMutant(c) ==
    /\ job[c] = "running"
    /\ job' = [job EXCEPT ![c] = "done"]
    /\ Send(c, "success") \/ UNCHANGED toClient
    /\ handler' = [handler EXCEPT ![c] = "stopped"]
    /\ Release(c)
    /\ UNCHANGED <<client, toServer, asked, holder, stolen>>

\* The result, good or bad, and stop("server").
EndJob(c) ==
    /\ job[c] = "running"
    /\ job' = [job EXCEPT ![c] = "done"]
    /\ \E result \in {"success", "error"} : Send(c, result)
    /\ handler' = [handler EXCEPT ![c] = "stopped"]
    /\ Release(c)
    /\ UNCHANGED <<client, toServer, asked, holder, stolen>>

\* A mutation, for the runs: the lock is left to the end of the job.
DisconnectedMutant(c) ==
    /\ socket[c] = "closing"
    /\ socket' = [socket EXCEPT ![c] = "closed"]
    /\ toServer' = [toServer EXCEPT ![c] = <<>>]
    /\ UNCHANGED <<updates, modal, toClient, handler, job, asked, unlocks, holder, stolen, faults, lost>>

\* The listener of an update stays on after its stop: every command that has been
\* answered comes to stop("disconnect").  A job that is running goes on.
Disconnected(c) ==
    /\ socket[c] = "closing"
    /\ socket' = [socket EXCEPT ![c] = "closed"]
    /\ toServer' = [toServer EXCEPT ![c] = <<>>]
    /\ IF handler[c] \in {"ready", "stopped"} /\ Locks(c)
       THEN Release(c) /\ handler' = [handler EXCEPT ![c] = "stopped"]
       ELSE UNCHANGED <<unlocks, handler>>
    /\ UNCHANGED <<updates, modal, toClient, job, asked, holder, stolen, faults, lost>>

\* The lock is released by its key, whoever holds it.
RemoveLock(c) ==
    /\ unlocks[c] > 0
    /\ unlocks' = [unlocks EXCEPT ![c] = @ - 1]
    /\ holder' = None
    /\ stolen' = (stolen \/ holder \notin {None, c})
    /\ UNCHANGED <<client, toServer, toClient, server>>

-----------------------------------------------------------------------------
(* Faults.  A modal listens to the end of its connection only once it has  *)
(* been answered.                                                          *)

Cut(broken) ==
    /\ faults < MaxFaults
    /\ faults' = faults + 1
    /\ modal' = [c \in Commands |-> IF c \in broken /\ modal[c] \in Listening THEN "error" ELSE modal[c]]
    /\ lost' = lost \cup {c \in broken : modal[c] = "starting"}
    /\ toClient' = [c \in Commands |-> IF c \in broken THEN <<>> ELSE toClient[c]]

Connected == {c \in Commands : socket[c] \in {"open", "closing"}}

BreakConnection(c) ==
    /\ socket[c] = "open"
    /\ Cut({c})
    /\ socket' = [socket EXCEPT ![c] = "closing"]
    /\ UNCHANGED <<updates, toServer, server, locked>>

\* PostgreSQL frees the lock when the connection of the server ends.
Crash ==
    /\ Cut(Connected)
    /\ socket' = [c \in Commands |-> IF c \in Connected THEN "closed" ELSE socket[c]]
    /\ toServer' = [c \in Commands |-> <<>>]
    /\ handler' = [c \in Commands |-> "none"] /\ job' = [c \in Commands |-> "none"]
    /\ holder' = None /\ unlocks' = [c \in Commands |-> 0]
    /\ UNCHANGED <<updates, asked, stolen>>

-----------------------------------------------------------------------------

Serve(c) ==
    \/ Start(c) \/ CheckPermission(c) \/ CreateLock(c) \/ Register(c) \/ StartFails(c)
    \/ StartJob(c) \/ Answered(c) \/ Disconnected(c)
Work(c) == Ask(c) \/ EndJob(c)

Next ==
    \/ \E c \in Commands :
          \/ RunCommand(c) \/ Receive(c) \/ SendPromptResponse(c) \/ Leave(c)
          \/ Serve(c) \/ Work(c) \/ RemoveLock(c) \/ BreakConnection(c)
    \/ Crash

Spec == Init /\ [][Next]_vars

\* Event loops, sockets and the database go on, and a job whose questions are answered
\* comes to an end.  Nobody has to answer, or to leave.
FairSpec ==
    /\ Spec
    /\ \A c \in Commands :
          WF_vars(Receive(c)) /\ WF_vars(Serve(c)) /\ WF_vars(Work(c)) /\ WF_vars(RemoveLock(c))

-----------------------------------------------------------------------------
(* Properties.                                                             *)

AtWork(c) == job[c] \in {"running", "waiting"}

\* Two updates of the package are at work at the same time only if one of them has lost
\* its user, or a handler has released a lock that was not its own
\* (PackageUpdateHandler.ts:53, 103, 179-181): the end of a command releases the lock
\* twice, for the end of the job and for the end of the connection.
OneUpdateAtATime ==
    \A c, d \in updates :
       c # d /\ AtWork(c) /\ AtWork(d) =>
          stolen \/ socket[c] = "closed" \/ socket[d] = "closed"

\* A command that has been run shows a result or a prompt in the end, or is left; only a
\* connection that breaks before the first answer leaves it "Starting..." for ever
\* (command-modal.component.ts:185-191, 266-270; PackageUpdateHandler.ts:149-156).
EveryCommandEnds ==
    \A c \in Commands :
       modal[c] \in {"starting", "joining", "connected"} ~>
          modal[c] \in Ended \cup {"awaiting input"} \/ c \in lost

\* An update that holds the lock gives it up, unless it waits for its user, has failed
\* between lock and answer, or lost its user there (PackageUpdateHandler.ts:53-86).
LockComesBack ==
    \A c \in Commands :
       holder = c ~> \/ holder # c
                     \/ modal[c] = "awaiting input"
                     \/ handler[c] \in {"failed", "deaf"}

-----------------------------------------------------------------------------
(* What the repository says, and the code does not do.                     *)

\* PackageUpdateHandler.ts: a package that is updated "is locked by another
\* session": no second update begins beside one whose user is still there.
LockedByAnother ==
    \A c, d \in updates :
       c # d /\ AtWork(c) /\ AtWork(d) => socket[c] = "closed" \/ socket[d] = "closed"

\* PackageUpdateHandler.ts, to the user of a package without versions: "Publish
\* a version of this package first".  So the lock of an update that was refused
\* does not stay, for the next update would be refused for it.
RefusedUpdateUnlocks ==
    \A c \in Commands : holder = c /\ handler[c] = "failed" ~> holder # c
=============================================================================
