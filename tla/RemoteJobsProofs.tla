--------------------------- MODULE RemoteJobsProofs ---------------------------
(***************************************************************************)
(* Theorems about RemoteJobs, for any number of commands, questions and    *)
(* faults.                                                                 *)
(*                                                                         *)
(* The argument: a handler that has the lock and has not been stopped      *)
(* still holds it, since only a handler that has been stopped has releases *)
(* on their way, and such a release finds the lock with another one only   *)
(* if it steals it.  A job that goes on after the stop of its handler is   *)
(* one whose connection has ended.                                         *)
(***************************************************************************)
EXTENDS RemoteJobs, SequenceTheorems, TLAPS

\* A modal that has not been run has no connection and no handler.
IdleIsQuiet(c) ==
    modal[c] = "idle" => toServer[c] = <<>> /\ handler[c] = "none" /\ socket[c] = "none"

\* The handler is started once, by the first message.
StartedOnce(c) ==
    \A i \in 1..Len(toServer[c]) : toServer[c][i] = "start" => i = 1 /\ handler[c] = "none"

\* Only a handler that has been stopped releases.
ReleasesWhenStopped(c) == unlocks[c] > 0 => handler[c] = "stopped"

\* A job at work has been answered; if its handler has been stopped, its user is lost.
WorksAnswered(c) ==
    AtWork(c) => \/ handler[c] = "ready"
                 \/ handler[c] = "stopped" /\ (c \in updates => socket[c] = "closed")

\* A handler with the lock keeps it until it is stopped.
KeepsLock(c) ==
    c \in updates /\ handler[c] \in {"reading", "ready"} => holder = c \/ stolen

Good(c) ==
    IdleIsQuiet(c) /\ StartedOnce(c) /\ ReleasesWhenStopped(c) /\ WorksAnswered(c) /\ KeepsLock(c)

Inv == TypeOK /\ \A c \in Commands : Good(c)

-----------------------------------------------------------------------------
(* Sequences.                                                              *)

\* The first message and the rest.
LEMMA TailFact ==
    ASSUME NEW S, NEW s \in Seq(S), s # <<>>
    PROVE  /\ Tail(s) \in Seq(S) /\ Len(s) \in Nat \ {0} /\ Head(s) = s[1]
           /\ Len(Tail(s)) = Len(s) - 1
           /\ \A i \in 1..Len(Tail(s)) : Tail(s)[i] = s[i + 1]
BY EmptySeq, HeadTailProperties

\* One message more.
LEMMA AppendFact ==
    ASSUME NEW S, NEW s \in Seq(S), NEW x \in S
    PROVE  /\ Append(s, x) \in Seq(S) /\ Len(s) \in Nat /\ Len(Append(s, x)) = Len(s) + 1
           /\ \A i \in 1..Len(s) : Append(s, x)[i] = s[i]
           /\ Append(s, x)[Len(s) + 1] = x
BY AppendProperties

-----------------------------------------------------------------------------
(* Types.                                                                  *)

ToServerMessages == {"start", "start job", "answer"}
ToClientMessages == {"started", "refused", "job started", "prompt", "task", "success", "error"}

\* What is sent, or lost, is a message of the server.
LEMMA SendType ==
    ASSUME TypeOK, NEW c \in Commands, NEW message \in ToClientMessages, Send(c, message)
    PROVE  toClient' \in [Commands -> Seq(ToClientMessages)]
<1>1. toClient[c] \in Seq(ToClientMessages)
  BY DEF TypeOK, ToClientMessages
<1>2. Append(toClient[c], message) \in Seq(ToClientMessages)
  BY <1>1, AppendFact
<1> QED BY <1>2 DEF Send, TypeOK, ToClientMessages

\* Taking a message leaves messages.
LEMMA TakeType ==
    ASSUME TypeOK, NEW c \in Commands, NEW message, Take(c, message)
    PROVE  toServer' \in [Commands -> Seq(ToServerMessages)]
<1>1. toServer[c] \in Seq(ToServerMessages) /\ toServer[c] # <<>>
  BY DEF TypeOK, Take, ToServerMessages
<1>2. Tail(toServer[c]) \in Seq(ToServerMessages)
  BY <1>1, TailFact
<1> QED BY <1>2 DEF Take, TypeOK, ToServerMessages

\* The modal hears a message and may answer it.
LEMMA HearType ==
    ASSUME TypeOK, NEW c \in Commands, NEW message, NEW shows, NEW answer,
           answer = None \/ answer \in ToServerMessages, Hear(c, message, shows, answer)
    PROVE  /\ toClient' \in [Commands -> Seq(ToClientMessages)]
           /\ toServer' \in [Commands -> Seq(ToServerMessages)]
<1>1. toClient[c] \in Seq(ToClientMessages) /\ toClient[c] # <<>> /\ toServer[c] \in Seq(ToServerMessages)
  BY DEF TypeOK, Hear, ToServerMessages, ToClientMessages
<1>2. Tail(toClient[c]) \in Seq(ToClientMessages)
  BY <1>1, TailFact
<1>3. answer = None \/ Append(toServer[c], answer) \in Seq(ToServerMessages)
  BY <1>1, AppendFact
<1> QED BY <1>2, <1>3 DEF Hear, TypeOK, ToServerMessages, ToClientMessages

\* A release more on its way.
LEMMA ReleaseType ==
    ASSUME TypeOK, NEW c \in Commands, Release(c)
    PROVE  unlocks' \in [Commands -> Nat]
<1>1. unlocks[c] \in Nat
  BY DEF TypeOK
<1>2. unlocks[c] + 1 \in Nat
  BY <1>1
<1>3. unlocks' = unlocks \/ unlocks' = [unlocks EXCEPT ![c] = @ + 1]
  BY DEF Release
<1> QED BY <1>2, <1>3 DEF TypeOK

\* The types are kept.
LEMMA TypeStep == TypeOK /\ [Next]_vars => TypeOK'
<1> SUFFICES ASSUME TypeOK, [Next]_vars PROVE TypeOK'
  OBVIOUS
<1> USE NoneAssumption, BoundsAssumption
<1>e. <<>> \in Seq(ToClientMessages) /\ <<>> \in Seq(ToServerMessages)
      /\ <<"start">> \in Seq(ToServerMessages)
  BY DEF ToServerMessages
<1>1. ASSUME NEW c \in Commands, RunCommand(c) PROVE TypeOK'
  BY <1>1, <1>e DEF RunCommand, TypeOK, server, locked, ToServerMessages
<1>2. ASSUME NEW c \in Commands, Receive(c) PROVE TypeOK'
  <2>1. ASSUME NEW message, NEW shows, NEW answer, answer \in {None, "start job", "answer"},
               Hear(c, message, shows, answer),
               shows \in {"joining", "error", "connected", "awaiting input", "success", modal[c]},
               socket' \in {socket, [socket EXCEPT ![c] = "closing"]}
        PROVE  TypeOK'
    <3>1. /\ toClient' \in [Commands -> Seq(ToClientMessages)]
          /\ toServer' \in [Commands -> Seq(ToServerMessages)]
      BY <2>1, HearType DEF ToServerMessages
    <3> QED BY <2>1, <3>1 DEF Hear, TypeOK, server, locked, ToServerMessages, ToClientMessages
  <2> QED BY <1>2, <2>1 DEF Receive
<1>3. ASSUME NEW c \in Commands, SendPromptResponse(c) PROVE TypeOK'
  <2>1. toServer[c] \in Seq(ToServerMessages) /\ "answer" \in ToServerMessages
    BY DEF TypeOK, ToServerMessages
  <2>2. Append(toServer[c], "answer") \in Seq(ToServerMessages)
    BY <2>1, AppendFact
  <2> QED BY <1>3, <2>2 DEF SendPromptResponse, TypeOK, server, locked, ToServerMessages
<1>4. ASSUME NEW c \in Commands, Leave(c) PROVE TypeOK'
  BY <1>4, <1>e DEF Leave, TypeOK, server, locked, ToClientMessages
<1>5. ASSUME NEW c \in Commands, Start(c) PROVE TypeOK'
  BY <1>5, TakeType DEF Start, TypeOK, client, locked, ToServerMessages
<1>6. ASSUME NEW c \in Commands, NEW state \in {"refused", "failed"}, Refuse(c, state) PROVE TypeOK'
  BY <1>6, SendType DEF Refuse, TypeOK, client, locked, ToClientMessages
<1>7. ASSUME NEW c \in Commands, CheckPermission(c) PROVE TypeOK'
  BY <1>6, <1>7 DEF CheckPermission, TypeOK, client, locked
<1>8. ASSUME NEW c \in Commands, CreateLock(c) PROVE TypeOK'
  BY <1>6, <1>8 DEF CreateLock, Granted, TypeOK, client
<1>9. ASSUME NEW c \in Commands, Register(c) PROVE TypeOK'
  BY <1>9, SendType DEF Register, TypeOK, client, locked, ToClientMessages
<1>10. ASSUME NEW c \in Commands, StartFails(c) PROVE TypeOK'
  BY <1>6, <1>10 DEF StartFails
<1>11. ASSUME NEW c \in Commands, StartJob(c) PROVE TypeOK'
  <2>1. /\ toClient' \in [Commands -> Seq(ToClientMessages)]
        /\ toServer' \in [Commands -> Seq(ToServerMessages)]
    BY <1>11, SendType, TakeType DEF StartJob, ToClientMessages
  <2> QED BY <1>11, <2>1 DEF StartJob, TypeOK, client, locked, ToClientMessages, ToServerMessages
<1>12. ASSUME NEW c \in Commands, Answered(c) PROVE TypeOK'
  BY <1>12, TakeType DEF Answered, TypeOK, client, locked, ToServerMessages
<1>13. ASSUME NEW c \in Commands, Disconnected(c) PROVE TypeOK'
  <2>1. unlocks' \in [Commands -> Nat]
    BY <1>13, ReleaseType DEF Disconnected, TypeOK
  <2>2. handler' \in {handler, [handler EXCEPT ![c] = "stopped"]}
    BY <1>13 DEF Disconnected
  <2> QED BY <1>13, <1>e, <2>1, <2>2 DEF Disconnected, TypeOK, ToServerMessages
<1>14. ASSUME NEW c \in Commands, Ask(c) PROVE TypeOK'
  <2>0. asked[c] \in 0..MaxAsked /\ asked[c] < MaxAsked
    BY <1>14 DEF Ask, TypeOK
  <2>1. asked[c] + 1 \in 0..MaxAsked
    BY <2>0
  <2>2. toClient' \in [Commands -> Seq(ToClientMessages)]
    BY <1>14, SendType DEF Ask, ToClientMessages
  <2> QED BY <1>14, <2>1, <2>2 DEF Ask, TypeOK, client, locked, ToClientMessages
<1>15. ASSUME NEW c \in Commands, EndJob(c) PROVE TypeOK'
  <2>1. unlocks' \in [Commands -> Nat]
    BY <1>15, ReleaseType DEF EndJob
  <2>2. toClient' \in [Commands -> Seq(ToClientMessages)]
    BY <1>15, SendType DEF EndJob, ToClientMessages
  <2> QED BY <1>15, <2>1, <2>2 DEF EndJob, TypeOK, client, ToClientMessages
<1>16. ASSUME NEW c \in Commands, RemoveLock(c) PROVE TypeOK'
  <2>1. unlocks[c] \in Nat /\ unlocks[c] > 0
    BY <1>16 DEF RemoveLock, TypeOK
  <2>2. unlocks[c] - 1 \in Nat
    BY <2>1
  <2>3. unlocks' \in [Commands -> Nat]
    BY <1>16, <2>2 DEF RemoveLock, TypeOK
  <2>4. stolen' \in BOOLEAN
    BY <1>16 DEF RemoveLock, TypeOK
  <2> QED BY <1>16, <2>3, <2>4 DEF RemoveLock, TypeOK, client, server
<1>17. ASSUME NEW broken \in SUBSET Commands, Cut(broken)
       PROVE  /\ modal' \in [Commands -> {"idle", "starting", "joining", "connected",
                                          "awaiting input", "success", "error", "gone"}]
              /\ toClient' \in [Commands -> Seq(ToClientMessages)]
              /\ faults' \in 0..MaxFaults /\ lost' \subseteq Commands
  <2>1. toClient' \in [Commands -> Seq(ToClientMessages)]
    BY <1>17, <1>e DEF Cut, TypeOK, ToClientMessages
  <2>2. faults \in 0..MaxFaults /\ faults < MaxFaults /\ faults' = faults + 1
    BY <1>17 DEF Cut, TypeOK
  <2>3. faults' \in 0..MaxFaults
    BY <2>2
  <2>4. {c \in broken : modal[c] = "starting"} \subseteq Commands
    BY DEF TypeOK
  <2> QED BY <1>17, <2>1, <2>3, <2>4 DEF Cut, TypeOK
<1>18. ASSUME NEW c \in Commands, BreakConnection(c) PROVE TypeOK'
  BY <1>17, <1>18 DEF BreakConnection, TypeOK, server, locked, ToClientMessages
<1>19. CASE Crash
  BY <1>17, <1>19, <1>e DEF Crash, Connected, TypeOK, ToClientMessages, ToServerMessages
<1>20. CASE UNCHANGED vars
  BY <1>20 DEF vars, TypeOK
<1> QED
  BY <1>1, <1>2, <1>3, <1>4, <1>5, <1>7, <1>8, <1>9, <1>10, <1>11, <1>12, <1>13, <1>14, <1>15,
     <1>16, <1>18, <1>19, <1>20 DEF Next, Serve, Work

-----------------------------------------------------------------------------
(* The steps.                                                              *)

\* The first state.
LEMMA InitInv == Init => Inv
<1> SUFFICES ASSUME Init PROVE Inv
  OBVIOUS
<1>1. TypeOK
  <2>1. <<>> \in Seq(ToServerMessages) /\ <<>> \in Seq(ToClientMessages)
    OBVIOUS
  <2>2. 0 \in 0..MaxAsked /\ 0 \in 0..MaxFaults
    BY BoundsAssumption
  <2> QED BY <2>1, <2>2 DEF Init, TypeOK, ToServerMessages, ToClientMessages
<1>2. ASSUME NEW c \in Commands PROVE Good(c)
  BY DEF Init, Good, IdleIsQuiet, StartedOnce, ReleasesWhenStopped, WorksAnswered, KeepsLock, AtWork
<1> QED BY <1>1, <1>2 DEF Inv

\* What the step of one command leaves alone of another: it stays good.
LEMMA OthersStayGood ==
    ASSUME NEW c \in Commands, Good(c),
           modal'[c] = modal[c], toServer'[c] = toServer[c], handler'[c] = handler[c],
           socket'[c] = socket[c], unlocks'[c] = unlocks[c], job'[c] = job[c],
           c \in updates' <=> c \in updates,
           holder = c => holder' = c \/ stolen', stolen => stolen'
    PROVE  Good(c)'
BY DEF Good, IdleIsQuiet, StartedOnce, ReleasesWhenStopped, WorksAnswered, KeepsLock, AtWork

\* Taking a message: the handler may be started by the first only.
LEMMA TakeFact ==
    ASSUME Inv, NEW c \in Commands, NEW message, Take(c, message)
    PROVE  /\ modal[c] # "idle"
           /\ \A i \in 1..Len(toServer'[c]) : toServer'[c][i] # "start"
           /\ message = "start" => handler[c] = "none"
<1>1. Good(c) /\ toServer[c] \in Seq(ToServerMessages) /\ toServer[c] # <<>>
  BY DEF Inv, TypeOK, Take, ToServerMessages
<1>2. toServer'[c] = Tail(toServer[c]) /\ Head(toServer[c]) = message
  BY DEF Inv, TypeOK, Take
<1>3. /\ Len(toServer[c]) \in Nat \ {0} /\ message = toServer[c][1]
      /\ Len(toServer'[c]) = Len(toServer[c]) - 1
      /\ \A i \in 1..Len(toServer'[c]) : toServer'[c][i] = toServer[c][i + 1]
  BY <1>1, <1>2, TailFact
<1>4. \A i \in 1..Len(toServer'[c]) : i + 1 \in 1..Len(toServer[c]) /\ i + 1 # 1
  BY <1>3
<1> QED BY <1>1, <1>3, <1>4 DEF Good, IdleIsQuiet, StartedOnce

\* A message more that starts nothing.
LEMMA SayFact ==
    ASSUME Inv, NEW c \in Commands, NEW message \in ToServerMessages \ {"start"},
           toServer' = [toServer EXCEPT ![c] = Append(@, message)],
           handler' = handler
    PROVE  StartedOnce(c)'
<1>1. Good(c) /\ toServer[c] \in Seq(ToServerMessages)
  BY DEF Inv, TypeOK, ToServerMessages
<1>2. toServer'[c] = Append(toServer[c], message)
  BY DEF Inv, TypeOK
<1>3. /\ Len(toServer[c]) \in Nat /\ Len(toServer'[c]) = Len(toServer[c]) + 1
      /\ \A i \in 1..Len(toServer[c]) : toServer'[c][i] = toServer[c][i]
      /\ toServer'[c][Len(toServer[c]) + 1] = message
  BY <1>1, <1>2, AppendFact
<1> QED BY <1>1, <1>3 DEF Good, StartedOnce

\* The steps of the modal of a command keep it good.
LEMMA ModalStep ==
    ASSUME Inv, NEW c \in Commands,
           RunCommand(c) \/ Receive(c) \/ SendPromptResponse(c) \/ Leave(c)
    PROVE  \A d \in Commands : Good(d)'
<1>0. TypeOK /\ \A d \in Commands : Good(d)
  BY DEF Inv
<1>1. CASE RunCommand(c)
  <2>0. /\ toServer'[c] = <<"start">> /\ Len(<<"start">>) = 1 /\ modal'[c] = "starting"
        /\ handler[c] = "none" /\ handler' = handler /\ unlocks' = unlocks /\ job' = job
    BY <1>0, <1>1 DEF RunCommand, TypeOK, server, locked, Good, IdleIsQuiet
  <2>1. Good(c)'
    BY <1>0, <2>0
    DEF client, locked,
        Good, IdleIsQuiet, StartedOnce, ReleasesWhenStopped, WorksAnswered, KeepsLock, AtWork
  <2>2. \A d \in Commands \ {c} : Good(d)'
    BY <1>0, <1>1, OthersStayGood DEF RunCommand, TypeOK, server, locked
  <2> QED BY <2>1, <2>2
<1>2. CASE Receive(c)
  <2>1. ASSUME NEW message, NEW shows, NEW answer, answer \in {None, "start job", "answer"},
               Hear(c, message, shows, answer), shows # "idle" \/ shows = modal[c],
               socket' \in {socket, [socket EXCEPT ![c] = "closing"]}
        PROVE  \A d \in Commands : Good(d)'
    <3>1. StartedOnce(c)'
      <4>1. CASE answer = None
        BY <1>0, <2>1, <4>1 DEF Hear, server, Good, StartedOnce
      <4>2. CASE answer # None
        BY <2>1, <4>2, SayFact DEF Hear, server, ToServerMessages
      <4> QED BY <4>1, <4>2
    <3>2. modal[c] # "idle" /\ modal'[c] # "idle" /\ socket[c] = "open"
      BY <1>0, <2>1 DEF Hear, TypeOK, Good, IdleIsQuiet
    <3>3. Good(c)'
      BY <1>0, <2>1, <3>1, <3>2
      DEF Hear, TypeOK, server, locked,
          Good, IdleIsQuiet, StartedOnce, ReleasesWhenStopped, WorksAnswered, KeepsLock, AtWork
    <3>4. \A d \in Commands \ {c} : Good(d)'
      BY <1>0, <2>1, OthersStayGood DEF Hear, TypeOK, server, locked
    <3> QED BY <3>3, <3>4
  <2> QED BY <1>2, <2>1 DEF Receive
<1>3. CASE SendPromptResponse(c)
  <2>1. StartedOnce(c)'
    BY <1>3, SayFact DEF SendPromptResponse, server, ToServerMessages
  <2>2. Good(c)'
    BY <1>0, <1>3, <2>1
    DEF SendPromptResponse, TypeOK, server, locked,
        Good, IdleIsQuiet, StartedOnce, ReleasesWhenStopped, WorksAnswered, KeepsLock, AtWork
  <2>3. \A d \in Commands \ {c} : Good(d)'
    BY <1>0, <1>3, OthersStayGood DEF SendPromptResponse, TypeOK, server, locked
  <2> QED BY <2>2, <2>3
<1>4. CASE Leave(c)
  <2>1. Good(c)'
    BY <1>0, <1>4
    DEF Leave, TypeOK, server, locked,
        Good, IdleIsQuiet, StartedOnce, ReleasesWhenStopped, WorksAnswered, KeepsLock, AtWork
  <2>2. \A d \in Commands \ {c} : Good(d)'
    BY <1>0, <1>4, OthersStayGood DEF Leave, TypeOK, server, locked
  <2> QED BY <2>1, <2>2
<1> QED BY <1>1, <1>2, <1>3, <1>4

\* So do the steps of its handler.
LEMMA HandlerStep ==
    ASSUME Inv, NEW c \in Commands, Serve(c) \/ Work(c)
    PROVE  \A d \in Commands : Good(d)'
<1>0. TypeOK /\ \A d \in Commands : Good(d)
  BY DEF Inv
<1>1. CASE Start(c)
  <2>0. /\ modal[c] # "idle"
        /\ \A i \in 1..Len(toServer'[c]) : toServer'[c][i] # "start"
        /\ handler[c] = "none"
    BY <1>1, TakeFact DEF Start
  <2>1. Good(c)'
    BY <1>0, <1>1, <2>0
    DEF Start, TypeOK, Take, client, locked,
        Good, IdleIsQuiet, StartedOnce, ReleasesWhenStopped, WorksAnswered, KeepsLock, AtWork
  <2>2. \A d \in Commands \ {c} : Good(d)'
    BY <1>0, <1>1, OthersStayGood DEF Start, TypeOK, Take, client, locked
  <2> QED BY <2>1, <2>2
<1>2. ASSUME NEW state \in {"refused", "failed"}, Refuse(c, state),
             handler[c] \in {"checking", "locking", "reading"}
      PROVE  \A d \in Commands : Good(d)'
  <2>0. /\ handler[c] \in {"checking", "locking", "reading"} /\ handler'[c] \in {"refused", "failed"}
        /\ UNCHANGED <<client, toServer, job, locked>>
    BY <1>0, <1>2 DEF Refuse, TypeOK, client, locked
  <2>1. Good(c)'
    BY <1>0, <2>0
    DEF client, locked,
        Good, IdleIsQuiet, StartedOnce, ReleasesWhenStopped, WorksAnswered, KeepsLock, AtWork
  <2>2. \A d \in Commands \ {c} : Good(d)'
    BY <1>0, <1>2, OthersStayGood DEF Refuse, TypeOK, client, locked
  <2> QED BY <2>1, <2>2
<1>3. CASE /\ handler[c] = "checking"
           /\ handler' = [handler EXCEPT ![c] = IF Locks(c) THEN "locking" ELSE "reading"]
           /\ UNCHANGED <<client, toServer, toClient, job, asked, locked>>
  <2>0. /\ handler[c] = "checking" /\ handler'[c] = IF c \in updates THEN "locking" ELSE "reading"
        /\ UNCHANGED <<client, toServer, job, locked>>
    BY <1>0, <1>3 DEF Locks, TypeOK
  <2>1. Good(c)'
    BY <1>0, <2>0
    DEF client, locked,
        Good, IdleIsQuiet, StartedOnce, ReleasesWhenStopped, WorksAnswered, KeepsLock, AtWork
  <2>2. \A d \in Commands \ {c} : Good(d)'
    BY <1>0, <1>3, OthersStayGood DEF Locks, TypeOK, client, locked
  <2> QED BY <2>1, <2>2
<1>4. CASE handler[c] = "locking" /\ holder = None /\ Granted(c)
  <2>0. /\ handler[c] = "locking" /\ handler'[c] = "reading"
        /\ UNCHANGED <<client, toServer, job, unlocks, stolen>> /\ holder' = c
    BY <1>0, <1>4 DEF Granted, TypeOK
  <2>1. Good(c)'
    BY <1>0, <2>0
    DEF client, locked,
        Good, IdleIsQuiet, StartedOnce, ReleasesWhenStopped, WorksAnswered, KeepsLock, AtWork
  <2>2. \A d \in Commands \ {c} : Good(d)'
    BY <1>0, <1>4, NoneAssumption, OthersStayGood DEF Granted, TypeOK, client
  <2> QED BY <2>1, <2>2
<1>5. CASE Register(c)
  <2>0. /\ handler[c] = "reading" /\ handler'[c] \in {"ready", "deaf"}
        /\ UNCHANGED <<client, toServer, job, locked>>
    BY <1>0, <1>5 DEF Register, TypeOK
  <2>1. Good(c)'
    BY <1>0, <2>0
    DEF client, locked,
        Good, IdleIsQuiet, StartedOnce, ReleasesWhenStopped, WorksAnswered, KeepsLock, AtWork
  <2>2. \A d \in Commands \ {c} : Good(d)'
    BY <1>0, <1>5, OthersStayGood DEF Register, TypeOK, client, locked
  <2> QED BY <2>1, <2>2
<1>6. CASE StartJob(c)
  <2>0. /\ modal[c] # "idle"
        /\ \A i \in 1..Len(toServer'[c]) : toServer'[c][i] # "start"
    BY <1>6, TakeFact DEF StartJob
  <2>1. Good(c)'
    BY <1>0, <1>6, <2>0
    DEF StartJob, Take, TypeOK, client, locked,
        Good, IdleIsQuiet, StartedOnce, ReleasesWhenStopped, WorksAnswered, KeepsLock, AtWork
  <2>2. \A d \in Commands \ {c} : Good(d)'
    BY <1>0, <1>6, OthersStayGood DEF StartJob, Take, TypeOK, client, locked
  <2> QED BY <2>1, <2>2
<1>7. CASE Answered(c)
  <2>0. /\ modal[c] # "idle"
        /\ \A i \in 1..Len(toServer'[c]) : toServer'[c][i] # "start"
    BY <1>7, TakeFact DEF Answered
  <2>1. Good(c)'
    BY <1>0, <1>7, <2>0
    DEF Answered, Take, TypeOK, client, locked,
        Good, IdleIsQuiet, StartedOnce, ReleasesWhenStopped, WorksAnswered, KeepsLock, AtWork
  <2>2. \A d \in Commands \ {c} : Good(d)'
    BY <1>0, <1>7, OthersStayGood DEF Answered, Take, TypeOK, client, locked
  <2> QED BY <2>1, <2>2
<1>8. CASE Disconnected(c)
  <2>0. /\ modal' = modal /\ updates' = updates /\ job' = job /\ holder' = holder
        /\ stolen' = stolen /\ socket[c] # "none" /\ socket'[c] = "closed"
        /\ toServer'[c] = <<>> /\ Len(<<>>) = 0
    BY <1>0, <1>8 DEF Disconnected, TypeOK
  <2>1. Good(c)'
    <3>1. CASE handler[c] \in {"ready", "stopped"} /\ Locks(c)
      <4>1. handler'[c] = "stopped"
        BY <1>0, <1>8, <3>1 DEF Disconnected, TypeOK
      <4> QED BY <1>0, <2>0, <4>1
          DEF Good, IdleIsQuiet, StartedOnce, ReleasesWhenStopped, WorksAnswered, KeepsLock, AtWork
    <3>2. CASE ~(handler[c] \in {"ready", "stopped"} /\ Locks(c))
      <4>1. handler' = handler /\ unlocks' = unlocks
        BY <1>8, <3>2 DEF Disconnected
      <4> QED BY <1>0, <2>0, <4>1
          DEF Good, IdleIsQuiet, StartedOnce, ReleasesWhenStopped, WorksAnswered, KeepsLock, AtWork
    <3> QED BY <3>1, <3>2
  <2>2. \A d \in Commands \ {c} : Good(d)'
    BY <1>0, <1>8, OthersStayGood DEF Disconnected, Release, Locks, TypeOK
  <2> QED BY <2>1, <2>2
<1>9. CASE Ask(c)
  <2>1. Good(c)'
    BY <1>0, <1>9
    DEF Ask, TypeOK, client, locked,
        Good, IdleIsQuiet, StartedOnce, ReleasesWhenStopped, WorksAnswered, KeepsLock, AtWork
  <2>2. \A d \in Commands \ {c} : Good(d)'
    BY <1>0, <1>9, OthersStayGood DEF Ask, TypeOK, client, locked
  <2> QED BY <2>1, <2>2
<1>10. CASE EndJob(c)
  <2>1. Good(c)'
    BY <1>0, <1>10
    DEF EndJob, Release, Locks, TypeOK, client,
        Good, IdleIsQuiet, StartedOnce, ReleasesWhenStopped, WorksAnswered, KeepsLock, AtWork
  <2>2. \A d \in Commands \ {c} : Good(d)'
    BY <1>0, <1>10, OthersStayGood DEF EndJob, Release, Locks, TypeOK, client
  <2> QED BY <2>1, <2>2
<1>11. CheckPermission(c) \/ CreateLock(c) \/ StartFails(c) => \A d \in Commands : Good(d)'
  BY <1>2, <1>3, <1>4 DEF CheckPermission, CreateLock, StartFails
<1> QED
  BY <1>1, <1>5, <1>6, <1>7, <1>8, <1>9, <1>10, <1>11 DEF Serve, Work

\* A release on its way, and the faults, keep every command good.
LEMMA OtherStep ==
    ASSUME Inv, Crash \/ \E c \in Commands : RemoveLock(c) \/ BreakConnection(c)
    PROVE  \A d \in Commands : Good(d)'
<1>0. TypeOK /\ \A d \in Commands : Good(d)
  BY DEF Inv
<1>1. ASSUME NEW c \in Commands, RemoveLock(c), NEW d \in Commands PROVE Good(d)'
  <2>1. handler[c] = "stopped" /\ (holder = d => d = c \/ stolen')
    BY <1>0, <1>1, NoneAssumption DEF RemoveLock, Good, ReleasesWhenStopped
  <2>2. unlocks'[d] > 0 => unlocks[d] > 0
    <3>1. CASE d = c
      BY <1>0, <1>1, <3>1 DEF RemoveLock, TypeOK
    <3>2. CASE d # c
      BY <1>0, <1>1, <3>2 DEF RemoveLock, TypeOK
    <3> QED BY <3>1, <3>2
  <2> QED BY <1>0, <1>1, <2>1, <2>2
      DEF RemoveLock, client, server,
          Good, IdleIsQuiet, StartedOnce, ReleasesWhenStopped, WorksAnswered, KeepsLock, AtWork
<1>2. ASSUME NEW broken, Cut(broken), NEW d \in Commands PROVE modal'[d] = "idle" => modal[d] = "idle"
  BY <1>2 DEF Cut
<1>3. ASSUME NEW c \in Commands, BreakConnection(c), NEW d \in Commands PROVE Good(d)'
  <2>1. /\ modal'[d] = "idle" => modal[d] = "idle"
        /\ modal[d] = "idle" => socket'[d] = "none"
        /\ socket[d] = "closed" => socket'[d] = "closed"
    BY <1>0, <1>2, <1>3 DEF BreakConnection, TypeOK, Good, IdleIsQuiet
  <2> QED BY <1>0, <1>3, <2>1
      DEF BreakConnection, server, locked,
          Good, IdleIsQuiet, StartedOnce, ReleasesWhenStopped, WorksAnswered, KeepsLock, AtWork
<1>4. ASSUME Crash, NEW d \in Commands PROVE Good(d)'
  <2>1. /\ modal'[d] = "idle" => modal[d] = "idle"
        /\ modal[d] = "idle" => socket'[d] = "none"
    BY <1>0, <1>2, <1>4 DEF Crash, Connected, Good, IdleIsQuiet
  <2>2. /\ toServer'[d] = <<>> /\ Len(<<>>) = 0 /\ handler'[d] = "none" /\ job'[d] = "none"
        /\ unlocks'[d] = 0
    BY <1>4 DEF Crash
  <2> QED BY <2>1, <2>2, <1>0
      DEF Good, IdleIsQuiet, StartedOnce, ReleasesWhenStopped, WorksAnswered, KeepsLock, AtWork
<1> QED BY <1>1, <1>3, <1>4

\* Every step keeps the invariant.
LEMMA StepInv == Inv /\ [Next]_vars => Inv'
<1> SUFFICES ASSUME Inv, [Next]_vars PROVE Inv'
  OBVIOUS
<1>1. TypeOK'
  BY TypeStep DEF Inv
<1>2. ASSUME UNCHANGED vars, NEW d \in Commands PROVE Good(d)'
  BY <1>2 DEF vars, Inv,
     Good, IdleIsQuiet, StartedOnce, ReleasesWhenStopped, WorksAnswered, KeepsLock, AtWork
<1>3. \A d \in Commands : Good(d)'
  BY <1>2, ModalStep, HandlerStep, OtherStep DEF Next
<1> QED BY <1>1, <1>3 DEF Inv

-----------------------------------------------------------------------------
\* Whatever the users, the jobs and the faults do, two updates are at work together only
\* if one has lost its user or a release has hit the lock of another
\* (PackageUpdateHandler.ts:53, 103, 179-181).
THEOREM UpdatesExclude == Spec => []OneUpdateAtATime
<1>1. Inv => OneUpdateAtATime
  <2> SUFFICES ASSUME Inv, NEW c \in updates, NEW d \in updates, c # d, AtWork(c), AtWork(d),
                      ~stolen, socket[c] # "closed", socket[d] # "closed"
               PROVE  FALSE
    BY DEF OneUpdateAtATime
  <2>1. c \in Commands /\ d \in Commands
    BY DEF Inv, TypeOK
  <2>2. handler[c] = "ready" /\ handler[d] = "ready"
    BY <2>1 DEF Inv, Good, WorksAnswered
  <2> QED BY <2>1, <2>2 DEF Inv, Good, KeepsLock
<1> QED BY <1>1, InitInv, StepInv, PTL DEF Spec
=============================================================================
