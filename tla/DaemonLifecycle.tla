---------------------------- MODULE DaemonLifecycle ----------------------------
(***************************************************************************)
(* The commands that start, stop, restart and rebind the daemon, run by    *)
(* several client processes at once against the workers of                 *)
(* DaemonOwnership, with the service manager of ServiceManager or without.  *)
(*                                                                         *)
(* Where the unit is installed, start, stop and restart go to systemd and   *)
(* the client waits for what comes of it.  Otherwise starters converge      *)
(* through the startup lock: its holder spawns a worker and waits until a   *)
(* daemon is healthy; and stop asks the daemon it found to shut down.       *)
(* Either way stop returns once nobody answers and the lifetime lock is     *)
(* free.  Rebind stops, forgets the durable port and starts; install stops  *)
(* the daemon it finds, writes the unit and starts.                         *)
(*                                                                         *)
(* Source: internal/lifecycle/lifecycle.go, internal/client/start.go,      *)
(* internal/client/client.go, internal/cli/daemonctl.go,                   *)
(* internal/service/systemd.go.                                            *)
(***************************************************************************)
EXTENDS ServiceManager

CONSTANTS
  Commands,   \* the commands clients run: a subset of AllCommands
  MaxCalls    \* bound: commands one client runs, one after the other

AllCommands == {"start", "stop", "restart", "rebind", "install", "uninstall"}

ASSUME CommandsAssumption == Commands \subseteq AllCommands /\ MaxCalls \in Nat

VARIABLES
  cpc,      \* where each client is
  command,  \* the command it runs
  calls,    \* commands it has begun
  target,   \* the worker it has told to stop, or has found and will tell
  overlooked, \* history: the clients that run on although systemctl could not stop it
  child,    \* the worker it has spawned
  seized,   \* history: whether the startup lock was taken from a process that held it
  rebound   \* history: whether a durable port was dropped by rebind

clientVars == <<cpc, command, calls, target, overlooked, child, seized, rebound>>
vars == <<workerVars, serviceVars, clientVars>>

------------------------------------------------------------------------------
CGoto(c, place) == cpc' = [cpc EXCEPT ![c] = place]

\* The client has to do with another worker from now on, or with none.
Aim(c, w) == target' = [target EXCEPT ![c] = w] /\ overlooked' = overlooked \ {c}

\* Only the client moves.
ClientOnly == UNCHANGED <<workerVars, serviceVars, command, calls, child, seized, rebound>>

\* lifecycle.Installed
Installed == unit

\* Where a command begins: with lifecycle.Start, with lifecycle.Stop, by finding the
\* daemon to replace, or with the unit to remove.
FirstPlace(cmd) ==
  CASE cmd = "start" -> "routing"
    [] cmd \in {"stop", "restart", "rebind"} -> IF Installed THEN "svcStopping" ELSE "stopping"
    [] cmd = "install" -> IF Systemd THEN "stopping" ELSE "failed"
    [] cmd = "uninstall" -> CASE Installed -> "svcStopping"
                              [] ~Installed /\ Systemd -> "stopped"
                              [] ~Systemd -> "failed"

Begin(c, cmd) ==
  /\ cpc[c] = "idle"
  /\ calls[c] < MaxCalls
  /\ CGoto(c, FirstPlace(cmd))
  /\ command' = [command EXCEPT ![c] = cmd]
  /\ calls' = [calls EXCEPT ![c] = @ + 1]
  /\ Aim(c, NoOne)
  /\ UNCHANGED <<workerVars, serviceVars, child, seized, rebound>>

\* The next part of the command once its stop part is over.
AfterStop(c) ==
  CASE command[c] = "stop" -> "stopped"
    [] command[c] = "restart" -> "routing"
    [] command[c] = "rebind" -> "clearing"
    [] command[c] = "install" -> "installing"

\* Mutant: a start spawns its own worker, service or not.
RouteDetached(c) ==
  /\ cpc[c] = "routing"
  /\ CGoto(c, "starting")
  /\ ClientOnly /\ UNCHANGED <<target, overlooked>>

\* lifecycle.Start: an installed service is started, never bypassed.
Route(c) ==
  /\ cpc[c] = "routing"
  /\ CGoto(c, IF Installed THEN "svcFinding" ELSE "starting")
  /\ ClientOnly /\ UNCHANGED <<target, overlooked>>

------------------------------------------------------------------------------
(* client.start                                                            *)

\* Another starter may have produced a healthy daemon.
FindHealthy(c) ==
  /\ cpc[c] = "starting"
  /\ CGoto(c, IF Connected THEN "started" ELSE "locking")
  /\ ClientOnly /\ UNCHANGED <<target, overlooked>>

\* From the creation of the startup lock to its removal; a stopping worker holds it too.
Spawning == {"spawning", "awaiting", "unlocking", "givingUp"}
Starters == { c \in Clients : cpc[c] \in Spawning } \cup { w \in holds : ~Dead(w) }

TakeStartLock(c) ==
  /\ cpc[c] = "locking"
  /\ startLock = NoOne
  /\ startLock' = c
  /\ CGoto(c, "spawning")
  /\ UNCHANGED <<processVars, lock, persisted, disc, crashes, stolen, serviceVars,
                 command, calls, target, overlooked, child, seized, rebound>>

\* Someone holds it: look again, give up at the deadline, or remove a lock that
\* is older than lockStaleAfter, whoever holds it.
StartLockHeld(c) ==
  /\ cpc[c] = "locking"
  /\ startLock # NoOne
  /\ CGoto(c, "starting") \/ (Impatient /\ CGoto(c, "failed"))
  /\ ClientOnly /\ UNCHANGED <<target, overlooked>>

StaleStartLock(c) ==
  /\ cpc[c] = "locking"
  /\ startLock # NoOne
  /\ Impatient \/ (startLock \in Workers /\ Dead(startLock))
  /\ startLock' = NoOne
  /\ seized' = (seized \/ startLock \in Starters)
  /\ CGoto(c, "starting")
  /\ UNCHANGED <<processVars, lock, persisted, disc, crashes, stolen, serviceVars,
                 command, calls, target, overlooked, child, rebound>>

\* Mutant: the client records itself as the worker it spawned.
SpawnSelf(c, w) ==
  /\ cpc[c] = "spawning"
  /\ Launch(w)
  /\ CGoto(c, "awaiting")
  /\ child' = [child EXCEPT ![c] = c]
  /\ UNCHANGED <<serviceVars, command, calls, target, overlooked, seized, rebound>>

\* spawnAndWait
Spawn(c, w) ==
  /\ cpc[c] = "spawning"
  /\ Launch(w)
  /\ CGoto(c, "awaiting")
  /\ child' = [child EXCEPT ![c] = w]
  /\ UNCHANGED <<serviceVars, command, calls, target, overlooked, seized, rebound>>

AwaitHealthy(c) ==
  /\ cpc[c] = "awaiting"
  /\ Connected
  /\ CGoto(c, "unlocking")
  /\ ClientOnly /\ UNCHANGED <<target, overlooked>>

\* startupTimeout: certain to pass when the spawned worker has died.
AwaitTimeout(c) ==
  /\ cpc[c] = "awaiting"
  /\ ~Connected
  /\ Impatient \/ Dead(child[c])
  /\ CGoto(c, "givingUp")
  /\ ClientOnly /\ UNCHANGED <<target, overlooked>>

\* Mutant: a starter that finds the daemon healthy forgets its startup lock.
ReleaseOnFailure(c) ==
  /\ cpc[c] \in {"unlocking", "givingUp"}
  /\ CGoto(c, IF cpc[c] = "unlocking" THEN "started" ELSE "failed")
  /\ startLock' = IF cpc[c] = "givingUp" THEN NoOne ELSE startLock
  /\ UNCHANGED <<processVars, lock, persisted, disc, crashes, stolen, serviceVars,
                 command, calls, target, overlooked, child, seized, rebound>>

\* The startup lock is removed by path.
ReleaseStart(c) ==
  /\ cpc[c] \in {"unlocking", "givingUp"}
  /\ CGoto(c, IF cpc[c] = "unlocking" THEN "started" ELSE "failed")
  /\ startLock' = NoOne
  /\ UNCHANGED <<processVars, lock, persisted, disc, crashes, stolen, serviceVars,
                 command, calls, target, overlooked, child, seized, rebound>>

------------------------------------------------------------------------------
(* lifecycle.Stop, and rebind                                              *)

\* Nothing answers: there is nothing to stop.
FindTarget(c) ==
  /\ cpc[c] = "stopping"
  /\ IF Connected
       THEN CGoto(c, "asking") /\ Aim(c, disc)
       ELSE CGoto(c, AfterStop(c)) /\ UNCHANGED <<target, overlooked>>
  /\ ClientOnly

\* POST /v1/shutdown to the endpoint found, with the token found.  Another worker
\* on that port refuses the token, which Shutdown does not tell from success.
AskShutdown(c) ==
  /\ cpc[c] = "asking"
  /\ CGoto(c, IF Occupied(port[target[c]]) THEN "watching" ELSE "failed")
  /\ IF pc[target[c]] = "serving" THEN AskToStop(target[c]) ELSE UNCHANGED asked
  /\ UNCHANGED <<pc, want, port, holds, files, crashes, stolen, serviceVars,
                 command, calls, target, overlooked, child, seized, rebound>>

\* WaitGone: nobody answers ...
WatchEndpoint(c) ==
  /\ cpc[c] = "watching"
  /\ ~Connected
  /\ CGoto(c, "checking")
  /\ ClientOnly /\ UNCHANGED <<target, overlooked>>

\* ... and the lifetime lock is free; or look again.
CheckOwnership(c) ==
  /\ cpc[c] = "checking"
  /\ CGoto(c, IF OwnershipFree THEN AfterStop(c) ELSE "watching")
  /\ ClientOnly /\ UNCHANGED <<target, overlooked>>

\* goneTimeout: certain to pass when a daemon nobody has told to stop answers.
WatchTimeout(c) ==
  /\ Impatient \/ (Connected /\ disc \notin asked)
  /\ cpc[c] \in {"watching", "checking"}
  /\ CGoto(c, "failed")
  /\ ClientOnly /\ UNCHANGED <<target, overlooked>>

\* ClearEndpoint
Clear(c) ==
  /\ cpc[c] = "clearing"
  /\ CGoto(c, "routing")
  /\ persisted' = NoPort
  /\ rebound' = TRUE
  /\ UNCHANGED <<processVars, lock, disc, startLock, crashes, stolen, serviceVars,
                 command, calls, target, overlooked, child, seized>>

------------------------------------------------------------------------------
(* The same through the service manager, and its installation.             *)

\* A healthy daemon is as good as a started one.
FindService(c) ==
  /\ cpc[c] = "svcFinding"
  /\ CGoto(c, IF Connected THEN "started" ELSE "svcStarting")
  /\ ClientOnly /\ UNCHANGED <<target, overlooked>>

\* systemctl start, also the second half of systemctl restart: nothing to do for a
\* service that runs, unless it is being stopped.
StartService(c) ==
  /\ cpc[c] = "svcStarting"
  /\ \/ Active /\ duty # "stop" /\ unit /\ UNCHANGED <<workerVars, serviceVars>>
     \/ \E w \in Workers : LaunchMain(w)
  /\ CGoto(c, "svcAwaiting")
  /\ UNCHANGED <<command, calls, target, overlooked, child, seized, rebound>>

\* waitHealthy
AwaitService(c) ==
  /\ cpc[c] = "svcAwaiting"
  /\ Connected
  /\ CGoto(c, "started")
  /\ ClientOnly /\ UNCHANGED <<target, overlooked>>

\* healthyTimeout: certain to pass when nothing is starting.
AwaitServiceTimeout(c) ==
  /\ cpc[c] = "svcAwaiting"
  /\ ~Connected
  /\ Impatient \/ (~Active /\ duty # "revive")
  /\ CGoto(c, "failed")
  /\ ClientOnly /\ UNCHANGED <<target, overlooked>>

\* systemctl stop or restart tells the service, if it runs ...
StopService(c) ==
  /\ cpc[c] = "svcStopping"
  /\ unit
  /\ StopMain
  /\ CGoto(c, "svcEnding")
  /\ Aim(c, IF Active THEN main ELSE NoOne)
  /\ UNCHANGED <<command, calls, child, seized, rebound>>

\* ... and returns when it is gone; stop and rebind go on to WaitGone.
ServiceEnds(c) ==
  /\ cpc[c] = "svcEnding"
  /\ target[c] # NoOne => Dead(target[c])
  /\ CGoto(c, CASE command[c] = "restart" -> "svcStarting"
                [] command[c] = "uninstall" -> "removing"
                [] OTHER -> "watching")
  /\ ClientOnly /\ UNCHANGED <<target, overlooked>>

\* systemctl fails: there is no such unit any more, another command has cancelled
\* this one, or the bus does not answer.  Uninstall drops the error and goes on, whatever
\* becomes of the daemon it wanted stopped.
SystemctlFails(c) ==
  /\ cpc[c] \in {"svcStarting", "svcStopping", "svcEnding"}
  /\ Impatient \/ ~unit
  /\ IF command[c] = "uninstall"
       THEN CGoto(c, "removing") /\ overlooked' = overlooked \cup {c}
       ELSE CGoto(c, "failed") /\ UNCHANGED overlooked
  /\ ClientOnly /\ UNCHANGED target

\* systemd.Install writes the unit, reloads and enables it; it may fail before or
\* after the unit is in place.
InstallUnit(c) ==
  /\ cpc[c] = "installing"
  /\ \/ CGoto(c, "routing") /\ unit' = TRUE
     \/ Impatient /\ CGoto(c, "failed") /\ (UNCHANGED unit \/ unit' = TRUE)
  /\ UNCHANGED <<workerVars, main, duty,
                 command, calls, target, overlooked, child, seized, rebound>>

\* systemd.Uninstall removes it.
RemoveUnit(c) ==
  /\ cpc[c] = "removing"
  /\ \/ CGoto(c, "leaving") /\ unit' = FALSE
     \/ Impatient /\ CGoto(c, "failed") /\ (UNCHANGED unit \/ unit' = FALSE)
  /\ UNCHANGED <<workerVars, main, duty,
                 command, calls, target, overlooked, child, seized, rebound>>

\* A manually spawned daemon may outlive the unit: the rest is lifecycle.Stop.
StopTheRest(c) ==
  /\ cpc[c] = "leaving"
  /\ IF Connected
       THEN /\ command' = [command EXCEPT ![c] = "stop"]
            /\ CGoto(c, FirstPlace("stop"))
       ELSE /\ UNCHANGED command
            /\ CGoto(c, "stopped")
  /\ UNCHANGED <<workerVars, serviceVars, calls, target, overlooked, child, seized, rebound>>

\* The command has returned.
Return(c) ==
  /\ cpc[c] \in {"started", "stopped", "failed"}
  /\ CGoto(c, "idle")
  /\ ClientOnly /\ UNCHANGED <<target, overlooked>>

------------------------------------------------------------------------------
ClientStep(c) ==
  \/ Route(c) \/ FindHealthy(c) \/ TakeStartLock(c) \/ StartLockHeld(c)
  \/ StaleStartLock(c) \/ (\E w \in Workers : Spawn(c, w))
  \/ AwaitHealthy(c) \/ AwaitTimeout(c) \/ ReleaseStart(c)
  \/ FindTarget(c) \/ AskShutdown(c) \/ WatchEndpoint(c) \/ CheckOwnership(c)
  \/ WatchTimeout(c) \/ Clear(c) \/ Return(c)
  \/ FindService(c) \/ StartService(c) \/ AwaitService(c) \/ AwaitServiceTimeout(c)
  \/ StopService(c) \/ ServiceEnds(c) \/ SystemctlFails(c)
  \/ InstallUnit(c) \/ RemoveUnit(c) \/ StopTheRest(c)

\* A daemon started earlier is serving.
Running(w, p) ==
  /\ \A v \in Workers : <<v, w>> \notin Earlier
  /\ pc = [v \in Workers |-> IF v = w THEN "serving" ELSE "unborn"]
  /\ want = [v \in Workers |-> NoPort]
  /\ port = [v \in Workers |-> IF v = w THEN p ELSE NoPort]
  /\ asked = {} /\ holds = {}
  /\ lock = [owner |-> w, stamped |-> TRUE]
  /\ persisted = p
  /\ disc = w
  /\ startLock = NoOne
  /\ crashes = 0
  /\ stolen = {}

\* Nobody has started anything, or a worker serves that was spawned or that systemd
\* has started.
Init ==
  /\ \/ /\ WorkerInit
        /\ unit \in BOOLEAN /\ (unit => Systemd) /\ main = NoOne /\ duty = "none"
     \/ \E w \in Workers, p \in Ports :
          /\ Running(w, p)
          /\ \/ unit = FALSE /\ main = NoOne /\ duty = "none"
             \/ Systemd /\ unit = TRUE /\ main = w /\ duty = "run"
  /\ cpc = [c \in Clients |-> "idle"]
  /\ command = [c \in Clients |-> "start"]
  /\ calls = [c \in Clients |-> 0]
  /\ target = [c \in Clients |-> NoOne]
  /\ child = [c \in Clients |-> NoOne]
  /\ overlooked = {} /\ seized = FALSE /\ rebound = FALSE

Next ==
  \/ \E c \in Clients : ClientStep(c) \/ \E cmd \in Commands : Begin(c, cmd)
  \/ \E w \in Workers : (Supervised(w) \/ Revive(w)) /\ UNCHANGED clientVars

Spec == Init /\ [][Next]_vars

\* Every process that has something to do goes on: the retry loops of clients and
\* workers poll, a drain is bounded by its timeouts, a lock left behind grows old,
\* and systemd restarts what fails after RestartSec.
Fairness ==
  /\ \A c \in Clients : SF_vars(StaleStartLock(c))
  /\ \A c \in Clients : WF_vars(ClientStep(c))
  /\ \A w \in Workers : WF_vars(WorkerStep(w) /\ Supervised(w) /\ UNCHANGED clientVars)
  /\ WF_vars(\E w \in Workers : Revive(w) /\ UNCHANGED clientVars)

FairSpec == Spec /\ Fairness

------------------------------------------------------------------------------
(* Properties.                                                             *)

StartPlaces == {"routing", "starting", "locking", "spawning", "awaiting", "unlocking",
                "givingUp", "svcFinding", "svcStarting", "svcAwaiting", "started"}
StopPlaces == {"stopping", "asking", "watching", "checking", "svcStopping", "svcEnding"}
AfterStopPlaces == StartPlaces \cup {"stopped", "clearing", "installing", "removing", "leaving"}
ClientPlaces == StopPlaces \cup AfterStopPlaces \cup {"idle", "failed"}

\* Every variable of a client, and the files it shares with the workers, stay in
\* their types.
ClientTypeOK ==
  /\ WorkerTypeOK /\ ServiceTypeOK
  /\ cpc \in [Clients -> ClientPlaces]
  /\ command \in [Clients -> AllCommands]
  /\ calls \in [Clients -> 0..MaxCalls]
  /\ target \in [Clients -> Workers \cup {NoOne}]
  /\ child \in [Clients -> Workers \cup {NoOne}]
  /\ overlooked \subseteq Clients /\ seized \in BOOLEAN /\ rebound \in BOOLEAN

\* When the stop part of a command is over, the daemon it told to stop is gone:
\* endpoint closed, resources drained, lock released, be it found through discovery
\* or the service.  Nobody but a thief of the lifetime lock can make it return early; and
\* an uninstall that overlooks a failed stop says nothing of the daemon.
StopMeansGone ==
  stolen = {} =>
    \A c \in Clients \ overlooked :
      (command[c] # "start" /\ cpc[c] \in AfterStopPlaces)
        => target[c] = NoOne \/ Dead(target[c])

\* Starters converge: no two processes act under the startup lock, and spawn a daemon each,
\* unless it was removed as stale while its holder was still waiting.  Removals by path, of
\* starters that return and of workers that drain, never take it from the one after.
OneStarterUnlessSeized == seized \/ \A p, q \in Starters : p = q

\* Without a rebind, whatever clients do, the daemon serves on the durable port.
PortStaysWithoutRebind == rebound \/ DurablePortIsServed

\* One command at a time, no deadline missed: processes may die at any point and
\* no live owner ever loses its lock.
NoTheft == stolen = {}

\* One command at a time: where the unit is installed, the daemon that listens is the
\* one systemd runs, so that its stop and restart reach it; install has stopped what
\* ran before, start never bypasses the service, uninstall stops it first.
ServiceNeverBypassed == unit => \A w \in Workers : Listening(w) => w = main

\* One command at a time: no file left by a process that died keeps a command
\* from returning.
CommandsReturn == \A c \in Clients : cpc[c] # "idle" ~> cpc[c] = "idle"

\* One command at a time: every start, restart, rebind and installation ends with a
\* daemon that answers, right after a stop too, unless a process has died.
StartSucceeds ==
  \A c \in Clients :
    cpc[c] = "routing" ~> ((cpc[c] = "started" /\ Connected) \/ crashes > 0)

------------------------------------------------------------------------------
(* What a comment of the source promises and the code does not keep.         *)

\* server.go:187 "restarts rebind the exact same port so a configured MCP endpoint
\* stays valid ... never a silent move": what is served is what a restart rebinds.
ServedPortIsDurable ==
  \A w \in Workers : pc[w] = "serving" => port[w] = persisted
==============================================================================
