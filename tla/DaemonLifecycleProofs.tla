------------------------- MODULE DaemonLifecycleProofs -------------------------
(***************************************************************************)
(* Proofs about DaemonLifecycle: any number of client processes that run    *)
(* any commands beside any number of workers, with deadlines that pass at  *)
(* any time, foreign programs on the port and processes that die.          *)
(*                                                                         *)
(* A client touches what the workers share in few ways (Effect), so that   *)
(* the lemmas of DaemonOwnershipProofs, which speak of one step of one     *)
(* worker, carry the invariants of the workers over.                       *)
(***************************************************************************)
EXTENDS DaemonLifecycle, DaemonOwnershipProofs

\* Workers stay where they are: at most one is asked to stop, the startup lock changes
\* hands, or a rebind forgets the durable port.
Aside ==
  /\ UNCHANGED <<pc, want, port, holds, lock, disc, crashes, stolen>>
  /\ asked' \subseteq Workers
  /\ startLock' \in Workers \cup Clients \cup {NoOne}
  /\ persisted' = persisted \/ (rebound' /\ persisted' = NoPort)

\* What a step of anybody is for the workers.
Effect ==
  /\ (\E w \in Workers : Moves(w)) \/ Aside
  /\ rebound \in BOOLEAN => (rebound => rebound')

------------------------------------------------------------------------------
(* The inductive invariant.                                                *)

\* The stop part belongs to commands that stop, what follows it depends on which, and
\* only where systemd is there does a command install.
CommandInv ==
  \A c \in Clients :
    /\ cpc[c] \in StopPlaces \cup {"stopped", "clearing", "installing", "removing", "leaving"}
         => command[c] # "start"
    /\ cpc[c] \in {"stopping", "asking", "watching", "checking"} => command[c] # "uninstall"
    /\ cpc[c] = "installing" => command[c] = "install"
    /\ cpc[c] \in StopPlaces \cup {"installing"} /\ command[c] = "install" => Systemd

\* A worker that has served: it owns the daemon, its pid in the lock, or is dead.
Settled(w) == pc[w] \in Owning \ {"stamp"} \/ Dead(w)

\* A worker found to be stopped has served; where a stop part begins, and where the
\* service is gone, there is none or it is dead, but for a failed stop overlooked.
TargetInv ==
  \A c \in Clients :
    /\ cpc[c] \in {"stopping", "svcStopping", "removing", "leaving"} /\ target[c] \in Workers
         => Dead(target[c]) \/ c \in overlooked
    /\ cpc[c] = "asking" => target[c] \in Workers
    /\ target[c] \in Workers => Settled(target[c])

\* The lock of an owner that has stamped it carries its pid.
StampInv ==
  stolen = {} => \A w \in Workers : Owner(w) /\ pc[w] # "stamp" => lock.stamped

\* What is known of the workers; of the port only until a rebind.
WorkersInv ==
  /\ WorkerTypeOK /\ LockInv /\ DiscInv /\ StampInv
  /\ ~rebound => PortInv

ClientInv == ClientTypeOK /\ CommandInv /\ TargetInv

LifecycleInv == ClientInv /\ WorkersInv /\ StopMeansGone

------------------------------------------------------------------------------
\* A step of a client or of a worker, or none.
LEMMA Effects ==
  ASSUME ClientInv, [Next]_vars
  PROVE  Effect
<1> USE DEF ClientInv, ClientTypeOK
<1>1. ASSUME UNCHANGED workerVars, rebound' = rebound PROVE Effect
  BY <1>1 DEF Effect, Aside, WorkerTypeOK, workerVars, processVars, files
<1>2. CASE UNCHANGED vars
  BY <1>1, <1>2 DEF vars, clientVars
<1>3. ASSUME NEW w \in Workers, Supervised(w) \/ Revive(w), UNCHANGED clientVars
      PROVE  Effect
  BY <1>3 DEF Supervised, Revive, LaunchMain, Effect, Moves, clientVars
<1>4. ASSUME NEW c \in Clients, NEW cmd \in Commands, Begin(c, cmd) PROVE Effect
  BY <1>1, <1>4 DEF Begin, Aim
<1>5. ASSUME NEW c \in Clients, ClientStep(c) PROVE Effect
  <2>1. CASE Route(c) \/ FindHealthy(c) \/ StartLockHeld(c) \/ AwaitHealthy(c)
             \/ AwaitTimeout(c) \/ FindTarget(c) \/ WatchEndpoint(c) \/ CheckOwnership(c)
             \/ WatchTimeout(c) \/ Return(c) \/ FindService(c) \/ AwaitService(c)
             \/ AwaitServiceTimeout(c) \/ ServiceEnds(c) \/ SystemctlFails(c)
             \/ InstallUnit(c) \/ RemoveUnit(c) \/ StopTheRest(c)
    BY <1>1, <2>1 DEF Route, FindHealthy, StartLockHeld, AwaitHealthy, AwaitTimeout,
       FindTarget, WatchEndpoint, CheckOwnership, WatchTimeout, Return, FindService,
       AwaitService, AwaitServiceTimeout, ServiceEnds, SystemctlFails, InstallUnit,
       RemoveUnit, StopTheRest, ClientOnly
  <2>2. CASE TakeStartLock(c) \/ StaleStartLock(c) \/ ReleaseStart(c)
    BY <2>2 DEF TakeStartLock, StaleStartLock, ReleaseStart, Effect, Aside, processVars,
       WorkerTypeOK
  <2>3. CASE \E w \in Workers : Spawn(c, w)
    BY <2>3 DEF Spawn, Effect, Moves
  <2>4. CASE AskShutdown(c)
    <3>1. target[c] \in Workers
      BY <2>4 DEF AskShutdown, TargetInv
    <3> QED
      BY <2>4, <3>1 DEF AskShutdown, AskToStop, Effect, Aside, files, WorkerTypeOK
  <2>5. CASE Clear(c)
    BY <2>5 DEF Clear, Effect, Aside, processVars, WorkerTypeOK
  <2>6. CASE StartService(c)
    BY <1>1, <2>6 DEF StartService, LaunchMain, Effect, Moves
  <2>7. CASE StopService(c)
    <3>1. CASE ~Active
      BY <1>1, <2>7, <3>1 DEF StopService, Aim, StopMain
    <3>2. CASE Active
      <4>1. main \in Workers
        BY <3>2 DEF Active, ServiceTypeOK
      <4>2. CASE pc[main] \in Handling
        BY <2>7, <3>2, <4>1, <4>2 DEF StopService, Aim, StopMain, Terminate, AskToStop, Effect,
           Aside, files, WorkerTypeOK
      <4>3. CASE pc[main] \notin Handling
        BY <2>7, <3>2, <4>1, <4>3 DEF StopService, Aim, StopMain, Terminate, Effect, Moves
      <4> QED
        BY <4>2, <4>3
    <3> QED
      BY <3>1, <3>2
  <2> QED
    BY <1>5, <2>1, <2>2, <2>3, <2>4, <2>5, <2>6, <2>7 DEF ClientStep
<1> QED
  BY <1>2, <1>3, <1>4, <1>5 DEF Next

\* A history that is empty after a step was empty before; the dead stay dead, and
\* whoever has served owns the daemon until it dies.
LEMMA Settling ==
  ASSUME WorkerTypeOK, Effect
  PROVE  /\ stolen \subseteq stolen'
         /\ \A w \in Workers : Dead(w) => Dead(w)'
         /\ \A w \in Workers : Settled(w) => Settled(w)'
<1>1. CASE Aside
  BY <1>1 DEF Aside, Dead, Settled
<1>2. ASSUME NEW w \in Workers, Moves(w)
      PROVE  /\ stolen \subseteq stolen'
             /\ \A v \in Workers : Dead(v) => Dead(v)'
             /\ \A v \in Workers : Settled(v) => Settled(v)'
  <2>1. stolen \subseteq stolen'
    BY <1>2, StolenGrows DEF Moves
  <2>2. \A v \in Workers \ {w} : pc'[v] = pc[v]
    BY <1>2 DEF Moves, Launch, Signal, WorkerStep, WorkerFault, GiveUp, ServeFails, Crash,
       Killed, Die,
       Guard, CreateLock, StampLock, ReadLock, UnlinkLock, LoadPort, Listen, PortBusy,
       PersistPort, Announce, StartServing, Shutdown, HoldStartLock, Undiscover, Drain,
       ReleaseStartLock, Unannounce, ReleaseLock, Goto, Unborn, files, WorkerTypeOK
  <2>3. Dead(w) => Dead(w)'
    BY <1>2 DEF Moves, Launch, Signal, WorkerStep, WorkerFault, GiveUp, ServeFails, Crash,
       Killed, Die,
       Guard, CreateLock, StampLock, ReadLock, UnlinkLock, LoadPort, Listen, PortBusy,
       PersistPort, Announce, StartServing, Shutdown, HoldStartLock, Undiscover, Drain,
       ReleaseStartLock, Unannounce, ReleaseLock, Goto, Unborn, files, WorkerTypeOK, Dead,
       Alive
  <2>4. pc[w] \in Owning \ {"stamp"} => Settled(w)'
    BY <1>2 DEF Moves, Launch, Signal, WorkerStep, WorkerFault, GiveUp, ServeFails, Crash,
       Killed, Die,
       Guard, CreateLock, StampLock, ReadLock, UnlinkLock, LoadPort, Listen, PortBusy,
       PersistPort, Announce, StartServing, Shutdown, HoldStartLock, Undiscover, Drain,
       ReleaseStartLock, Unannounce, ReleaseLock, Goto, Unborn, files, WorkerTypeOK, Dead,
       Settled, Owning
  <2> QED
    BY <2>1, <2>2, <2>3, <2>4 DEF Dead, Settled
<1> QED
  BY <1>1, <1>2 DEF Effect

\* What is known of the workers survives everybody's steps.
LEMMA WorkersSteps ==
  ASSUME WorkersInv, rebound \in BOOLEAN, Effect
  PROVE  WorkersInv'
<1>1. CASE Aside
  BY <1>1, PortsAssumption
  DEF Effect, Aside, WorkersInv, WorkerTypeOK, LockInv, DiscInv, StampInv, PortInv, Owner
<1>2. ASSUME NEW w \in Workers, Moves(w) PROVE WorkersInv'
  <2>1. WorkerTypeOK'
    BY <1>2, WorkerTypes DEF WorkersInv, Moves
  <2>2. LockInv'
    BY <1>2, <2>1, LockSteps DEF WorkersInv, Moves
  <2>3. DiscInv'
    BY <1>2, <2>1, DiscSteps DEF WorkersInv, Moves
  <2>4. ~rebound' => PortInv'
    BY <1>2, <2>1, PortSteps DEF WorkersInv, Moves, OwnershipInv, Effect
  <2>5. StampInv'
    <3> SUFFICES ASSUME stolen' = {} PROVE StampInv'
      BY DEF StampInv
    <3>1. stolen = {}
      BY Settling DEF WorkersInv
    <3>2. LockInv /\ StampInv /\ WorkerTypeOK
      BY DEF WorkersInv
    <3> USE <3>1, <3>2, ProcessesAssumption
    <3>3. CASE Launch(w) \/ Signal(w)
      BY <3>3 DEF Launch, Signal, Unborn, Goto, files, LockInv, StampInv, WorkerTypeOK,
         Owner, Owning
    <3>4. CASE WorkerFault(w) \/ Killed(w)
      BY <3>4 DEF WorkerFault, GiveUp, ServeFails, Crash, Killed, Die, Goto, files, LockInv, StampInv,
         WorkerTypeOK, Owner, Owning
    <3>5. CASE CreateLock(w)
      BY <3>5 DEF CreateLock, NoLock, Goto, LockInv, StampInv, WorkerTypeOK, Owner, Owning
    <3>6. CASE StampLock(w)
      BY <3>6 DEF StampLock, Goto, LockInv, StampInv, WorkerTypeOK, Owner, Owning
    <3>7. CASE UnlinkLock(w) \/ ReleaseLock(w)
      BY <3>7 DEF UnlinkLock, ReleaseLock, RemoveLock, Goto, LockInv, StampInv,
         WorkerTypeOK, Owner, Owning
    <3>8. CASE WorkerStep(w) /\ ~CreateLock(w) /\ ~StampLock(w)
               /\ ~UnlinkLock(w) /\ ~ReleaseLock(w)
      BY <3>8 DEF WorkerStep, Guard, ReadLock, LoadPort, Listen, PortBusy, PersistPort,
         Announce, StartServing, Shutdown, HoldStartLock, Undiscover, Drain,
         ReleaseStartLock, Unannounce, Goto, files, LockInv, StampInv, WorkerTypeOK,
         Owner, Owning
    <3> QED
      BY <1>2, <3>3, <3>4, <3>5, <3>6, <3>7, <3>8 DEF Moves
  <2> QED
    BY <2>1, <2>2, <2>3, <2>4, <2>5 DEF WorkersInv
<1> QED
  BY <1>1, <1>2 DEF Effect

------------------------------------------------------------------------------
\* What a client does to its own variables.
LEMMA AfterStops ==
  ASSUME NEW c \in Clients, command[c] \in AllCommands \ {"start", "uninstall"}
  PROVE  /\ AfterStop(c) \in {"stopped", "routing", "clearing", "installing"}
         /\ AfterStop(c) = "installing" => command[c] = "install"
BY DEF AfterStop, AllCommands

\* A command begins where it belongs.
LEMMA FirstPlaces ==
  ASSUME NEW cmd \in AllCommands
  PROVE  /\ FirstPlace(cmd) \in {"routing", "svcStopping", "stopping", "stopped", "failed"}
         /\ FirstPlace(cmd) \in {"svcStopping", "stopping", "stopped"} => cmd # "start"
         /\ FirstPlace(cmd) = "stopping" => cmd # "uninstall"
         /\ FirstPlace(cmd) \in {"svcStopping", "stopping"} /\ cmd = "install" => Systemd
BY DEF FirstPlace, AllCommands

\* The service manager stays in its types, and without systemd nothing is installed.
LEMMA ServiceTypes ==
  ASSUME ClientInv, [Next]_vars
  PROVE  ServiceTypeOK'
<1> USE ProcessesAssumption DEF ClientInv, ClientTypeOK, ServiceTypeOK, Duties
<1>1. CASE UNCHANGED serviceVars
  BY <1>1 DEF serviceVars
<1>2. ASSUME NEW w \in Workers, Supervised(w) \/ Revive(w) PROVE ServiceTypeOK'
  BY <1>2 DEF Supervised, Revive, LaunchMain
<1>3. ASSUME NEW c \in Clients, ClientStep(c) PROVE ServiceTypeOK'
  <2>1. CASE StartService(c)
    BY <1>1, <2>1 DEF StartService, LaunchMain
  <2>2. CASE StopService(c)
    BY <2>2 DEF StopService, Aim, StopMain
  <2>3. CASE InstallUnit(c) \/ RemoveUnit(c)
    <3>1. cpc[c] = "installing" => Systemd
      BY DEF CommandInv
    <3>2. UNCHANGED <<main, duty>>
      BY <2>3 DEF InstallUnit, RemoveUnit
    <3>3. CASE unit' = unit
      BY <3>2, <3>3
    <3>4. CASE unit' = TRUE /\ cpc[c] = "installing"
      BY <3>1, <3>2, <3>4
    <3>5. CASE unit' = FALSE
      BY <3>2, <3>5
    <3>6. unit' = unit \/ (unit' = TRUE /\ cpc[c] = "installing") \/ unit' = FALSE
      BY <2>3 DEF InstallUnit, RemoveUnit
    <3> QED
      BY <3>3, <3>4, <3>5, <3>6
  <2>4. CASE ~StartService(c) /\ ~StopService(c) /\ ~InstallUnit(c) /\ ~RemoveUnit(c)
    BY <1>1, <1>3, <2>4 DEF ClientStep, Route, FindHealthy, TakeStartLock, StartLockHeld,
       StaleStartLock, Spawn, AwaitHealthy, AwaitTimeout, ReleaseStart, FindTarget,
       AskShutdown, WatchEndpoint, CheckOwnership, WatchTimeout, Clear, Return, FindService,
       AwaitService, AwaitServiceTimeout, ServiceEnds, SystemctlFails, StopTheRest, ClientOnly
  <2> QED
    BY <2>1, <2>2, <2>3, <2>4
<1>4. ASSUME NEW c \in Clients, NEW cmd \in Commands, Begin(c, cmd) PROVE ServiceTypeOK'
  BY <1>1, <1>4 DEF Begin, Aim
<1> QED
  BY <1>1, <1>2, <1>3, <1>4 DEF Next, vars

\* The clients stay in their types, and a target has served.
LEMMA ClientSteps ==
  ASSUME LifecycleInv, [Next]_vars
  PROVE  ClientInv'
<1> USE DEF LifecycleInv, ClientInv, CGoto
<1>1. Effect
  BY Effects
<1>2. /\ WorkerTypeOK' /\ ServiceTypeOK'
      /\ \A w \in Workers : Settled(w) => Settled(w)'
      /\ \A w \in Workers : Dead(w) => Dead(w)'
  BY <1>1, WorkersSteps, Settling, ServiceTypes DEF WorkersInv, ClientTypeOK
<1>3. CASE UNCHANGED clientVars
  BY <1>2, <1>3 DEF clientVars, ClientTypeOK, CommandInv, TargetInv
<1>4. ASSUME NEW c \in Clients, NEW cmd \in Commands, Begin(c, cmd) PROVE ClientInv'
  <2>1. cmd \in AllCommands
    BY CommandsAssumption
  <2>2. calls[c] + 1 \in 0..MaxCalls
    BY <1>4, CommandsAssumption DEF Begin, Aim, ClientTypeOK
  <2>3. ClientTypeOK'
    BY <1>2, <1>4, <2>1, <2>2, FirstPlaces
    DEF Begin, Aim, ClientTypeOK, ClientPlaces, StartPlaces, StopPlaces, AfterStopPlaces
  <2>4. CommandInv'
    BY <1>4, <2>1, FirstPlaces DEF Begin, Aim, ClientTypeOK, CommandInv, StopPlaces
  <2>5. TargetInv'
    <3>1. /\ target' = [target EXCEPT ![c] = NoOne] /\ overlooked' = overlooked \ {c} /\ pc' = pc
          /\ cpc' = [cpc EXCEPT ![c] = FirstPlace(cmd)]
      BY <1>4 DEF Begin, Aim, workerVars, processVars
    <3>2. FirstPlace(cmd) # "asking"
      BY <2>1, FirstPlaces
    <3> QED
      BY <3>1, <3>2, ProcessesAssumption DEF ClientTypeOK, TargetInv, Settled, Dead
  <2> QED
    BY <2>3, <2>4, <2>5
<1>5. ASSUME NEW c \in Clients, ClientStep(c) PROVE ClientInv'
  <2> USE <1>2, ProcessesAssumption
          DEF ClientTypeOK, CommandInv, TargetInv, ClientPlaces, StartPlaces, StopPlaces,
              AfterStopPlaces
  <2>1. CASE Route(c) \/ FindHealthy(c)
    BY <2>1 DEF Route, FindHealthy, ClientOnly
  <2>2. CASE TakeStartLock(c) \/ StaleStartLock(c)
    <3>1. seized' \in BOOLEAN
      BY <2>2, Zenon DEF TakeStartLock, StaleStartLock
    <3> QED
      BY <2>2, <3>1 DEF TakeStartLock, StaleStartLock
  <2>3. CASE StartLockHeld(c)
    BY <2>3 DEF StartLockHeld, ClientOnly
  <2>4. ASSUME NEW w \in Workers, Spawn(c, w) PROVE ClientInv'
    BY <2>4 DEF Spawn
  <2>5. CASE AwaitHealthy(c) \/ AwaitTimeout(c)
    BY <2>5 DEF AwaitHealthy, AwaitTimeout, ClientOnly
  <2>6. CASE ReleaseStart(c)
    BY <2>6 DEF ReleaseStart
  <2>7. CASE FindTarget(c)
    <3>1. CASE Connected
      <4>1. disc \in Workers /\ Settled(disc)
        BY <3>1 DEF Connected, Settled, Owning, WorkerTypeOK
      <4>2. /\ cpc[c] = "stopping" /\ UNCHANGED <<pc, command, calls, child, seized, rebound>>
            /\ cpc' = [cpc EXCEPT ![c] = "asking"]
            /\ target' = [target EXCEPT ![c] = disc] /\ overlooked' = overlooked \ {c}
        BY <2>7, <3>1 DEF FindTarget, Aim, ClientOnly, workerVars, processVars
      <4>3. ClientTypeOK' /\ CommandInv'
        BY <4>1, <4>2
      <4>4. TargetInv'
        BY <4>1, <4>2 DEF Settled, Dead
      <4> QED
        BY <4>3, <4>4
    <3>2. CASE ~Connected
      BY <2>7, <3>2, AfterStops DEF FindTarget, Aim, ClientOnly
    <3> QED
      BY <3>1, <3>2
  <2>8. CASE AskShutdown(c)
    BY <2>8 DEF AskShutdown
  <2>9. CASE WatchEndpoint(c) \/ WatchTimeout(c)
    BY <2>9 DEF WatchEndpoint, WatchTimeout, ClientOnly
  <2>10. CASE CheckOwnership(c)
    BY <2>10, AfterStops DEF CheckOwnership, ClientOnly
  <2>11. CASE Clear(c)
    BY <2>11 DEF Clear
  <2>12. CASE Return(c)
    BY <2>12 DEF Return, ClientOnly
  <2>13. CASE FindService(c) \/ AwaitService(c) \/ AwaitServiceTimeout(c)
    BY <2>13 DEF FindService, AwaitService, AwaitServiceTimeout, ClientOnly
  <2>14. CASE StartService(c)
    BY <2>14 DEF StartService
  <2>15. CASE StopService(c)
    <3>1. /\ cpc[c] = "svcStopping" /\ UNCHANGED <<command, calls, child, seized, rebound>>
          /\ cpc' = [cpc EXCEPT ![c] = "svcEnding"]
          /\ target' = [target EXCEPT ![c] = IF Active THEN main ELSE NoOne]
          /\ overlooked' = overlooked \ {c}
      BY <2>15 DEF StopService, Aim
    <3>2. Active => main \in Workers
      BY DEF Active, ServiceTypeOK
    <3>3. ClientTypeOK' /\ CommandInv'
      BY <3>1, <3>2
    <3>4. Active => Settled(main)'
      <4> SUFFICES ASSUME Active PROVE Settled(main)'
        OBVIOUS
      <4>1. main' = main
        BY <2>15 DEF StopService, Aim, StopMain
      <4>2. CASE pc[main] \in Handling
        <5>1. pc' = pc
          BY <2>15, <4>2 DEF StopService, Aim, StopMain, Terminate
        <5> QED
          BY <4>1, <4>2, <5>1 DEF Settled, Handling, Owning
      <4>3. CASE pc[main] \notin Handling
        <5>1. pc' = [pc EXCEPT ![main] = "crashed"]
          BY <2>15, <4>3 DEF StopService, Aim, StopMain, Terminate, Killed, Die, Goto
        <5> QED
          BY <3>2, <4>1, <5>1 DEF Settled, Dead, WorkerTypeOK
      <4> QED
        BY <4>2, <4>3
    <3>5. TargetInv'
      <4>1. main' = main
        BY <2>15 DEF StopService, Aim, StopMain
      <4> QED
        BY <3>1, <3>2, <3>4, <4>1 DEF Settled, Dead
    <3> QED
      BY <3>3, <3>5
  <2>16. CASE ServiceEnds(c)
    BY <2>16 DEF ServiceEnds, ClientOnly
  <2>17. CASE SystemctlFails(c)
    BY <2>17 DEF SystemctlFails, ClientOnly
  <2>18. CASE InstallUnit(c) \/ RemoveUnit(c)
    BY <2>18 DEF InstallUnit, RemoveUnit
  <2>19. CASE StopTheRest(c)
    <3>1. FirstPlace("stop") \in {"svcStopping", "stopping"} /\ "stop" \in AllCommands
      BY DEF FirstPlace, AllCommands
    <3>2. /\ cpc[c] = "leaving" /\ UNCHANGED <<pc, calls, target, overlooked, child, seized, rebound>>
          /\ \/ /\ command' = [command EXCEPT ![c] = "stop"]
                /\ cpc' = [cpc EXCEPT ![c] = FirstPlace("stop")]
             \/ command' = command /\ cpc' = [cpc EXCEPT ![c] = "stopped"]
      BY <2>19 DEF StopTheRest, workerVars, processVars
    <3>3. ClientTypeOK' /\ CommandInv'
      BY <3>1, <3>2
    <3>4. TargetInv'
      BY <3>1, <3>2 DEF Settled, Dead
    <3> QED
      BY <3>3, <3>4
  <2> QED
    BY <1>5, <2>1, <2>2, <2>3, <2>4, <2>5, <2>6, <2>7, <2>8, <2>9, <2>10, <2>11, <2>12,
       <2>13, <2>14, <2>15, <2>16, <2>17, <2>18, <2>19 DEF ClientStep
<1>6. CASE \E w \in Workers : (Supervised(w) \/ Revive(w)) /\ UNCHANGED clientVars
  BY <1>3, <1>6
<1> QED
  BY <1>3, <1>4, <1>5, <1>6 DEF Next, vars

\* The daemon a stop has found is gone when its wait ends: nobody else can hold the
\* lock of a live owner, so a free lock means that the owner is dead.
LEMMA FreeMeansDead ==
  ASSUME WorkersInv, stolen = {}, OwnershipFree, NEW w \in Workers, Settled(w)
  PROVE  Dead(w)
<1>1. CASE pc[w] \in Owning \ {"stamp"}
  BY <1>1 DEF WorkersInv, LockInv, StampInv, OwnershipFree, Unowned, Owner
<1> QED
  BY <1>1 DEF Settled

LEMMA StopSteps ==
  ASSUME LifecycleInv, [Next]_vars
  PROVE  StopMeansGone'
<1> USE DEF LifecycleInv, ClientInv, CGoto
<1> SUFFICES ASSUME stolen' = {} PROVE StopMeansGone'
  BY DEF StopMeansGone
<1>1. Effect
  BY Effects
<1>2. stolen = {} /\ \A w \in Workers : Dead(w) => Dead(w)'
  BY <1>1, Settling DEF WorkersInv
<1>3. CASE UNCHANGED clientVars
  BY <1>2, <1>3 DEF clientVars, ClientTypeOK, StopMeansGone
<1> USE <1>2, ProcessesAssumption
        DEF ClientTypeOK, StopMeansGone, StartPlaces, AfterStopPlaces
<1>4. ASSUME NEW c \in Clients, NEW cmd \in Commands, Begin(c, cmd) PROVE StopMeansGone'
  BY <1>4 DEF Begin, Aim
<1>5. ASSUME NEW c \in Clients, ClientStep(c) PROVE StopMeansGone'
  <2>1. CASE Route(c) \/ FindHealthy(c) \/ StartLockHeld(c) \/ AwaitHealthy(c)
             \/ AwaitTimeout(c) \/ WatchEndpoint(c) \/ WatchTimeout(c) \/ Return(c)
             \/ FindService(c) \/ AwaitService(c) \/ AwaitServiceTimeout(c)
    BY <2>1 DEF Route, FindHealthy, StartLockHeld, AwaitHealthy, AwaitTimeout,
       WatchEndpoint, WatchTimeout, Return, FindService, AwaitService, AwaitServiceTimeout,
       ClientOnly
  <2>2. CASE TakeStartLock(c) \/ StaleStartLock(c) \/ ReleaseStart(c) \/ Clear(c)
    BY <2>2 DEF TakeStartLock, StaleStartLock, ReleaseStart, Clear
  <2>3. ASSUME NEW w \in Workers, Spawn(c, w) PROVE StopMeansGone'
    BY <2>3 DEF Spawn
  <2>4. CASE FindTarget(c)
    <3>1. CASE Connected
      BY <2>4, <3>1 DEF FindTarget, Aim, ClientOnly
    <3>2. CASE ~Connected
      <4>1. target[c] = NoOne \/ Dead(target[c]) \/ c \in overlooked
        BY <2>4 DEF FindTarget, Aim, TargetInv
      <4> QED
        BY <2>4, <3>2, <4>1 DEF FindTarget, Aim, ClientOnly
    <3> QED
      BY <3>1, <3>2
  <2>5. CASE AskShutdown(c)
    BY <2>5 DEF AskShutdown
  <2>6. CASE CheckOwnership(c)
    <3>1. target[c] \in Workers => Settled(target[c])
      BY DEF TargetInv
    <3>2. OwnershipFree /\ target[c] \in Workers => Dead(target[c])
      BY <3>1, FreeMeansDead
    <3> QED
      BY <2>6, <3>2 DEF CheckOwnership, ClientOnly
  <2>7. CASE StartService(c)
    BY <2>7 DEF StartService
  <2>8. CASE StopService(c)
    BY <2>8 DEF StopService, Aim
  <2>9. CASE ServiceEnds(c) \/ SystemctlFails(c)
    BY <2>9 DEF ServiceEnds, SystemctlFails, ClientOnly
  <2>10. CASE InstallUnit(c) \/ RemoveUnit(c)
    BY <2>10 DEF InstallUnit, RemoveUnit
  <2>11. CASE StopTheRest(c)
    BY <2>11 DEF StopTheRest, FirstPlace, TargetInv
  <2> QED
    BY <1>5, <2>1, <2>2, <2>3, <2>4, <2>5, <2>6, <2>7, <2>8, <2>9, <2>10, <2>11
    DEF ClientStep
<1>6. CASE \E w \in Workers : (Supervised(w) \/ Revive(w)) /\ UNCHANGED clientVars
  BY <1>3, <1>6
<1> QED
  BY <1>3, <1>4, <1>5, <1>6 DEF Next, vars

------------------------------------------------------------------------------
\* The invariant holds initially, with no daemon or with one that serves.
LEMMA LifecycleStarts == Init => LifecycleInv
<1> SUFFICES ASSUME Init PROVE LifecycleInv
  OBVIOUS
<1> USE ProcessesAssumption, PortsAssumption DEF Init
<1>1. WorkerTypeOK /\ LockInv /\ DiscInv /\ StampInv /\ PortInv /\ stolen = {}
  <2>1. CASE WorkerInit
    BY <2>1, WorkerTypesInit
    DEF WorkerInit, LockInv, DiscInv, StampInv, PortInv, Owner, Owning
  <2>2. ASSUME NEW w \in Workers, NEW p \in Ports, Running(w, p)
        PROVE  WorkerTypeOK /\ LockInv /\ DiscInv /\ StampInv /\ PortInv /\ stolen = {}
    <3>1. WorkerTypeOK
      BY <2>2, OptionsAssumption DEF Running, WorkerTypeOK, Places, Owning
    <3>2. LockInv /\ DiscInv /\ StampInv /\ PortInv /\ stolen = {}
      BY <2>2 DEF Running, LockInv, DiscInv, StampInv, PortInv, Owner, Owning
    <3> QED
      BY <3>1, <3>2
  <2> QED
    BY <2>1, <2>2
<1>2. ClientTypeOK
  <2>1. 0 \in 0..MaxCalls /\ "start" \in AllCommands
    BY CommandsAssumption DEF AllCommands
  <2>2. ServiceTypeOK
    BY SystemdAssumption DEF ServiceTypeOK, Duties
  <2> QED
    BY <1>1, <2>1, <2>2 DEF ClientTypeOK, ClientPlaces
<1>3. CommandInv /\ TargetInv /\ StopMeansGone
  BY DEF CommandInv, TargetInv, StopMeansGone, StartPlaces, StopPlaces, AfterStopPlaces
<1> QED
  BY <1>1, <1>2, <1>3 DEF LifecycleInv, ClientInv, WorkersInv

\* The invariant holds in every reachable state.
THEOREM LifecycleInvariance == Spec => []LifecycleInv
<1>1. LifecycleInv /\ [Next]_vars => LifecycleInv'
  <2> SUFFICES ASSUME LifecycleInv, [Next]_vars PROVE LifecycleInv'
    OBVIOUS
  <2>1. WorkersInv'
    BY Effects, WorkersSteps DEF LifecycleInv, ClientInv, ClientTypeOK
  <2> QED
    BY <2>1, ClientSteps, StopSteps DEF LifecycleInv
<1> QED
  BY <1>1, LifecycleStarts, PTL DEF Spec

\* Whatever clients and workers do, their variables and files stay in their types.
THEOREM ClientTypeCorrect == Spec => []ClientTypeOK
<1>1. LifecycleInv => ClientTypeOK
  BY DEF LifecycleInv, ClientInv
<1> QED
  BY <1>1, LifecycleInvariance, PTL

\* When stop, restart or rebind is over with stopping, the daemon it found is dead,
\* unless some live owner has lost its lock: with any number of clients and commands
\* at once, and wherever their deadlines pass.
THEOREM StopIsFinal == Spec => []StopMeansGone
<1>1. LifecycleInv => StopMeansGone
  BY DEF LifecycleInv
<1> QED
  BY <1>1, LifecycleInvariance, PTL

\* The port a daemon serves on is the durable one until somebody rebinds.
THEOREM PortStays == Spec => []PortStaysWithoutRebind
<1>1. LifecycleInv => PortStaysWithoutRebind
  BY DEF LifecycleInv, ClientInv, ClientTypeOK, WorkersInv, PortInv, PortStaysWithoutRebind,
     DurablePortIsServed
<1> QED
  BY <1>1, LifecycleInvariance, PTL
------------------------------------------------------------------------------
(* The startup lock.                                                       *)

\* Whoever acts under the startup lock is the one that the file names; so a removal by path
\* removes the remover's own file.
StarterInv == seized \/ \A p \in Starters : startLock = p

\* A step of a worker: it takes a free lock, gives back the one it holds, or dies.
LEMMA WorkerStarters ==
  ASSUME StarterInv, NEW w \in Workers,
         WorkerStep(w) \/ WorkerFault(w) \/ Launch(w),
         UNCHANGED <<cpc, seized>>, WorkerTypeOK
  PROVE  StarterInv'
<1> SUFFICES ASSUME ~seized PROVE \A p \in Starters' : startLock' = p
  BY DEF StarterInv
<1> USE DEF StarterInv, Starters, Dead, Goto, WorkerTypeOK
<1>1. CASE HoldStartLock(w)
  <2>1. CASE startLock = NoOne
    <3>1. Starters = {}
      BY <2>1, ProcessesAssumption
    <3> QED
      BY <1>1, <2>1, <3>1 DEF HoldStartLock
  <2>2. CASE startLock # NoOne
    BY <1>1, <2>2 DEF HoldStartLock
  <2> QED
    BY <2>1, <2>2
<1>2. CASE ReleaseStartLock(w)
  <2>1. CASE w \in holds
    <3>1. startLock = w /\ Starters \subseteq {w}
      BY <1>2, <2>1 DEF ReleaseStartLock
    <3>2. w \notin Clients /\ holds' = holds \ {w}
      BY <1>2, ProcessesAssumption DEF ReleaseStartLock
    <3> QED
      BY <1>2, <3>1, <3>2 DEF ReleaseStartLock
  <2>2. CASE w \notin holds
    BY <1>2, <2>2 DEF ReleaseStartLock
  <2> QED
    BY <2>1, <2>2
<1>3. CASE ~HoldStartLock(w) /\ ~ReleaseStartLock(w)
  <2>1. startLock' = startLock /\ holds' = holds
    BY <1>3 DEF WorkerStep, WorkerFault, Guard, CreateLock, StampLock, ReadLock, UnlinkLock,
       LoadPort, Listen, PortBusy, PersistPort, Announce, StartServing, Shutdown, Undiscover,
       Drain, Unannounce, ReleaseLock, GiveUp, ServeFails, Crash, Die, Launch, files
  <2>2. \A v \in Workers : Dead(v) => Dead(v)'
    BY <1>3 DEF WorkerStep, WorkerFault, Guard, CreateLock, StampLock, ReadLock, UnlinkLock,
       LoadPort, Listen, PortBusy, PersistPort, Announce, StartServing, Shutdown, Undiscover,
       Drain, Unannounce, ReleaseLock, GiveUp, ServeFails, Crash, Die, Launch, Alive,
       Unborn
  <2> QED
    BY <2>1, <2>2
<1> QED
  BY <1>1, <1>2, <1>3

\* A step of a client: it takes a free lock, removes its own or, as stale, that of a process
\* that has died, or else the history says that a holder was robbed.
LEMMA ClientStarters ==
  ASSUME StarterInv, LifecycleInv, NEW c \in Clients,
         ClientStep(c) \/ \E cmd \in Commands : Begin(c, cmd)
  PROVE  StarterInv'
<1> SUFFICES ASSUME ~seized' PROVE \A p \in Starters' : startLock' = p
  BY DEF StarterInv
<1>0. ~seized
  BY Zenon DEF ClientStep, Route, FindHealthy, TakeStartLock, StartLockHeld,
     StaleStartLock, Spawn, AwaitHealthy, AwaitTimeout, ReleaseStart, FindTarget,
     AskShutdown, WatchEndpoint, CheckOwnership, WatchTimeout, Clear, Return, FindService,
     StartService, AwaitService, AwaitServiceTimeout, StopService, ServiceEnds,
     SystemctlFails, InstallUnit, RemoveUnit, StopTheRest, Begin, ClientOnly
<1>1. \A v \in Workers : Dead(v) => Dead(v)'
  <2>1. [Next]_vars
    BY DEF Next
  <2> QED
    BY <2>1, Effects, Settling DEF LifecycleInv, WorkersInv
<1> USE <1>0, ProcessesAssumption
        DEF LifecycleInv, ClientInv, StarterInv, CGoto, ClientTypeOK, WorkerTypeOK
<1>2. CASE TakeStartLock(c)
  <2>1. Starters = {}
    BY <1>2 DEF TakeStartLock, Starters
  <2> QED
    BY <1>2, <2>1 DEF TakeStartLock, processVars, Starters, Dead
<1>3. CASE StaleStartLock(c)
  <2>1. startLock \notin Starters
    BY <1>3, Zenon DEF StaleStartLock
  <2>2. Starters = {}
    BY <2>1
  <2>3. Starters' \subseteq Starters
    BY <1>3 DEF StaleStartLock, processVars, Starters, Spawning, Dead
  <2> QED
    BY <2>2, <2>3
<1>4. CASE ReleaseStart(c)
  <2>1. c \in Starters
    BY <1>4 DEF ReleaseStart, Spawning, Starters
  <2> QED
    BY <1>4, <2>1 DEF ReleaseStart, processVars, Spawning, Starters, Dead
<1>5. CASE ~TakeStartLock(c) /\ ~StaleStartLock(c) /\ ~ReleaseStart(c)
  <2>1. startLock' = startLock /\ holds' = holds
    BY <1>5 DEF ClientStep, Route, FindHealthy, StartLockHeld, Spawn, AwaitHealthy,
       AwaitTimeout, FindTarget, AskShutdown, WatchEndpoint, CheckOwnership, WatchTimeout,
       Clear, Return, FindService, StartService, AwaitService, AwaitServiceTimeout,
       StopService, ServiceEnds, SystemctlFails, InstallUnit, RemoveUnit, StopTheRest,
       Begin, ClientOnly, StopMain, Terminate, Killed, Die, LaunchMain, Launch, workerVars,
       processVars, files
  <2>2. \A d \in Clients : cpc'[d] \in Spawning => cpc[d] \in Spawning
    <3>1. ASSUME NEW cmd \in Commands, Begin(c, cmd)
          PROVE  \A d \in Clients : cpc'[d] \in Spawning => cpc[d] \in Spawning
      <4>1. FirstPlace(cmd) \notin Spawning
        BY CommandsAssumption, FirstPlaces DEF Spawning
      <4> QED
        BY <3>1, <4>1 DEF Begin
    <3>2. FindTarget(c) \/ CheckOwnership(c) => AfterStop(c) \notin Spawning
      BY AfterStops DEF FindTarget, CheckOwnership, CommandInv, StopPlaces, Spawning
    <3>3. CASE StopTheRest(c)
      BY <3>3 DEF StopTheRest, FirstPlace, Spawning
    <3>4. CASE FindTarget(c) \/ CheckOwnership(c)
      BY <3>2, <3>4 DEF FindTarget, CheckOwnership, Spawning
    <3> QED
      BY <1>5, <3>1, <3>3, <3>4
      DEF ClientStep, Route, FindHealthy, StartLockHeld, Spawn, AwaitHealthy,
         AwaitTimeout, AskShutdown, WatchEndpoint, WatchTimeout, Clear, Return, FindService,
         StartService, AwaitService, AwaitServiceTimeout, StopService, ServiceEnds,
         SystemctlFails, InstallUnit, RemoveUnit, Spawning
  <2> QED
    BY <1>1, <2>1, <2>2 DEF Starters
<1> QED
  BY <1>2, <1>3, <1>4, <1>5

\* However many clients start, restart, rebind and install at once, and however many workers
\* drain beside them, one process at a time acts under the startup lock unless it was taken
\* for stale while its holder waited.
THEOREM StartersConverge == Spec => []OneStarterUnlessSeized
<1>1. Init => StarterInv
  <2> SUFFICES ASSUME Init PROVE Starters = {}
    BY DEF StarterInv
  <2>1. holds = {}
    BY DEF Init, WorkerInit, Running
  <2> QED
    BY <2>1 DEF Init, Starters, Spawning
<1>2. StarterInv /\ LifecycleInv /\ [Next]_vars => StarterInv'
  <2> SUFFICES ASSUME StarterInv, LifecycleInv, [Next]_vars PROVE StarterInv'
    OBVIOUS
  <2>1. ASSUME NEW c \in Clients, ClientStep(c) \/ \E cmd \in Commands : Begin(c, cmd)
        PROVE  StarterInv'
    BY <2>1, ClientStarters
  <2>2. ASSUME NEW w \in Workers, Supervised(w) \/ Revive(w), UNCHANGED clientVars
        PROVE  StarterInv'
    <3>1. UNCHANGED <<cpc, seized>> /\ WorkerTypeOK
      BY <2>2 DEF clientVars, LifecycleInv, ClientInv, ClientTypeOK
    <3>2. WorkerStep(w) \/ WorkerFault(w) \/ Launch(w)
      BY <2>2 DEF Supervised, Revive, LaunchMain
    <3> QED
      BY <3>1, <3>2, WorkerStarters
  <2>3. CASE UNCHANGED vars
    BY <2>3 DEF vars, clientVars, workerVars, processVars, files, StarterInv, Starters, Dead
  <2> QED
    BY <2>1, <2>2, <2>3 DEF Next
<1>3. StarterInv => OneStarterUnlessSeized
  BY DEF StarterInv, OneStarterUnlessSeized
<1> QED
  BY <1>1, <1>2, <1>3, LifecycleInvariance, PTL DEF Spec

------------------------------------------------------------------------------
(* The refinement of OneDaemon, without a theft and without a rebind.      *)

KeptInv == LifecycleInv /\ stolen = {} /\ rebound = FALSE

\* What commands do to the workers is a step of OneDaemon or changes nothing there.
LEMMA EffectRefines ==
  ASSUME KeptInv, KeptInv', Effect
  PROVE  [Abstract!Next]_(Abstract!daemonVars)
<1>1. CASE Aside
  BY <1>1 DEF KeptInv, Aside, Abstract!daemonVars, Incumbent, Phase, Served, PhaseOf, Owner
<1>2. ASSUME NEW w \in Workers, Moves(w) PROVE [Abstract!Next]_(Abstract!daemonVars)
  <2>1. SafeInv
    BY DEF KeptInv, LifecycleInv, WorkersInv, SafeInv, OwnershipInv
  <2>2. SafeInv'
    BY DEF KeptInv, LifecycleInv, WorkersInv, SafeInv, OwnershipInv
  <2> QED
    BY <1>2, <2>1, <2>2, WorkerRefines DEF Moves
<1> QED
  BY <1>1, <1>2 DEF Effect

\* The commands start with no daemon or with one that serves.
LEMMA InitRefines == Init => Abstract!Init
<1>1. CASE Init /\ WorkerInit
  BY <1>1 DEF WorkerInit, Abstract!Init, Incumbent, Phase, Served, Owner, Owning
<1>2. ASSUME NEW w \in Workers, NEW p \in Ports, Running(w, p) PROVE Abstract!Init
  <2>1. \A v \in Workers : Owner(v) <=> v = w
    BY <1>2 DEF Running, Owner, Owning
  <2>2. Incumbent = w /\ w # NoOne
    BY <2>1, ProcessesAssumption DEF Incumbent
  <2>3. Phase = "serving" /\ Served = p /\ persisted = p
    BY <1>2, <2>1, <2>2 DEF Running, Phase, PhaseOf, Served, Starting
  <2> QED
    BY <2>2, <2>3 DEF Abstract!Init
<1> QED
  BY <1>1, <1>2 DEF Init

\* Start, stop and restart of any number of clients show as one daemon at one durable
\* address, as long as no live owner loses its lock and nobody rebinds.
THEOREM CommandsKeepOneDaemon ==
  Spec /\ [](stolen = {}) /\ [](rebound = FALSE) => KeepsOneDaemon
<1>1. Init => Abstract!Init
  BY InitRefines
<1>2. KeptInv /\ KeptInv' /\ [Next]_vars => [Abstract!Next]_(Abstract!daemonVars)
  BY Effects, EffectRefines DEF KeptInv, LifecycleInv
<1>3. LifecycleInv /\ stolen = {} /\ rebound = FALSE => KeptInv
  BY DEF KeptInv
<1> QED
  BY <1>1, <1>2, <1>3, LifecycleInvariance, PTL DEF Spec, KeepsOneDaemon, Abstract!Spec
------------------------------------------------------------------------------
(* Commands one at a time, and no deadline missed: no owner ever loses its *)
(* lock, and an installed service is the daemon.                           *)

\* At most one client is inside a command.
OneCommand == \A c, d \in Clients : cpc[c] # "idle" /\ cpc[d] # "idle" => c = d

\* An owner that only has to go: it does not serve any more, or has failed to bind.
Fading == {"shutdown", "undiscover", "drain", "unhold", "unannounce", "release"}

\* A worker that is about to serve, or serves.
Young(w) == Alive(w) /\ pc[w] \notin Fading
NoYoung == \A w \in Workers : ~Young(w)

\* Which places belong to an installed service, and which to a start without one.
UnitInv ==
  \A c \in Clients :
    /\ cpc[c] \in {"svcFinding", "svcStarting", "svcAwaiting", "svcStopping", "svcEnding", "removing"}
         => unit
    /\ cpc[c] \in {"starting", "locking", "spawning", "awaiting", "unlocking", "givingUp", "leaving"}
         => ~unit
    /\ cpc[c] \in {"stopping", "asking"} /\ command[c] # "install" => ~unit

\* Once systemd has been told to stop its process for good, it starts no other.
ServiceStopped(c) ==
  \/ cpc[c] = "removing"
  \/ unit /\ cpc[c] = "clearing"
  \/ unit /\ cpc[c] \in {"watching", "checking"} /\ command[c] = "rebind"

DutyInv ==
  \A c \in Clients :
    /\ cpc[c] = "svcEnding" \/ ServiceStopped(c) => duty \in {"none", "stop"}
    /\ cpc[c] = "svcEnding" /\ Active => target[c] = main
    /\ ServiceStopped(c) => ~Active

\* Who may be about to serve: the process of the service where there is one; without one
\* the child of a start that waits for it, and after that only a daemon that answers.
YoungInv ==
  /\ unit => \A w \in Workers : Young(w) => w = main
  /\ ~unit /\ (\A c \in Clients : cpc[c] # "awaiting") =>
       \A w \in Workers : Young(w) => pc[w] = "serving"
  /\ \A c \in Clients :
       /\ cpc[c] = "awaiting" => \A w \in Workers : Young(w) => w = child[c]
       /\ ~unit /\ cpc[c] \in {"locking", "spawning", "checking", "clearing", "installing"} => NoYoung

\* A file taken for stale is nobody's when it is removed.
UnlinkInv == \A w \in Workers : pc[w] = "unlink" => \A v \in Workers : ~Owner(v)

SequentialInv ==
  /\ LifecycleInv /\ PortInv /\ stolen = {}
  /\ UnitInv /\ DutyInv /\ YoungInv /\ UnlinkInv

\* Two workers are never both about to serve, or serving.
OneYoung == \A v, w \in Workers : Young(v) /\ Young(w) => v = w

\* The invariant leaves room for one.
LEMMA YoungIsOne ==
  ASSUME SequentialInv, OneCommand
  PROVE  OneYoung
<1> USE DEF SequentialInv, YoungInv, LifecycleInv, WorkersInv, DiscInv, OneYoung
<1>1. CASE unit
  BY <1>1
<1>2. ASSUME ~unit, NEW c \in Clients, cpc[c] = "awaiting" PROVE OneYoung
  BY <1>2
<1>3. CASE ~unit /\ \A c \in Clients : cpc[c] # "awaiting"
  BY <1>3
<1> QED
  BY <1>1, <1>2, <1>3

\* Nobody becomes young but by being launched, and a daemon that answers does so until it
\* fades or dies.
LEMMA WorkersAge ==
  ASSUME WorkerTypeOK, NEW w \in Workers,
         Signal(w) \/ WorkerStep(w) \/ WorkerFault(w) \/ Killed(w)
  PROVE  \A v \in Workers :
           /\ Alive(v)' => Alive(v)
           /\ Young(v)' => Young(v)
           /\ pc[v] = "serving" /\ Young(v)' => pc'[v] = "serving"
<1>1. \A v \in Workers \ {w} : pc'[v] = pc[v]
  BY DEF Signal, WorkerStep, WorkerFault, GiveUp, ServeFails, Crash, Killed, Die,
     Guard, CreateLock, StampLock, ReadLock, UnlinkLock, LoadPort, Listen, PortBusy,
     PersistPort, Announce, StartServing, Shutdown, HoldStartLock, Undiscover, Drain,
     ReleaseStartLock, Unannounce, ReleaseLock, Goto, files, WorkerTypeOK
<1>2. Alive(w)
  BY DEF Signal, WorkerStep, WorkerFault, GiveUp, ServeFails, Crash, Killed, Die,
     Guard, CreateLock, StampLock, ReadLock, UnlinkLock, LoadPort, Listen, PortBusy,
     PersistPort, Announce, StartServing, Shutdown, HoldStartLock, Undiscover, Drain,
     ReleaseStartLock, Unannounce, ReleaseLock, Alive, Unborn, Dead
<1>3. /\ pc[w] \in Fading => pc'[w] \in Fading \cup {"exited", "crashed"}
      /\ pc[w] = "serving" =>
           pc'[w] \in Fading \cup {"serving", "exited", "crashed"}
  BY DEF Signal, WorkerStep, WorkerFault, GiveUp, ServeFails, Crash, Killed, Die,
     Guard, CreateLock, StampLock, ReadLock, UnlinkLock, LoadPort, Listen, PortBusy,
     PersistPort, Announce, StartServing, Shutdown, HoldStartLock, Undiscover, Drain,
     ReleaseStartLock, Unannounce, ReleaseLock, Goto, files, WorkerTypeOK, Fading
<1> QED
  BY <1>1, <1>2, <1>3 DEF Young, Alive, Unborn, Dead

\* A launch makes one worker young and changes no other.
LEMMA WorkersBegin ==
  ASSUME WorkerTypeOK, NEW w \in Workers, Launch(w)
  PROVE  \A v \in Workers :
           /\ v = w => Young(v)' /\ Alive(v)'
           /\ v # w => (Young(v)' <=> Young(v)) /\ (Alive(v)' <=> Alive(v)) /\ pc'[v] = pc[v]
BY DEF Launch, Goto, Young, Fading, Alive, Unborn, Dead, WorkerTypeOK

\* A lock is removed by its owner, or when nobody owns it.
LEMMA LocksAreSafe ==
  ASSUME WorkersInv, stolen = {}, OneYoung, UnlinkInv, NEW w \in Workers, Moves(w)
  PROVE  UnlinkInv' /\ stolen' = {}
<1> USE ProcessesAssumption DEF WorkersInv, WorkerTypeOK, UnlinkInv, LockInv, StampInv
<1>1. CASE UnlinkLock(w)
  BY <1>1 DEF UnlinkLock, RemoveLock, Goto, Owner, Owning
<1>2. CASE ReleaseLock(w)
  BY <1>2 DEF ReleaseLock, RemoveLock, Goto, Owner, Owning
<1>3. CASE ReadLock(w)
  <2>1. ASSUME Unowned, NEW v \in Workers, Owner(v) PROVE FALSE
    <3>1. lock.owner = v /\ ~Dead(v)
      BY <2>1 DEF Owner, Owning, Dead
    <3>2. pc[v] = "stamp"
      BY <2>1, <3>1 DEF Unowned
    <3>3. Young(v) /\ Young(w) /\ v # w
      BY <1>3, <3>2 DEF ReadLock, Young, Alive, Unborn, Dead, Fading
    <3> QED
      BY <3>3 DEF OneYoung
  <2>2. \A v \in Workers : Owner(v)' => Owner(v)
    BY <1>3 DEF ReadLock, Goto, Owner, Owning
  <2> QED
    BY <1>3, <2>1, <2>2 DEF ReadLock, Goto, files
<1>4. CASE CreateLock(w)
  <2>1. \A v \in Workers : pc[v] # "unlink"
    BY <1>4 DEF CreateLock, OneYoung, Young, Alive, Unborn, Dead, Fading
  <2> QED
    BY <1>4, <2>1 DEF CreateLock, Goto
<1>5. CASE Moves(w) /\ ~UnlinkLock(w) /\ ~ReleaseLock(w) /\ ~ReadLock(w) /\ ~CreateLock(w)
  <2>1. stolen' = {}
    BY <1>5 DEF Moves, Launch, Signal, WorkerStep, WorkerFault, GiveUp, ServeFails, Crash,
       Killed, Die, Guard, StampLock, LoadPort, Listen, PortBusy, PersistPort, Announce,
       StartServing, Shutdown, HoldStartLock, Undiscover, Drain, ReleaseStartLock, Unannounce
  <2>2. /\ \A v \in Workers : pc'[v] = "unlink" => pc[v] = "unlink"
        /\ \A v \in Workers : Owner(v)' => Owner(v)
    BY <1>5 DEF Moves, Launch, Signal, WorkerStep, WorkerFault, GiveUp, ServeFails, Crash,
       Killed, Die, Guard, StampLock, LoadPort, Listen, PortBusy, PersistPort, Announce,
       StartServing, Shutdown, HoldStartLock, Undiscover, Drain, ReleaseStartLock, Unannounce,
       Goto, Unborn, Owner, Owning
  <2> QED
    BY <2>1, <2>2
<1> QED
  BY <1>1, <1>2, <1>3, <1>4, <1>5

------------------------------------------------------------------------------
\* Only the client inside a command moves, and every other is idle after it too.
LEMMA OthersIdle ==
  ASSUME ClientTypeOK, OneCommand, NEW c \in Clients, ClientStep(c)
  PROVE  /\ cpc[c] # "idle"
         /\ \A d \in Clients \ {c} : cpc[d] = "idle" /\ cpc'[d] = "idle" /\ command'[d] = command[d]
<1>1. cpc[c] # "idle"
  BY DEF ClientStep, Route, FindHealthy, TakeStartLock, StartLockHeld, StaleStartLock, Spawn,
     AwaitHealthy, AwaitTimeout, ReleaseStart, FindTarget, AskShutdown, WatchEndpoint,
     CheckOwnership, WatchTimeout, Clear, Return, FindService, StartService, AwaitService,
     AwaitServiceTimeout, StopService, ServiceEnds, SystemctlFails, InstallUnit, RemoveUnit,
     StopTheRest
<1>2. \A d \in Clients \ {c} : cpc'[d] = cpc[d] /\ command'[d] = command[d]
  BY DEF ClientStep, Route, FindHealthy, TakeStartLock, StartLockHeld, StaleStartLock, Spawn,
     AwaitHealthy, AwaitTimeout, ReleaseStart, FindTarget, AskShutdown, WatchEndpoint,
     CheckOwnership, WatchTimeout, Clear, Return, FindService, StartService, AwaitService,
     AwaitServiceTimeout, StopService, ServiceEnds, SystemctlFails, InstallUnit, RemoveUnit,
     StopTheRest, ClientOnly, CGoto, ClientTypeOK
<1> QED
  BY <1>1, <1>2 DEF OneCommand

\* The places of clients and the unit stay in step.
LEMMA UnitSteps ==
  ASSUME SequentialInv, OneCommand, OneCommand', [Next]_vars
  PROVE  UnitInv'
<1> USE DEF SequentialInv, LifecycleInv, ClientInv, ClientTypeOK, UnitInv, CGoto
<1>1. CASE UNCHANGED <<clientVars, unit>>
  BY <1>1 DEF clientVars
<1>2. ASSUME NEW c \in Clients, NEW cmd \in Commands, Begin(c, cmd) PROVE UnitInv'
  <2>1. unit' = unit /\ cpc' = [cpc EXCEPT ![c] = FirstPlace(cmd)]
        /\ command' = [command EXCEPT ![c] = cmd]
    BY <1>2 DEF Begin, Aim, serviceVars
  <2>2. /\ FirstPlace(cmd) \in {"routing", "svcStopping", "stopping", "stopped", "failed"}
        /\ FirstPlace(cmd) = "svcStopping" => unit
        /\ FirstPlace(cmd) = "stopping" /\ cmd # "install" => ~unit
    BY CommandsAssumption DEF FirstPlace, Installed, AllCommands
  <2> QED
    BY <2>1, <2>2
<1>3. ASSUME NEW c \in Clients, ClientStep(c) PROVE UnitInv'
  <2>1. \A d \in Clients \ {c} : cpc'[d] = "idle"
    BY <1>3, OthersIdle
  <2> USE <2>1
  <2>2. CASE Route(c) \/ FindHealthy(c) \/ StartLockHeld(c) \/ AwaitHealthy(c)
             \/ AwaitTimeout(c) \/ WatchEndpoint(c) \/ WatchTimeout(c) \/ Return(c)
             \/ FindService(c) \/ AwaitService(c) \/ AwaitServiceTimeout(c)
             \/ ServiceEnds(c) \/ SystemctlFails(c)
    <3>1. UNCHANGED <<unit, command>>
      BY <2>2 DEF Route, FindHealthy, StartLockHeld, AwaitHealthy, AwaitTimeout,
         WatchEndpoint, WatchTimeout, Return, FindService, AwaitService, AwaitServiceTimeout,
         ServiceEnds, SystemctlFails, ClientOnly, serviceVars
    <3> QED
      BY <2>2, <3>1 DEF Route, FindHealthy, StartLockHeld, AwaitHealthy, AwaitTimeout,
         WatchEndpoint, WatchTimeout, Return, FindService, AwaitService, AwaitServiceTimeout,
         ServiceEnds, SystemctlFails, Installed
  <2>3. CASE TakeStartLock(c) \/ StaleStartLock(c) \/ ReleaseStart(c) \/ Clear(c)
             \/ AskShutdown(c) \/ (\E w \in Workers : Spawn(c, w))
    BY <2>3 DEF TakeStartLock, StaleStartLock, ReleaseStart, Clear, AskShutdown, Spawn,
       serviceVars
  <2>4. CASE FindTarget(c) \/ CheckOwnership(c)
    <3>1. AfterStop(c) \in {"stopped", "routing", "clearing", "installing"}
      BY <2>4, AfterStops DEF FindTarget, Aim, CheckOwnership, CommandInv, StopPlaces
    <3> QED
      BY <2>4, <3>1 DEF FindTarget, Aim, CheckOwnership, ClientOnly, serviceVars
  <2>5. CASE StartService(c) \/ StopService(c)
    BY <2>5 DEF StartService, LaunchMain, StopService, StopMain, serviceVars
  <2>6. CASE InstallUnit(c) \/ RemoveUnit(c)
    BY <2>6 DEF InstallUnit, RemoveUnit
  <2>7. CASE StopTheRest(c)
    BY <2>7 DEF StopTheRest, FirstPlace, Installed, serviceVars
  <2> QED
    BY <1>3, <2>2, <2>3, <2>4, <2>5, <2>6, <2>7 DEF ClientStep
<1>4. ASSUME NEW w \in Workers, Supervised(w) \/ Revive(w), UNCHANGED clientVars
      PROVE  UnitInv'
  BY <1>1, <1>4 DEF Supervised, Revive, LaunchMain
<1> QED
  BY <1>1, <1>2, <1>3, <1>4 DEF Next, vars, serviceVars

\* What systemd has been told to stop stays stopped until the command is over with it.
LEMMA DutySteps ==
  ASSUME ~Impatient, SequentialInv, OneCommand, OneCommand', [Next]_vars
  PROVE  DutyInv'
<1> USE DEF SequentialInv, LifecycleInv, ClientInv, ClientTypeOK, WorkersInv, ServiceTypeOK,
        DutyInv, ServiceStopped, Active, CGoto
<1>1. CASE UNCHANGED vars
  BY <1>1 DEF vars, clientVars, serviceVars, workerVars, processVars, Alive, Unborn, Dead
<1>2. ASSUME NEW c \in Clients, NEW cmd \in Commands, Begin(c, cmd) PROVE DutyInv'
  <2>1. /\ UNCHANGED <<unit, main, duty, pc>> /\ cpc' = [cpc EXCEPT ![c] = FirstPlace(cmd)]
        /\ \A d \in Clients \ {c} : command'[d] = command[d] /\ target'[d] = target[d]
    BY <1>2 DEF Begin, Aim, serviceVars, workerVars, processVars
  <2>2. FirstPlace(cmd) \in {"routing", "svcStopping", "stopping", "stopped", "failed"}
    BY FirstPlaces, CommandsAssumption
  <2> QED
    BY <2>1, <2>2 DEF Alive, Unborn, Dead
<1>3. ASSUME NEW w \in Workers, Supervised(w), UNCHANGED clientVars PROVE DutyInv'
  <2>1. Alive(main)' /\ main \in Workers => Alive(main)
    BY <1>3, WorkersAge DEF Supervised
  <2>2. main' = main /\ unit' = unit /\ (duty' = duty \/ (duty = "run" /\ duty' = "revive"))
    BY <1>3 DEF Supervised
  <2> QED
    BY <1>3, <2>1, <2>2 DEF clientVars
<1>4. ASSUME NEW w \in Workers, Revive(w), UNCHANGED clientVars PROVE DutyInv'
  <2>1. \A c \in Clients : cpc[c] # "svcEnding" /\ ~ServiceStopped(c)
    BY <1>4 DEF Revive
  <2> QED
    BY <1>4, <2>1 DEF Revive, LaunchMain, clientVars
<1>5. ASSUME NEW c \in Clients, ClientStep(c) PROVE DutyInv'
  <2>1. \A d \in Clients \ {c} : cpc'[d] = "idle"
    BY <1>5, OthersIdle
  <2> USE <2>1
  <2>2. CASE Route(c) \/ FindHealthy(c) \/ StartLockHeld(c) \/ AwaitHealthy(c)
             \/ AwaitTimeout(c) \/ WatchTimeout(c) \/ Return(c)
             \/ FindService(c) \/ AwaitService(c) \/ AwaitServiceTimeout(c)
             \/ TakeStartLock(c) \/ StaleStartLock(c) \/ ReleaseStart(c) \/ Clear(c)
             \/ (\E w \in Workers : Spawn(c, w)) \/ StartService(c) \/ InstallUnit(c)
             \/ StopTheRest(c)
    <3>1. ASSUME StopTheRest(c) PROVE cpc'[c] \in {"stopping", "svcStopping", "stopped"}
      BY <3>1 DEF StopTheRest, FirstPlace
    <3>2. cpc'[c] \notin {"svcEnding", "removing", "watching", "checking", "clearing"}
      BY <2>2, <3>1 DEF Route, FindHealthy, StartLockHeld, AwaitHealthy, AwaitTimeout,
         WatchTimeout, Return, FindService, AwaitService, AwaitServiceTimeout,
         TakeStartLock, StaleStartLock, ReleaseStart, Clear, Spawn, StartService, InstallUnit
    <3> QED
      BY <3>2
  <2>3. CASE WatchEndpoint(c) \/ CheckOwnership(c) \/ FindTarget(c)
    <3>1. UNCHANGED <<unit, main, duty, pc, command>>
      BY <2>3 DEF WatchEndpoint, CheckOwnership, FindTarget, ClientOnly, serviceVars,
         workerVars, processVars
    <3>2. AfterStop(c) \in {"stopped", "routing", "clearing", "installing"}
          /\ (AfterStop(c) = "clearing" => command[c] = "rebind")
      BY <2>3 DEF AfterStop, FindTarget, WatchEndpoint, CheckOwnership, CommandInv, StopPlaces,
         AllCommands
    <3>3. CASE WatchEndpoint(c) \/ CheckOwnership(c)
      BY <3>1, <3>2, <3>3 DEF WatchEndpoint, CheckOwnership, Alive, Unborn, Dead
    <3>4. CASE FindTarget(c)
      BY <3>1, <3>2, <3>4 DEF FindTarget, Aim, UnitInv
    <3> QED
      BY <2>3, <3>3, <3>4
  <2>4. CASE AskShutdown(c)
    BY <2>4 DEF AskShutdown, UnitInv, serviceVars
  <2>5. CASE StopService(c)
    <3>1. /\ duty' \in {"none", "stop"} /\ main' = main /\ cpc'[c] = "svcEnding"
          /\ target'[c] = IF Active THEN main ELSE NoOne
      BY <2>5 DEF StopService, Aim, StopMain
    <3>2. Active' => Active
      <4>1. CASE Active
        BY <4>1
      <4>2. CASE ~Active
        BY <2>5, <4>2 DEF StopService, Aim, StopMain, workerVars, processVars, Alive, Unborn, Dead
      <4> QED
        BY <4>1, <4>2
    <3> QED
      BY <3>1, <3>2
  <2>6. CASE ServiceEnds(c)
    <3>1. UNCHANGED <<unit, main, duty, pc, command>>
      BY <2>6 DEF ServiceEnds, ClientOnly, serviceVars, workerVars, processVars
    <3>2. ~Active
      BY <2>6, ProcessesAssumption DEF ServiceEnds, Alive
    <3> QED
      BY <2>6, <3>1, <3>2 DEF ServiceEnds, Alive, Unborn, Dead
  <2>7. CASE SystemctlFails(c) \/ RemoveUnit(c)
    <3>1. UNCHANGED <<main, duty, pc, command>>
      BY <2>7 DEF SystemctlFails, RemoveUnit, ClientOnly, serviceVars, workerVars, processVars
    <3>2. ~SystemctlFails(c) \/ Impatient
      BY DEF SystemctlFails, UnitInv
    <3> QED
      BY <2>7, <3>1, <3>2 DEF RemoveUnit, SystemctlFails, Alive, Unborn, Dead
  <2> QED
    BY <1>5, <2>2, <2>3, <2>4, <2>5, <2>6, <2>7 DEF ClientStep
<1> QED
  BY <1>1, <1>2, <1>3, <1>4, <1>5 DEF Next

\* Where a command has found nobody to answer, nobody is about to.
LEMMA QuietMeansNone ==
  ASSUME SequentialInv, ~unit, ~Connected, \A c \in Clients : cpc[c] # "awaiting"
  PROVE  NoYoung
<1> SUFFICES ASSUME NEW w \in Workers, Young(w) PROVE FALSE
  BY DEF NoYoung
<1>1. pc[w] = "serving"
  BY DEF SequentialInv, YoungInv
<1>2. disc = w
  BY <1>1 DEF SequentialInv, LifecycleInv, WorkersInv, DiscInv
<1> QED
  BY <1>1, <1>2, ProcessesAssumption DEF Connected

\* Who may be about to serve stays known, whoever moves.
LEMMA YoungSteps ==
  ASSUME ~Impatient, SequentialInv, OneCommand, OneCommand', [Next]_vars
  PROVE  YoungInv'
<1> USE DEF SequentialInv, LifecycleInv, ClientInv, ClientTypeOK, WorkersInv, ServiceTypeOK,
        CGoto
<1>1. ASSUME UNCHANGED <<pc, unit, main, cpc, child>> PROVE YoungInv'
  BY <1>1 DEF YoungInv, NoYoung, Young, Alive, Unborn, Dead
<1>2. CASE UNCHANGED vars
  BY <1>1, <1>2 DEF vars, clientVars, serviceVars, workerVars, processVars
<1>3. ASSUME NEW c \in Clients, NEW cmd \in Commands, Begin(c, cmd) PROVE YoungInv'
  <2>1. /\ UNCHANGED <<pc, unit, main, child>> /\ cpc' = [cpc EXCEPT ![c] = FirstPlace(cmd)]
        /\ cpc[c] = "idle"
    BY <1>3 DEF Begin, Aim, serviceVars, workerVars, processVars
  <2>2. FirstPlace(cmd) \in {"routing", "svcStopping", "stopping", "stopped", "failed"}
    BY FirstPlaces, CommandsAssumption
  <2>3. \A d \in Clients \ {c} : cpc[d] = "idle"
    BY <2>1, <2>2 DEF OneCommand
  <2> QED
    BY <2>1, <2>2, <2>3 DEF YoungInv, NoYoung, Young, Alive, Unborn, Dead
<1>4. ASSUME NEW w \in Workers, Supervised(w), UNCHANGED clientVars PROVE YoungInv'
  <2>1. \A v \in Workers : /\ Young(v)' => Young(v)
                           /\ pc[v] = "serving" /\ Young(v)' => pc'[v] = "serving"
    BY <1>4, WorkersAge DEF Supervised
  <2>2. UNCHANGED <<unit, main, cpc, child>>
    BY <1>4 DEF Supervised, clientVars
  <2> QED
    BY <2>1, <2>2 DEF YoungInv, NoYoung
<1>5. ASSUME NEW w \in Workers, LaunchMain(w) PROVE \A v \in Workers : Young(v)' => v = main'
  <2>1. NoYoung
    BY <1>5, ProcessesAssumption DEF LaunchMain, Active, YoungInv, NoYoung, Young
  <2> QED
    BY <1>5, <2>1, WorkersBegin DEF LaunchMain, NoYoung
<1>6. ASSUME NEW w \in Workers, Revive(w), UNCHANGED clientVars PROVE YoungInv'
  <2>1. unit' /\ unit /\ UNCHANGED <<cpc, child>>
    BY <1>6 DEF Revive, LaunchMain, clientVars
  <2>2. \A c \in Clients : cpc[c] # "awaiting"
    BY <2>1 DEF UnitInv
  <2> QED
    BY <1>5, <1>6, <2>1, <2>2 DEF Revive, YoungInv
<1>7. ASSUME NEW c \in Clients, ClientStep(c) PROVE YoungInv'
  <2>1. \A d \in Clients \ {c} : cpc[d] = "idle" /\ cpc'[d] = "idle"
    BY <1>7, OthersIdle
  <2> USE <2>1
  \* Nothing but the client's own place changes, and it does not enter a place that
  \* demands more.
  <2>2. ASSUME UNCHANGED <<pc, unit, main, child>>, cpc[c] # "awaiting",
               \/ unit
               \/ cpc'[c] \notin {"awaiting", "locking", "spawning", "checking", "clearing",
                                  "installing"}
               \/ NoYoung,
               cpc'[c] # "awaiting"
        PROVE  YoungInv'
    BY <2>2 DEF YoungInv, NoYoung, Young, Alive, Unborn, Dead
  <2>3. CASE Route(c) \/ StartLockHeld(c) \/ WatchTimeout(c) \/ Return(c)
             \/ FindService(c) \/ AwaitService(c) \/ AwaitServiceTimeout(c)
             \/ ServiceEnds(c) \/ SystemctlFails(c)
    BY <2>2, <2>3 DEF Route, StartLockHeld, WatchTimeout, Return, FindService, AwaitService,
       AwaitServiceTimeout, ServiceEnds, SystemctlFails, ClientOnly, serviceVars, workerVars,
       processVars
  <2>4. CASE FindHealthy(c) \/ WatchEndpoint(c)
    <3>1. ~unit /\ ~Connected /\ cpc[c] \in {"starting", "watching"} => NoYoung
      BY QuietMeansNone
    <3> QED
      BY <2>2, <2>4, <3>1 DEF FindHealthy, WatchEndpoint, ClientOnly, serviceVars, workerVars,
         processVars
  <2>5. CASE FindTarget(c)
    <3>1. ~unit /\ ~Connected /\ cpc[c] = "stopping" => NoYoung
      BY QuietMeansNone
    <3>2. AfterStop(c) # "awaiting"
      BY <2>5, AfterStops DEF FindTarget, Aim, CommandInv, StopPlaces
    <3> QED
      BY <2>2, <2>5, <3>1, <3>2 DEF FindTarget, Aim, ClientOnly, serviceVars, workerVars, processVars
  <2>6. CASE CheckOwnership(c)
    <3>1. ~unit => NoYoung
      BY <2>6 DEF CheckOwnership, YoungInv
    <3>2. AfterStop(c) # "awaiting"
      BY <2>6, AfterStops DEF CheckOwnership, CommandInv, StopPlaces
    <3> QED
      BY <2>2, <2>6, <3>1, <3>2 DEF CheckOwnership, ClientOnly, serviceVars, workerVars,
         processVars
  <2>7. CASE TakeStartLock(c) \/ StaleStartLock(c) \/ ReleaseStart(c) \/ Clear(c)
             \/ AskShutdown(c)
    <3>1. UNCHANGED <<pc, unit, main, child>> /\ cpc[c] # "awaiting"
      BY <2>7 DEF TakeStartLock, StaleStartLock, ReleaseStart, Clear, AskShutdown, serviceVars,
         processVars
    <3>2. /\ cpc'[c] \notin {"awaiting", "locking", "checking", "clearing", "installing"}
          /\ cpc'[c] = "spawning" => cpc[c] = "locking"
      BY <2>7 DEF TakeStartLock, StaleStartLock, ReleaseStart, Clear, AskShutdown
    <3>3. ~unit /\ cpc[c] = "locking" => NoYoung
      BY DEF YoungInv
    <3> QED
      BY <2>2, <3>1, <3>2, <3>3
  <2>8. ASSUME NEW w \in Workers, Spawn(c, w) PROVE YoungInv'
    <3>1. ~unit /\ NoYoung
      BY <2>8 DEF Spawn, YoungInv, UnitInv
    <3>2. \A v \in Workers : Young(v)' => v = w
      BY <2>8, <3>1, WorkersBegin DEF Spawn, NoYoung
    <3>3. unit' = unit /\ cpc'[c] = "awaiting" /\ child'[c] = w
      BY <2>8 DEF Spawn, serviceVars
    <3> QED
      BY <3>1, <3>2, <3>3 DEF YoungInv
  <2>9. CASE AwaitHealthy(c) \/ AwaitTimeout(c)
    <3>1. /\ UNCHANGED <<pc, unit, main, child>> /\ ~unit /\ cpc[c] = "awaiting"
          /\ cpc'[c] \in {"unlocking", "givingUp"}
      BY <2>9 DEF AwaitHealthy, AwaitTimeout, ClientOnly, serviceVars, workerVars, processVars,
         UnitInv
    <3>2. \A w \in Workers : Young(w) => w = child[c]
      BY <3>1 DEF YoungInv
    <3>3. \A w \in Workers : Young(w) => pc[w] = "serving"
      <4>1. CASE AwaitHealthy(c)
        <5>1. disc \in Workers /\ pc[disc] = "serving"
          BY <4>1 DEF AwaitHealthy, Connected, WorkerTypeOK
        <5>2. Young(disc)
          BY <5>1 DEF Young, Alive, Unborn, Dead, Fading
        <5> QED
          BY <3>2, <5>1, <5>2
      <4>2. CASE AwaitTimeout(c)
        BY <3>2, <4>2 DEF AwaitTimeout, Young, Alive
      <4> QED
        BY <2>9, <4>1, <4>2
    <3> QED
      BY <3>1, <3>3 DEF YoungInv, Young, Alive, Unborn, Dead
  <2>10. CASE StartService(c)
    <3>1. cpc'[c] = "svcAwaiting" /\ unit /\ unit' = unit
      BY <2>10 DEF StartService, UnitInv, LaunchMain, serviceVars
    <3>2. \A v \in Workers : Young(v)' => v = main'
      <4>1. CASE \E w \in Workers : LaunchMain(w)
        BY <1>5, <4>1
      <4>2. CASE UNCHANGED <<workerVars, serviceVars>>
        BY <3>1, <4>2 DEF YoungInv, workerVars, serviceVars, processVars, Young, Alive, Unborn,
           Dead
      <4> QED
        BY <2>10, <4>1, <4>2 DEF StartService
    <3> QED
      BY <3>1, <3>2 DEF YoungInv
  <2>11. CASE StopService(c)
    <3>1. cpc'[c] = "svcEnding" /\ unit /\ unit' = unit /\ main' = main
      BY <2>11 DEF StopService, Aim, StopMain
    <3>2. \A v \in Workers : Young(v)' => Young(v)
      <4>1. ASSUME Active, pc[main] \notin Handling PROVE \A v \in Workers : Young(v)' => Young(v)
        <5>1. Killed(main) /\ main \in Workers
          BY <2>11, <4>1 DEF StopService, Aim, StopMain, Terminate, Active
        <5> QED
          BY <5>1, WorkersAge
      <4>2. ASSUME ~Active \/ pc[main] \in Handling PROVE pc' = pc
        BY <2>11, <4>2 DEF StopService, Aim, StopMain, Terminate, workerVars, processVars
      <4> QED
        BY <4>1, <4>2 DEF Young, Alive, Unborn, Dead
    <3> QED
      BY <3>1, <3>2 DEF YoungInv
  <2>12. CASE InstallUnit(c)
    <3>1. /\ UNCHANGED <<pc, main, child>> /\ cpc[c] = "installing"
          /\ cpc'[c] \in {"routing", "failed"} /\ (unit' = unit \/ unit' = TRUE)
      BY <2>12 DEF InstallUnit, workerVars, processVars
    <3>2. ~unit => NoYoung
      BY <3>1 DEF YoungInv
    <3> QED
      BY <3>1, <3>2 DEF YoungInv, NoYoung, Young, Alive, Unborn, Dead
  <2>13. CASE RemoveUnit(c)
    <3>1. /\ UNCHANGED <<pc, main, child>> /\ cpc[c] = "removing"
          /\ cpc'[c] \in {"leaving", "failed"}
      BY <2>13 DEF RemoveUnit, workerVars, processVars
    <3>2. unit /\ ~Active
      BY <3>1 DEF UnitInv, DutyInv, ServiceStopped
    <3>3. NoYoung
      BY <3>2, ProcessesAssumption DEF YoungInv, NoYoung, Active, Young
    <3> QED
      BY <3>1, <3>3 DEF YoungInv, NoYoung, Young, Alive, Unborn, Dead
  <2>14. CASE StopTheRest(c)
    <3>1. cpc[c] = "leaving" /\ cpc'[c] \in {"stopping", "svcStopping", "stopped"}
      BY <2>14 DEF StopTheRest, FirstPlace
    <3> QED
      BY <2>2, <2>14, <3>1 DEF StopTheRest, serviceVars, workerVars, processVars
  <2> QED
    BY <1>7, <2>3, <2>4, <2>5, <2>6, <2>7, <2>8, <2>9, <2>10, <2>11, <2>12, <2>13, <2>14
    DEF ClientStep
<1> QED
  BY <1>2, <1>3, <1>4, <1>6, <1>7 DEF Next

\* A step of a worker, or one that leaves workers, lock and discovery alone and forgets
\* the durable port only while nobody is about to serve on it.
LEMMA ClearsQuietly ==
  ASSUME SequentialInv, [Next]_vars, Aside
  PROVE  persisted' = persisted \/ (NoYoung /\ persisted' = NoPort)
<1> USE DEF SequentialInv, LifecycleInv, ClientInv, ClientTypeOK
<1>1. ASSUME NEW c \in Clients, Clear(c) PROVE NoYoung /\ persisted' = NoPort
  <2>1. cpc[c] = "clearing" /\ persisted' = NoPort
    BY <1>1 DEF Clear
  <2>2. CASE ~unit
    BY <2>1, <2>2 DEF YoungInv
  <2>3. CASE unit
    <3>1. ~Active
      BY <2>1, <2>3 DEF DutyInv, ServiceStopped
    <3>2. \A w \in Workers : Young(w) => w = main
      BY <2>3 DEF YoungInv
    <3>3. NoYoung
      BY <3>1, <3>2, ProcessesAssumption DEF NoYoung, Active, Young
    <3> QED
      BY <2>1, <3>3
  <2> QED
    BY <2>1, <2>2, <2>3
<1>2. ASSUME NEW w \in Workers, Supervised(w) \/ Revive(w) PROVE persisted' = persisted
  BY <1>2 DEF Supervised, Revive, LaunchMain, Launch, Aside, WorkersInv, WorkerTypeOK,
     WorkerStep, WorkerFault, GiveUp, ServeFails, Crash, Die,
     Guard, CreateLock, StampLock, ReadLock, UnlinkLock, LoadPort, Listen, PortBusy,
     PersistPort, Announce, StartServing, Shutdown, HoldStartLock, Undiscover, Drain,
     ReleaseStartLock, Unannounce, ReleaseLock, Goto, files
<1>3. ASSUME NEW c \in Clients, ClientStep(c), ~Clear(c) PROVE persisted' = persisted
  BY <1>3 DEF ClientStep, Route, FindHealthy, TakeStartLock, StartLockHeld, StaleStartLock,
     Spawn, Launch, AwaitHealthy, AwaitTimeout, ReleaseStart, FindTarget, AskShutdown,
     WatchEndpoint, CheckOwnership, WatchTimeout, Return, FindService, StartService,
     LaunchMain, AwaitService, AwaitServiceTimeout, StopService, StopMain, Terminate, Killed,
     Die, ServiceEnds, SystemctlFails, InstallUnit, RemoveUnit, StopTheRest, ClientOnly,
     workerVars, files
<1>4. ASSUME NEW c \in Clients, NEW cmd \in Commands, Begin(c, cmd)
      PROVE  persisted' = persisted
  BY <1>4 DEF Begin, Aim, workerVars, files
<1> QED
  BY <1>1, <1>2, <1>3, <1>4 DEF Next, vars, workerVars, files

\* The workers' part: no lock is stolen, and the durable port is the one served.
LEMMA SafeSteps ==
  ASSUME SequentialInv, OneCommand, LifecycleInv', [Next]_vars
  PROVE  UnlinkInv' /\ PortInv' /\ stolen' = {}
<1>1. Effect
  BY Effects DEF SequentialInv, LifecycleInv
<1>2. CASE Aside
  <2>1. UNCHANGED <<pc, want, port, stolen>>
    BY <1>2 DEF Aside
  <2>2. UnlinkInv' /\ stolen' = {}
    BY <2>1 DEF SequentialInv, UnlinkInv, Owner
  <2>3. CASE persisted' = persisted
    BY <2>1, <2>2, <2>3 DEF SequentialInv, PortInv
  <2>4. CASE NoYoung
    <3>1. \A w \in Workers :
            pc[w] \notin {"listen", "persist", "announce", "reconcile", "serving"}
      BY <2>4 DEF NoYoung, Young, Alive, Unborn, Dead, Fading
    <3> QED
      BY <2>1, <2>2, <3>1 DEF PortInv
  <2> QED
    BY <1>2, <2>2, <2>3, <2>4, ClearsQuietly
<1>3. ASSUME NEW w \in Workers, Moves(w) PROVE UnlinkInv' /\ PortInv' /\ stolen' = {}
  <2>1. OneYoung
    BY YoungIsOne
  <2>2. UnlinkInv' /\ stolen' = {}
    BY <1>3, <2>1, LocksAreSafe DEF SequentialInv, LifecycleInv
  <2>3. WorkerTypeOK'
    BY DEF LifecycleInv, WorkersInv
  <2>4. PortInv'
    BY <1>3, <2>3, PortSteps DEF SequentialInv, LifecycleInv, WorkersInv, OwnershipInv
  <2> QED
    BY <2>2, <2>4
<1> QED
  BY <1>1, <1>2, <1>3 DEF Effect

\* The invariant holds initially.
LEMMA SequentialStarts == Init => SequentialInv
<1> SUFFICES ASSUME Init PROVE SequentialInv
  OBVIOUS
<1>1. LifecycleInv
  BY LifecycleStarts
<1>2. /\ \A c \in Clients : cpc[c] = "idle"
      /\ UnitInv /\ DutyInv
  BY DEF Init, UnitInv, DutyInv, ServiceStopped
<1>3. PortInv /\ stolen = {}
  BY <1>1, PortsAssumption DEF Init, WorkerInit, Running, LifecycleInv, WorkersInv
<1>4. YoungInv /\ UnlinkInv
  <2>1. CASE WorkerInit
    BY <1>2, <2>1 DEF WorkerInit, YoungInv, UnlinkInv, Young, Alive, Unborn
  <2>2. ASSUME NEW w \in Workers, NEW p \in Ports, Running(w, p), unit => main = w
        PROVE  YoungInv /\ UnlinkInv
    BY <1>2, <2>2 DEF Running, YoungInv, UnlinkInv, Young, Alive, Unborn
  <2> QED
    BY <2>1, <2>2 DEF Init
<1> QED
  BY <1>1, <1>2, <1>3, <1>4 DEF SequentialInv

\* The invariant holds as long as commands come one at a time, whatever dies.
THEOREM SequentialInvariance ==
  ASSUME ~Impatient
  PROVE  Spec /\ []OneCommand => []SequentialInv
<1>1. SequentialInv /\ OneCommand /\ OneCommand' /\ LifecycleInv' /\ [Next]_vars
        => SequentialInv'
  BY UnitSteps, DutySteps, YoungSteps, SafeSteps DEF SequentialInv
<1> QED
  BY <1>1, SequentialStarts, LifecycleInvariance, PTL DEF Spec

\* One command at a time and no deadline missed: wherever workers die, whether the service is
\* installed, removed or revived meanwhile, no live owner ever loses its lifetime lock.
THEOREM NobodyIsRobbed ==
  ASSUME ~Impatient
  PROVE  Spec /\ []OneCommand => []NoTheft
<1>1. SequentialInv => NoTheft
  BY DEF SequentialInv, NoTheft
<1> QED
  BY <1>1, SequentialInvariance, PTL

\* Under the same conditions the daemon that listens under an installed unit is the one
\* systemd runs.
THEOREM ServiceIsTheDaemon ==
  ASSUME ~Impatient
  PROVE  Spec /\ []OneCommand => []ServiceNeverBypassed
<1>1. SequentialInv => ServiceNeverBypassed
  BY DEF SequentialInv, YoungInv, ServiceNeverBypassed, Listening, Young, Alive, Unborn, Dead,
     Fading
<1> QED
  BY <1>1, SequentialInvariance, PTL

\* An address is forgotten only while nobody serves or is about to.
LEMMA ForgetRefines ==
  ASSUME SequentialInv, SequentialInv', OneCommand, [Next]_vars
  PROVE  [Abstract!Next]_(Abstract!daemonVars)
<1>1. SafeInv
  BY DEF SequentialInv, LifecycleInv, WorkersInv, SafeInv, OwnershipInv
<1>2. SafeInv'
  BY DEF SequentialInv, LifecycleInv, WorkersInv, SafeInv, OwnershipInv
<1>3. Effect
  BY Effects DEF SequentialInv, LifecycleInv
<1>4. ASSUME NEW w \in Workers, Moves(w) PROVE [Abstract!Next]_(Abstract!daemonVars)
  BY <1>1, <1>2, <1>4, WorkerRefines
<1>5. CASE Aside
  <2>1. Incumbent' = Incumbent /\ Phase' = Phase /\ Served' = Served
    BY <1>5 DEF Aside, Incumbent, Phase, Served, PhaseOf, Owner
  <2>2. CASE persisted' = persisted
    BY <2>1, <2>2 DEF Abstract!daemonVars
  <2>3. CASE NoYoung /\ persisted' = NoPort
    <3>1. Phase \in {"none", "stopping"}
      <4>1. \A w \in Workers : PhaseOf(w) \in {"none", "stopping"}
        BY <2>3 DEF NoYoung, Young, Alive, Unborn, Dead, Fading, PhaseOf, Owner, Owning, Starting
      <4>2. Incumbent \in Workers \cup {NoOne}
        BY DEF Incumbent
      <4> QED
        BY <4>1, <4>2 DEF Phase
    <3>2. Abstract!Forget
      BY <2>1, <2>3, <3>1 DEF Abstract!Forget
    <3> QED
      BY <3>2 DEF Abstract!Next
  <2> QED
    BY <1>5, <2>2, <2>3, ClearsQuietly
<1> QED
  BY <1>3, <1>4, <1>5 DEF Effect

\* One command at a time, rebinds included: files, clients, systemd and the deaths of
\* processes show as one daemon at one durable address, which a rebind forgets only while
\* nobody serves there or is about to.  Nothing is assumed of the lifetime lock.
THEOREM SequentialCommandsKeepOneDaemon ==
  ASSUME ~Impatient
  PROVE  Spec /\ []OneCommand => KeepsOneDaemon
<1>1. Init => Abstract!Init
  BY InitRefines
<1>2. SequentialInv /\ SequentialInv' /\ OneCommand /\ [Next]_vars
        => [Abstract!Next]_(Abstract!daemonVars)
  BY ForgetRefines
<1> QED
  BY <1>1, <1>2, SequentialInvariance, PTL DEF Spec, KeepsOneDaemon, Abstract!Spec

==============================================================================
