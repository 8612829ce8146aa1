---------------------------- MODULE DaemonOwnership ----------------------------
(***************************************************************************)
(* One worker process is the daemon: the life of "daemon serve" processes. *)
(*                                                                         *)
(* A worker passes the singleton guard, claims the lifetime lock (a file   *)
(* created with O_EXCL and then stamped with the owner's pid), binds the   *)
(* durable port, announces itself in the discovery file and serves.  A     *)
(* stopping worker closes the endpoint first, then drains, and releases    *)
(* the lifetime lock last.  A lock without a live pid is taken for stale   *)
(* and removed by path, without a check that it is still the same file.    *)
(* The files outlive the processes; every step between two file operations *)
(* is a point where other workers run or where the process dies.           *)
(*                                                                         *)
(* Source: internal/daemon/server.go, internal/daemon/endpoint.go,         *)
(* internal/daemon/discovery.go, internal/cli/daemonctl.go.                *)
(***************************************************************************)
EXTENDS Naturals, FiniteSets

CONSTANTS
  Workers,     \* worker processes, each a pid of its own, run once
  Earlier,     \* pairs of workers that are launched in this order; {} leaves it open
  Clients,     \* client processes, which share the startup lock with workers
  Ports,       \* the port range
  NoOne,       \* no process
  NoPort,      \* no port
  Impatient,   \* whether a deadline may pass before what it waits for
  Intruder,    \* whether another program may occupy the durable port
  MaxCrashes   \* bound: processes that die

ASSUME ProcessesAssumption == NoOne \notin Workers \cup Clients /\ Workers \cap Clients = {}
ASSUME OrderAssumption == Earlier \subseteq Workers \X Workers
ASSUME PortsAssumption == NoPort \notin Ports
ASSUME OptionsAssumption == Impatient \in BOOLEAN /\ Intruder \in BOOLEAN /\ MaxCrashes \in Nat

VARIABLES
  pc,         \* where each worker is
  want,       \* the durable port a worker has read
  port,       \* the port a worker has bound
  asked,      \* the workers asked to stop
  holds,      \* the stopping workers that took the startup lock
  lock,       \* the lifetime lock: who created the file, and whether it carries the pid
  persisted,  \* the durable port (endpoint.json)
  disc,       \* the discovery file: the worker that wrote it
  startLock,  \* the startup lock: who created the file
  crashes,    \* processes that have died
  stolen      \* history: workers whose lifetime lock another process removed

files == <<lock, persisted, disc, startLock>>
processVars == <<pc, want, port, asked, holds>>
workerVars == <<processVars, files, crashes, stolen>>

------------------------------------------------------------------------------
NoLock == [owner |-> NoOne, stamped |-> FALSE]

Unborn(w) == pc[w] = "unborn"
Dead(w) == pc[w] \in {"exited", "crashed"}
Alive(w) == ~Unborn(w) /\ ~Dead(w)

\* Between creating the lifetime lock and removing it.
Owning == {"stamp", "load", "listen", "persist", "announce", "reconcile", "serving",
           "shutdown", "undiscover", "drain", "unhold", "unannounce", "release"}
Owner(w) == pc[w] \in Owning

\* Between net.Listen and the close of the listener.
Listening(w) == pc[w] \in {"persist", "announce", "reconcile", "serving"}
Occupied(p) == \E w \in Workers : Listening(w) /\ port[w] = p

\* client.Connect: the endpoint in the discovery file answers /health, and to the
\* token in it, which only the worker that wrote the file accepts.
Connected == disc # NoOne /\ pc[disc] = "serving"

\* The lifetime lock carries no pid of a live process, or is not there.
Unowned == ~lock.stamped \/ Dead(lock.owner)

\* Mutant: stop looks at the endpoint alone.
AlwaysFree == TRUE

\* daemon.OwnershipFree
OwnershipFree == Unowned

Goto(w, place) == pc' = [pc EXCEPT ![w] = place]

\* The lifetime lock is removed by path, whoever created it.
RemoveLock(w) ==
  /\ lock' = NoLock
  /\ stolen' = IF lock.owner \notin {w, NoOne} /\ Owner(lock.owner)
                 THEN stolen \cup {lock.owner} ELSE stolen

------------------------------------------------------------------------------
(* Starting.                                                               *)

\* The singleton guard of daemonServe: a healthy daemon makes this one exit.
Guard(w) ==
  /\ pc[w] = "guard"
  /\ Goto(w, IF Connected THEN "exited" ELSE "acquire")
  /\ UNCHANGED <<want, port, asked, holds, files, crashes, stolen>>

\* Mutant: the lock file is created without O_EXCL.
CreateLockShared(w) ==
  /\ pc[w] = "acquire"
  /\ Goto(w, "stamp") /\ lock' = [owner |-> w, stamped |-> FALSE]
  /\ UNCHANGED <<want, port, asked, holds, persisted, disc, startLock, crashes, stolen>>

\* acquireLifetimeLock: O_CREATE|O_EXCL ...
CreateLock(w) ==
  /\ pc[w] = "acquire"
  /\ IF lock = NoLock
       THEN Goto(w, "stamp") /\ lock' = [owner |-> w, stamped |-> FALSE]
       ELSE Goto(w, "read") /\ UNCHANGED lock
  /\ UNCHANGED <<want, port, asked, holds, persisted, disc, startLock, crashes, stolen>>

\* ... then the pid is written, into a file that may be unlinked by now.
StampLock(w) ==
  /\ pc[w] = "stamp"
  /\ Goto(w, "load")
  /\ lock' = IF lock.owner = w THEN [lock EXCEPT !.stamped = TRUE] ELSE lock
  /\ UNCHANGED <<want, port, asked, holds, persisted, disc, startLock, crashes, stolen>>

\* Mutant: an owner whose endpoint does not answer is taken for dead.
ReadEndpoint(w) ==
  /\ pc[w] = "read"
  /\ Goto(w, IF Connected THEN "acquire" ELSE "unlink")
  /\ UNCHANGED <<want, port, asked, holds, files, crashes, stolen>>

\* Mutant: the pid in the file is not checked to be alive.
ReadTrusting(w) ==
  /\ pc[w] = "read"
  /\ Goto(w, IF lock.stamped THEN "acquire" ELSE "unlink")
  /\ UNCHANGED <<want, port, asked, holds, files, crashes, stolen>>

\* The file existed: what is read now decides.  A missing or an empty file and a
\* dead pid are stale; a live owner is waited for.
ReadLock(w) ==
  /\ pc[w] = "read"
  /\ Goto(w, IF Unowned THEN "unlink" ELSE "acquire")
  /\ UNCHANGED <<want, port, asked, holds, files, crashes, stolen>>

\* The stale file is removed by path, whatever it is by now.
UnlinkLock(w) ==
  /\ pc[w] = "unlink"
  /\ Goto(w, "acquire")
  /\ RemoveLock(w)
  /\ UNCHANGED <<want, port, asked, holds, persisted, disc, startLock, crashes>>

\* Mutant: the discovery file is removed on every way out of Serve.
GiveUpAndUndiscover(w) ==
  /\ Impatient
  /\ pc[w] = "read" /\ ~Unowned
  /\ Goto(w, "exited")
  /\ disc' = NoOne
  /\ UNCHANGED <<want, port, asked, holds, lock, persisted, startLock, crashes, stolen>>

\* ownershipWait has passed.
GiveUp(w) ==
  /\ Impatient
  /\ pc[w] = "read" /\ ~Unowned
  /\ Goto(w, "exited")
  /\ UNCHANGED <<want, port, asked, holds, files, crashes, stolen>>

\* bindEndpoint reads the durable port ...
LoadPort(w) ==
  /\ pc[w] = "load"
  /\ Goto(w, "listen")
  /\ want' = [want EXCEPT ![w] = persisted]
  /\ UNCHANGED <<port, asked, holds, files, crashes, stolen>>

\* Mutant: a worker that finds the durable port taken moves to another.
ListenAnywhere(w) ==
  /\ pc[w] = "listen"
  /\ \E p \in Ports : ~Occupied(p) /\ port' = [port EXCEPT ![w] = p]
  /\ Goto(w, IF want[w] = NoPort THEN "persist" ELSE "announce")
  /\ UNCHANGED <<want, asked, holds, files, crashes, stolen>>

\* ... and binds exactly that one, or any free one of the range if there is none.
Listen(w) ==
  /\ pc[w] = "listen"
  /\ \E p \in Ports :
       /\ want[w] \in {p, NoPort}
       /\ ~Occupied(p)
       /\ port' = [port EXCEPT ![w] = p]
  /\ Goto(w, IF want[w] = NoPort THEN "persist" ELSE "announce")
  /\ UNCHANGED <<want, asked, holds, files, crashes, stolen>>

\* The durable port is taken: the worker fails, and never moves to another.
PortBusy(w) ==
  /\ pc[w] = "listen"
  /\ IF want[w] = NoPort THEN \A p \in Ports : Occupied(p) ELSE Occupied(want[w]) \/ Intruder
  /\ Goto(w, "release")
  /\ UNCHANGED <<want, port, asked, holds, files, crashes, stolen>>

PersistPort(w) ==
  /\ pc[w] = "persist"
  /\ Goto(w, "announce")
  /\ persisted' = port[w]
  /\ UNCHANGED <<want, port, asked, holds, lock, disc, startLock, crashes, stolen>>

Announce(w) ==
  /\ pc[w] = "announce"
  /\ Goto(w, "reconcile")
  /\ disc' = w
  /\ UNCHANGED <<want, port, asked, holds, lock, persisted, startLock, crashes, stolen>>

\* Startup reconciliation is over and requests are answered.
StartServing(w) ==
  /\ pc[w] = "reconcile"
  /\ Goto(w, "serving")
  /\ UNCHANGED <<want, port, asked, holds, files, crashes, stolen>>

------------------------------------------------------------------------------
(* Stopping.                                                               *)

\* Server.Stop: /v1/shutdown, or SIGTERM.
AskToStop(w) == asked' = asked \cup {w}

\* http.Server.Shutdown closes the listener, then waits for requests in flight.
Shutdown(w) ==
  /\ pc[w] = "serving" /\ w \in asked
  /\ Goto(w, "shutdown")
  /\ UNCHANGED <<want, port, asked, holds, files, crashes, stolen>>

\* holdStartupLock, unless a starter has it.
HoldStartLock(w) ==
  /\ pc[w] = "shutdown"
  /\ Goto(w, "undiscover")
  /\ IF startLock = NoOne
       THEN startLock' = w /\ holds' = holds \cup {w}
       ELSE UNCHANGED <<startLock, holds>>
  /\ UNCHANGED <<want, port, asked, lock, persisted, disc, crashes, stolen>>

Undiscover(w) ==
  /\ pc[w] = "undiscover"
  /\ Goto(w, "drain")
  /\ disc' = NoOne
  /\ UNCHANGED <<want, port, asked, holds, lock, persisted, startLock, crashes, stolen>>

\* releaseOwned
Drain(w) ==
  /\ pc[w] = "drain"
  /\ Goto(w, "unhold")
  /\ UNCHANGED <<want, port, asked, holds, files, crashes, stolen>>

\* Mutant: the startup lock is removed whether or not it was taken here.
ReleaseStartLockAnyway(w) ==
  /\ pc[w] = "unhold"
  /\ Goto(w, "unannounce")
  /\ startLock' = NoOne
  /\ holds' = holds \ {w}
  /\ UNCHANGED <<want, port, asked, lock, persisted, disc, crashes, stolen>>

\* The startup lock is removed by path if it was taken here.
ReleaseStartLock(w) ==
  /\ pc[w] = "unhold"
  /\ Goto(w, "unannounce")
  /\ startLock' = IF w \in holds THEN NoOne ELSE startLock
  /\ holds' = holds \ {w}
  /\ UNCHANGED <<want, port, asked, lock, persisted, disc, crashes, stolen>>

\* The deferred Remove, also on the path where Serve fails on its own.
Unannounce(w) ==
  /\ pc[w] = "unannounce"
  /\ Goto(w, "release")
  /\ disc' = NoOne
  /\ UNCHANGED <<want, port, asked, holds, lock, persisted, startLock, crashes, stolen>>

\* The deferred release, the last thing a worker does.
ReleaseLock(w) ==
  /\ pc[w] = "release"
  /\ Goto(w, "exited")
  /\ RemoveLock(w)
  /\ UNCHANGED <<want, port, asked, holds, persisted, disc, startLock, crashes>>

ServeFails(w) ==
  /\ pc[w] = "serving"
  /\ crashes < MaxCrashes
  /\ crashes' = crashes + 1
  /\ Goto(w, "unannounce")
  /\ UNCHANGED <<want, port, asked, holds, files, stolen>>

\* The process ends in the middle of what it does.
Die(w) ==
  /\ Alive(w)
  /\ Goto(w, "crashed")
  /\ UNCHANGED <<want, port, asked, holds, files, stolen>>

Crash(w) == Die(w) /\ crashes < MaxCrashes /\ crashes' = crashes + 1

\* SIGTERM before the worker handles it.
Killed(w) == Die(w) /\ UNCHANGED crashes

------------------------------------------------------------------------------
WorkerStep(w) ==
  \/ Guard(w) \/ CreateLock(w) \/ StampLock(w) \/ ReadLock(w) \/ UnlinkLock(w)
  \/ LoadPort(w) \/ Listen(w) \/ PortBusy(w) \/ PersistPort(w) \/ Announce(w)
  \/ StartServing(w) \/ Shutdown(w) \/ HoldStartLock(w) \/ Undiscover(w) \/ Drain(w)
  \/ ReleaseStartLock(w) \/ Unannounce(w) \/ ReleaseLock(w)

WorkerFault(w) == GiveUp(w) \/ ServeFails(w) \/ Crash(w)

\* "daemon serve" is run directly, and stopped by a signal, at any time.
Launch(w) ==
  /\ Unborn(w)
  /\ \A v \in Workers : <<v, w>> \in Earlier => ~Unborn(v)
  /\ Goto(w, "guard")
  /\ UNCHANGED <<want, port, asked, holds, files, crashes, stolen>>

Signal(w) ==
  /\ pc[w] = "serving" /\ w \notin asked
  /\ AskToStop(w)
  /\ UNCHANGED <<pc, want, port, holds, files, crashes, stolen>>

WorkerInit ==
  /\ pc = [w \in Workers |-> "unborn"]
  /\ want = [w \in Workers |-> NoPort]
  /\ port = [w \in Workers |-> NoPort]
  /\ asked = {}
  /\ holds = {}
  /\ lock = NoLock
  /\ persisted = NoPort
  /\ disc = NoOne
  /\ startLock = NoOne
  /\ crashes = 0
  /\ stolen = {}

WorkerNext == \E w \in Workers : Launch(w) \/ Signal(w) \/ WorkerStep(w) \/ WorkerFault(w)

WorkerSpec == WorkerInit /\ [][WorkerNext]_workerVars

------------------------------------------------------------------------------
(* Properties.                                                             *)

Places == Owning \cup {"unborn", "guard", "acquire", "read", "unlink", "exited", "crashed"}

\* Every variable stays in its type.
WorkerTypeOK ==
  /\ pc \in [Workers -> Places]
  /\ want \in [Workers -> Ports \cup {NoPort}]
  /\ port \in [Workers -> Ports \cup {NoPort}]
  /\ asked \subseteq Workers /\ holds \subseteq Workers /\ stolen \subseteq Workers
  /\ lock \in [owner : Workers \cup {NoOne}, stamped : BOOLEAN]
  /\ persisted \in Ports \cup {NoPort}
  /\ disc \in Workers \cup {NoOne}
  /\ startLock \in Workers \cup Clients \cup {NoOne}
  /\ crashes \in 0..MaxCrashes

\* Two workers own the daemon at once only if the lock file of one of them was
\* removed by another process: waiting, draining, failing to bind and dying
\* never let two in by themselves.
MutexUnlessStolen ==
  \A v, w \in Workers :
    Owner(v) /\ Owner(w) /\ v # w => v \in stolen \/ w \in stolen

\* The first theft of a live owner's lock is always the removal of a file taken
\* for stale; a worker that releases removes its own file.
FirstTheftIsStaleReclaim ==
  [][stolen = {} /\ stolen' # {} => \E w \in Workers : UnlinkLock(w)]_workerVars

\* A worker that answers requests is the one clients find, on the durable port:
\* a stopping predecessor takes back its own discovery file only.
ServingIsDiscoverable ==
  stolen = {} => \A w \in Workers :
                   pc[w] = "serving" => disc = w /\ port[w] # NoPort

\* The durable port, once chosen, is the one every later worker serves on.
DurablePortIsServed ==
  stolen = {} => \A w \in Workers :
                   pc[w] \in {"announce", "reconcile", "serving"} => port[w] = persisted

------------------------------------------------------------------------------
(* What the protocol implements.                                           *)

Incumbent == IF \E w \in Workers : Owner(w) THEN CHOOSE w \in Workers : Owner(w) ELSE NoOne

Starting == {"stamp", "load", "listen", "persist", "announce", "reconcile"}

PhaseOf(w) ==
  CASE ~Owner(w)        -> "none"
    [] pc[w] \in Starting -> "starting"
    [] pc[w] = "serving" -> "serving"
    [] OTHER             -> "stopping"

Phase == IF Incumbent = NoOne THEN "none" ELSE PhaseOf(Incumbent)
Served == IF Phase = "serving" THEN port[Incumbent] ELSE NoPort

Abstract == INSTANCE OneDaemon WITH
  owner <- Incumbent, phase <- Phase, at <- Served, address <- persisted

\* Files, locks, crashes and restarts show as one daemon that is taken over only
\* when it is gone and serves at the durable address.
KeepsOneDaemon == Abstract!Spec

------------------------------------------------------------------------------
\* server.go:171 "Only one daemon incarnation may own discovery/control at once
\* ... so two directly launched serves converge": the code does not keep it.
SingleOwner == \A v, w \in Workers : Owner(v) /\ Owner(w) => v = w
==============================================================================
