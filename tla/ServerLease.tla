------------------------------ MODULE ServerLease ------------------------------
(***************************************************************************)
(* Project servers: started or reused by requests, leased in the resource  *)
(* registry, stopped by their project or reclaimed by housekeeping.        *)
(*                                                                         *)
(* A request ensures the server of its project: a URL that answers is      *)
(* reused unless the registry says that it is another project's; otherwise *)
(* a process is started, awaited and registered under the run and the pid. *)
(* Then the leases of the project are refreshed from a listing.  A         *)
(* production stage stops the server it started; server.stop stops what is *)
(* registered.  No lock is held anywhere: every registry access and every  *)
(* signal is a step of its own.  Servers outlive the daemon.               *)
(* One kind of server ("dev" or "prod") is modelled: records of different  *)
(* kinds never match.                                                      *)
(*                                                                         *)
(* Source: internal/server/server.go, internal/server/proc_unix.go,        *)
(* internal/core/core.go, internal/core/ops.go, internal/profile/profile.go.*)
(***************************************************************************)
EXTENDS Naturals, FiniteSets

CONSTANTS
  Runs,       \* run ids, each used by one request only
  Projects,   \* project keys
  Urls,       \* server URLs
  Url,        \* the URL each project declares for its server
  Pids,       \* process ids, never used twice
  Keepers,    \* concurrent housekeeping passes
  NoProject,  \* the owner of a server that was started by hand
  NoRun,      \* no run
  NoPid,      \* no process
  MaxCrashes  \* bound: crashes of the daemon process

ASSUME UrlAssumption == Url \in [Projects -> Urls]
ASSUME NothingAssumption == NoProject \notin Projects /\ NoRun \notin Runs /\ NoPid \notin Pids
ASSUME BoundsAssumption == IsFiniteSet(Pids) /\ MaxCrashes \in Nat

VARIABLES
  proc,     \* the server processes
  records,  \* the server records of the registry, by pid (the id ends in the pid)
  pc,       \* where each request is
  mode,     \* what it does: "use" a server, "prod" (use and stop its own), "stop"
  proj,     \* its project
  child,    \* the process it has started, or is stopping
  copies,   \* the records refreshServerLease has listed and still re-registers
  stops,    \* the stopNamedServer calls server.stop still makes
  active,   \* Runtime.runs
  kpc,      \* where each housekeeping pass is
  todo,     \* the entries it still has to reclaim
  killed,   \* the process it has signalled and whose record it still removes
  crashes,  \* crashes so far
  orphans   \* history: processes whose registration failed or was cut off by a crash

requestVars == <<pc, mode, proj, child, copies, stops, active>>
keeperVars == <<kpc, todo, killed>>
faultVars == <<crashes, orphans>>
vars == <<proc, records, requestVars, keeperVars, faultVars>>

------------------------------------------------------------------------------
States == {"free", "starting", "serving", "dying", "dead"}
Process == [state : States, home : Projects \cup {NoProject}, url : Urls]

Record == [key : Projects \cup {NoProject}, run : Runs \cup {NoRun}, lapsed : BOOLEAN]
NoRecord == [key |-> NoProject, run |-> NoRun, lapsed |-> FALSE]

Copy == [pid : Pids, run : Runs]
Entry == [pid : Pids, run : Runs]

\* A server that has been told to stop may go on answering for a while.
Answers(p) == proc[p].state \in {"serving", "dying"}
Reachable(u) == \E p \in Pids : Answers(p) /\ proc[p].url = u

Listed == {p \in Pids : records[p].run # NoRun}
Expired == {p \in Listed : records[p].lapsed}

\* Mutant: any server of that name will do.
OwnsAny(k) == Listed

\* ownsResource: the listed records of a project.
Owns(k) == {p \in Listed : records[p].key = k}

SetState(p, s) == proc' = [proc EXCEPT ![p].state = s]

\* KillProcessGroup only sends SIGTERM; no process, nothing happens.
Signal(p) ==
  IF proc[p].state \in {"starting", "serving"} THEN SetState(p, "dying") ELSE UNCHANGED proc

Remove(p) == records' = [records EXCEPT ![p] = NoRecord]

------------------------------------------------------------------------------
(* Server processes, and servers started by hand.                          *)

ProcessOnly == UNCHANGED <<records, requestVars, keeperVars, faultVars>>

Bind(p) ==
  /\ proc[p].state = "starting"
  /\ SetState(p, IF Reachable(proc[p].url) THEN "dead" ELSE "serving")
  /\ ProcessOnly

Die(p) ==
  /\ proc[p].state \in {"starting", "serving", "dying"}
  /\ SetState(p, "dead")
  /\ ProcessOnly

ByHand(p, u) ==
  /\ proc[p].state = "free"
  /\ ~Reachable(u)
  /\ proc' = [proc EXCEPT ![p] = [state |-> "serving", home |-> NoProject, url |-> u]]
  /\ ProcessOnly

Lapse(p) ==
  /\ p \in Listed \ Expired
  /\ records' = [records EXCEPT ![p].lapsed = TRUE]
  /\ UNCHANGED <<proc, requestVars, keeperVars, faultVars>>

------------------------------------------------------------------------------
(* Requests.                                                               *)

Goto(r, place) == pc' = [pc EXCEPT ![r] = place]

Begin(r, k, m) ==
  /\ pc[r] = "new"
  /\ Goto(r, IF m = "stop" THEN "counting" ELSE "probing")
  /\ mode' = [mode EXCEPT ![r] = m]
  /\ proj' = [proj EXCEPT ![r] = k]
  /\ active' = active \cup {r}
  /\ UNCHANGED <<proc, records, child, copies, stops, keeperVars, faultVars>>

\* Ensure: does anything answer at the project's URL, and in time?
Probe(r) ==
  /\ pc[r] = "probing"
  /\ Goto(r, "spawning") \/ (Reachable(Url[proj[r]]) /\ Goto(r, "checking"))
  /\ UNCHANGED <<proc, records, mode, proj, child, copies, stops, active, keeperVars, faultVars>>

\* checkForeignOwned: it is reused unless a record of another project names it.
CheckForeign(r) ==
  /\ pc[r] = "checking"
  /\ Goto(r, IF \E p \in Listed : records[p].key # proj[r] /\ Url[records[p].key] = Url[proj[r]]
               THEN "done" ELSE "leasing")
  /\ UNCHANGED <<proc, records, mode, proj, child, copies, stops, active, keeperVars, faultVars>>

Spawn(r, p) ==
  /\ pc[r] = "spawning"
  /\ proc[p].state = "free"
  /\ proc' = [proc EXCEPT ![p] = [state |-> "starting", home |-> proj[r], url |-> Url[proj[r]]]]
  /\ child' = [child EXCEPT ![r] = p]
  /\ Goto(r, "waiting")
  /\ UNCHANGED <<records, mode, proj, copies, stops, active, keeperVars, faultVars>>

\* No command, no log file, or no process.
SpawnFails(r) ==
  /\ pc[r] = "spawning"
  /\ Goto(r, "done")
  /\ UNCHANGED <<proc, records, mode, proj, child, copies, stops, active, keeperVars, faultVars>>

\* The URL answers, whoever answers it.
Ready(r) ==
  /\ pc[r] = "waiting"
  /\ Reachable(Url[proj[r]])
  /\ Goto(r, "registering")
  /\ UNCHANGED <<proc, records, mode, proj, child, copies, stops, active, keeperVars, faultVars>>

\* Mutant: a cancelled request just returns.
NotReadyReturns(r) ==
  /\ pc[r] = "waiting"
  /\ Goto(r, "done")
  /\ UNCHANGED <<proc, records, mode, proj, child, copies, stops, active, keeperVars, faultVars>>

\* The request is cancelled or the deadline has passed: the process is killed and
\* waited for.
NotReady(r) ==
  /\ pc[r] = "waiting"
  /\ Goto(r, "done")
  /\ SetState(child[r], "dead")
  /\ UNCHANGED <<records, mode, proj, child, copies, stops, active, keeperVars, faultVars>>

\* Mutant: the record is attributed to whoever answers the URL.
RegisterAnswering(r) ==
  /\ pc[r] = "registering"
  /\ \E p \in Pids : (Answers(p) \/ p = child[r]) /\ proc[p].url = Url[proj[r]] /\
       records' = [records EXCEPT ![p] = [key |-> proj[r], run |-> r, lapsed |-> FALSE]]
  /\ UNCHANGED orphans
  /\ Goto(r, "leasing")
  /\ UNCHANGED <<proc, mode, proj, child, copies, stops, active, keeperVars, crashes>>

\* Server.register drops the error of Registry.Register.
Register(r) ==
  /\ pc[r] = "registering"
  /\ \/ /\ records' = [records EXCEPT ![child[r]] =
                         [key |-> proj[r], run |-> r, lapsed |-> FALSE]]
        /\ UNCHANGED orphans
     \/ /\ orphans' = orphans \cup {child[r]}
        /\ UNCHANGED records
  /\ Goto(r, "leasing")
  /\ UNCHANGED <<proc, mode, proj, child, copies, stops, active, keeperVars, crashes>>

\* refreshServerLease lists the records of the project ...
ListLeases(r) ==
  /\ pc[r] = "leasing"
  /\ copies' = [copies EXCEPT ![r] = {[pid |-> p, run |-> records[p].run] : p \in Owns(proj[r])}]
  /\ Goto(r, "refreshing")
  /\ UNCHANGED <<proc, records, mode, proj, child, stops, active, keeperVars, faultVars>>

\* ... and registers each again with a new lease and its old run, even one that has
\* been removed meanwhile.
RefreshLease(r, e) ==
  /\ pc[r] = "refreshing"
  /\ e \in copies[r]
  /\ copies' = [copies EXCEPT ![r] = @ \ {e}]
  /\ \/ records' = [records EXCEPT ![e.pid] = [key |-> proj[r], run |-> e.run, lapsed |-> FALSE]]
     \/ UNCHANGED records
  /\ UNCHANGED <<proc, pc, mode, proj, child, stops, active, keeperVars, faultVars>>

Refreshed(r) ==
  /\ pc[r] = "refreshing" /\ copies[r] = {}
  /\ Goto(r, "using")
  /\ UNCHANGED <<proc, records, mode, proj, child, copies, stops, active, keeperVars, faultVars>>

\* A request that uses a server leaves it running; a production stage that only
\* reused one has nothing to stop.
Leave(r) ==
  /\ pc[r] = "using"
  /\ mode[r] = "use" \/ child[r] = NoPid
  /\ Goto(r, "done")
  /\ UNCHANGED <<proc, records, mode, proj, child, copies, stops, active, keeperVars, faultVars>>

\* Server.Stop at the end of a production stage: kill, wait, then remove.
ProdStop(r) ==
  /\ pc[r] = "using"
  /\ mode[r] = "prod" /\ child[r] # NoPid
  /\ Goto(r, "removing")
  /\ SetState(child[r], "dead")
  /\ UNCHANGED <<records, mode, proj, child, copies, stops, active, keeperVars, faultVars>>

\* server.stop counts the project's records ...
CountServers(r) ==
  /\ pc[r] = "counting"
  /\ stops' = [stops EXCEPT ![r] = Cardinality(Owns(proj[r]))]
  /\ Goto(r, "stopping")
  /\ UNCHANGED <<proc, records, mode, proj, child, copies, active, keeperVars, faultVars>>

\* ... and calls stopNamedServer as often: it lists again and stops the first.
StopNamed(r, p) ==
  /\ pc[r] = "stopping" /\ stops[r] > 0
  /\ p \in Owns(proj[r])
  /\ Signal(p)
  /\ child' = [child EXCEPT ![r] = p]
  /\ Goto(r, "removing")
  /\ UNCHANGED <<records, mode, proj, copies, stops, active, keeperVars, faultVars>>

NothingToStop(r) ==
  /\ pc[r] = "stopping"
  /\ stops[r] = 0 \/ Owns(proj[r]) = {}
  /\ Goto(r, "done")
  /\ UNCHANGED <<proc, records, mode, proj, child, copies, stops, active, keeperVars, faultVars>>

\* Mutant: every removal is counted as one of server.stop.
RemoveCounted(r) ==
  /\ pc[r] = "removing"
  /\ \/ /\ Remove(child[r])
        /\ Goto(r, IF mode[r] = "stop" THEN "stopping" ELSE "done")
        /\ stops' = [stops EXCEPT ![r] = @ - 1]
     \/ Goto(r, "done") /\ UNCHANGED <<records, stops>>
  /\ UNCHANGED <<proc, mode, proj, child, copies, active, keeperVars, faultVars>>

\* The record is removed.  If it cannot be, it stays for a later pass, and
\* server.stop returns the error.
RemoveStopped(r) ==
  /\ pc[r] = "removing"
  /\ \/ /\ mode[r] = "stop"
        /\ Remove(child[r])
        /\ Goto(r, "stopping")
        /\ stops' = [stops EXCEPT ![r] = @ - 1]
     \/ /\ mode[r] = "prod"
        /\ Remove(child[r])
        /\ Goto(r, "done")
        /\ UNCHANGED stops
     \/ Goto(r, "done") /\ UNCHANGED <<records, stops>>
  /\ UNCHANGED <<proc, mode, proj, child, copies, active, keeperVars, faultVars>>

\* What a request holds in memory goes with it.
Forget(rs) ==
  /\ mode' = [r \in Runs |-> IF r \in rs THEN "use" ELSE mode[r]]
  /\ proj' = [r \in Runs |-> IF r \in rs THEN NoProject ELSE proj[r]]
  /\ child' = [r \in Runs |-> IF r \in rs THEN NoPid ELSE child[r]]
  /\ stops' = [r \in Runs |-> IF r \in rs THEN 0 ELSE stops[r]]

\* Core.Close
End(r) ==
  /\ pc[r] = "done"
  /\ Goto(r, "ended")
  /\ active' = active \ {r}
  /\ Forget({r})
  /\ UNCHANGED <<proc, records, copies, keeperVars, faultVars>>

------------------------------------------------------------------------------
(* Housekeeping: Core.tick.                                                *)

StartPass(h) ==
  /\ kpc[h] = "idle"
  /\ kpc' = [kpc EXCEPT ![h] = "listed"]
  /\ todo' = [todo EXCEPT ![h] = {[pid |-> p, run |-> records[p].run] : p \in Expired}]
  /\ UNCHANGED <<proc, records, requestVars, killed, faultVars>>

SkipActive(h) ==
  /\ kpc[h] = "listed"
  /\ kpc' = [kpc EXCEPT ![h] = "working"]
  /\ todo' = [todo EXCEPT ![h] = {e \in @ : e.run \notin active}]
  /\ UNCHANGED <<proc, records, requestVars, killed, faultVars>>

ReclaimSignal(h, e) ==
  /\ kpc[h] = "working"
  /\ e \in todo[h]
  /\ Signal(e.pid)
  /\ kpc' = [kpc EXCEPT ![h] = "removing"]
  /\ todo' = [todo EXCEPT ![h] = @ \ {e}]
  /\ killed' = [killed EXCEPT ![h] = e.pid]
  /\ UNCHANGED <<records, requestVars, faultVars>>

ReclaimRemove(h) ==
  /\ kpc[h] = "removing"
  /\ Remove(killed[h])
  /\ kpc' = [kpc EXCEPT ![h] = "working"]
  /\ killed' = [killed EXCEPT ![h] = NoPid]
  /\ UNCHANGED <<proc, todo, requestVars, faultVars>>

ReclaimRemoveFails(h) ==
  /\ kpc[h] = "removing"
  /\ kpc' = [kpc EXCEPT ![h] = "working"]
  /\ killed' = [killed EXCEPT ![h] = NoPid]
  /\ UNCHANGED <<proc, records, todo, requestVars, faultVars>>

EndPass(h) ==
  /\ kpc[h] = "working" /\ todo[h] = {}
  /\ kpc' = [kpc EXCEPT ![h] = "idle"]
  /\ UNCHANGED <<proc, records, todo, killed, requestVars, faultVars>>

------------------------------------------------------------------------------
Launching(r) == pc[r] \in {"waiting", "registering"}

\* The daemon dies and boots again; servers have process groups of their own.
Crash ==
  /\ crashes < MaxCrashes
  /\ crashes' = crashes + 1
  /\ pc' = [r \in Runs |-> IF pc[r] = "new" THEN "new" ELSE "ended"]
  /\ active' = {}
  /\ orphans' = orphans \cup {child[r] : r \in {q \in Runs : Launching(q)}}
  /\ copies' = [r \in Runs |-> {}]
  /\ kpc' = [h \in Keepers |-> "idle"]
  /\ todo' = [h \in Keepers |-> {}]
  /\ killed' = [h \in Keepers |-> NoPid]
  /\ Forget(Runs)
  /\ UNCHANGED <<proc, records>>

Init ==
  /\ \E u \in Urls :
       proc = [p \in Pids |-> [state |-> "free", home |-> NoProject, url |-> u]]
  /\ records = [p \in Pids |-> NoRecord]
  /\ pc = [r \in Runs |-> "new"]
  /\ mode = [r \in Runs |-> "use"]
  /\ proj = [r \in Runs |-> NoProject]
  /\ child = [r \in Runs |-> NoPid]
  /\ copies = [r \in Runs |-> {}]
  /\ stops = [r \in Runs |-> 0]
  /\ active = {}
  /\ kpc = [h \in Keepers |-> "idle"]
  /\ todo = [h \in Keepers |-> {}]
  /\ killed = [h \in Keepers |-> NoPid]
  /\ crashes = 0
  /\ orphans = {}

Modes == {"use", "prod", "stop"}

RunStep(r) ==
  \/ Probe(r) \/ CheckForeign(r) \/ SpawnFails(r) \/ Ready(r) \/ NotReady(r) \/ Register(r)
  \/ (\E p \in Pids : Spawn(r, p) \/ StopNamed(r, p))
  \/ ListLeases(r) \/ (\E e \in copies[r] : RefreshLease(r, e)) \/ Refreshed(r)
  \/ Leave(r) \/ ProdStop(r) \/ CountServers(r) \/ NothingToStop(r) \/ RemoveStopped(r)
  \/ End(r)

PassStep(h) ==
  \/ StartPass(h) \/ SkipActive(h) \/ (\E e \in todo[h] : ReclaimSignal(h, e))
  \/ ReclaimRemove(h) \/ ReclaimRemoveFails(h) \/ EndPass(h)

Next ==
  \/ \E r \in Runs : RunStep(r) \/ \E k \in Projects, m \in Modes : Begin(r, k, m)
  \/ \E h \in Keepers : PassStep(h)
  \/ \E p \in Pids : Bind(p) \/ Die(p) \/ Lapse(p) \/ \E u \in Urls : ByHand(p, u)
  \/ Crash

Spec == Init /\ [][Next]_vars

------------------------------------------------------------------------------
(* Properties.                                                             *)

Places == {"new", "probing", "checking", "spawning", "waiting", "registering", "leasing",
           "refreshing", "using", "counting", "stopping", "removing", "done", "ended"}

\* Every variable stays in its type.
TypeOK ==
  /\ proc \in [Pids -> Process]
  /\ records \in [Pids -> Record]
  /\ pc \in [Runs -> Places]
  /\ mode \in [Runs -> Modes]
  /\ proj \in [Runs -> Projects \cup {NoProject}]
  /\ child \in [Runs -> Pids \cup {NoPid}]
  /\ copies \in [Runs -> SUBSET Copy]
  /\ stops \in [Runs -> Nat]
  /\ active \subseteq Runs
  /\ kpc \in [Keepers -> {"idle", "listed", "working", "removing"}]
  /\ todo \in [Keepers -> SUBSET Entry]
  /\ killed \in [Keepers -> Pids \cup {NoPid}]
  /\ crashes \in Nat
  /\ orphans \subseteq Pids

\* A server record is about a process that a request of that very project started,
\* whoever answers the URL, whatever is refreshed from an old listing and removed
\* in between.
RecordNamesOwnProcess ==
  \A p \in Listed : proc[p].state # "free" /\ records[p].key = proc[p].home

\* A step that makes a server stop, or kills it.
Hit(p) == proc[p].state # proc'[p].state /\ proc'[p].state \in {"dying", "dead"}

OwnStopsOnly ==
  \A p \in Pids :
    /\ \A r \in Runs : Hit(p) /\ pc[r] # pc'[r] => proc[p].home = proj[r]
    /\ Hit(p) /\ proc'[p].state = "dying" => proc[p].home # NoProject

\* A request stops servers of its own project only, and nobody ever signals a
\* server that was started by hand, even at a URL a project declares.
StopsOnlyOwn == [][OwnStopsOnly]_vars

\* A server that Game Forge started and that has not been told to stop is
\* registered, or its request is still waiting for it; a lost registration or a
\* crash before it are the only ways to an orphan.
NoOrphanServer ==
  \A p \in Pids \ orphans :
    (proc[p].home # NoProject /\ proc[p].state \in {"starting", "serving"})
      => p \in Listed \/ \E r \in Runs : Launching(r) /\ child[r] = p

------------------------------------------------------------------------------
(* What a comment of the source promises and the code does not keep.       *)

\* server.go:177 "checkForeignOwned reports a conflict when the reachable URL is
\* already a Game Forge-owned server belonging to a different project. A
\* same-project or unowned endpoint may be reused."
ConflictIsReal ==
  [][\A r \in Runs :
       pc[r] = "checking" /\ pc'[r] = "done" =>
         \E p \in Pids : /\ Answers(p) /\ proc[p].url = Url[proj[r]]
                         /\ proc[p].home \notin {proj[r], NoProject}]_vars
================================================================================
