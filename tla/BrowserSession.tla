---------------------------- MODULE BrowserSession ----------------------------
(***************************************************************************)
(* Browser sessions of the daemon: who may use one, and who reclaims it.    *)
(*                                                                         *)
(* A run (one request) locks the namespace of its project, opens the       *)
(* browser of that namespace, registers it in the durable resource         *)
(* registry under its own run id and with a lease, uses it and unlocks.    *)
(* The browser is left running for the next request.  doctor opens one in  *)
(* a namespace of its own and closes it.  Housekeeping passes reclaim what *)
(* is registered and lapsed, from a snapshot, without the namespace lock;  *)
(* a stopping daemon reclaims everything.  The registry and the browsers   *)
(* outlive the daemon process; locks, in-flight runs and passes do not.    *)
(*                                                                         *)
(* Source: internal/core/core.go, internal/core/ops.go,                    *)
(* internal/process/resource.go, internal/browser/browser.go.              *)
(***************************************************************************)
EXTENDS Naturals, FiniteSets

CONSTANTS
  Runs,        \* run ids, each used by one request only
  Namespaces,  \* shared namespaces, one per checkout (and mute mode)
  Keepers,     \* concurrent housekeeping passes: the ticker, resource.gc, resource.tick
  Releaser,    \* the pass of ReleaseOwned, run once by a stopping daemon
  NoRun,       \* no run
  NoName,      \* no namespace chosen yet
  Failures,    \* the calls that may fail: a subset of AllFailures
  MaxOpens,    \* bound: sessions one run opens, one after the other
  MaxExits     \* bound: exits of the daemon process

\* "refuse": agent-browser answers that it could not, and open and close, which do
\* not look at the answer, report success.
AllFailures == {"open", "register", "close", "remove", "refuse"}

\* A session of doctor has a namespace named by its run.
Names == Namespaces \cup Runs
Passes == Keepers \cup {Releaser}

ASSUME RunsAssumption == NoRun \notin Runs /\ Runs \cap Namespaces = {}
ASSUME NamesAssumption == NoName \notin Names
ASSUME PassesAssumption == Releaser \notin Keepers
ASSUME FailuresAssumption == Failures \subseteq AllFailures
ASSUME BoundsAssumption == MaxOpens \in Nat /\ MaxExits \in Nat

VARIABLES
  daemon,   \* "up", "releasing" (draining and releasing), "stopped" or "crashed"
  exits,    \* exits so far
  pc,       \* where each run is
  name,     \* the namespace each run works on
  opens,    \* sessions each run has asked for
  active,   \* Runtime.runs: the runs marked in flight
  mutex,    \* Runtime.browserMu: the run that holds each namespace
  browser,  \* whether a browser process runs in each namespace
  records,  \* the resource registry, by browser id "browser-<namespace>"
  kpc,      \* where each pass is
  todo,     \* the entries a pass still has to reclaim
  closed    \* the entry a pass has closed and not yet removed

daemonVars == <<daemon, exits>>
runVars == <<pc, name, opens, active, mutex>>
keeperVars == <<kpc, todo, closed>>
vars == <<daemonVars, runVars, browser, records, keeperVars>>

------------------------------------------------------------------------------
(* The resource registry.                                                  *)

Record == [run : Runs \cup {NoRun}, lapsed : BOOLEAN]
NoRecord == [run |-> NoRun, lapsed |-> FALSE]
Entry == [name : Names, run : Runs]
NoEntry == [name |-> NoName, run |-> NoRun]

\* Mutant: the record's run id is taken from the namespace.
PutNamespaceAsRun(n, r) == records' = [records EXCEPT ![n] = [run |-> n, lapsed |-> FALSE]]

\* Mutant: an existing record only gets a new lease, as refreshServerLease does.
PutKeepsOwner(n, r) ==
  records' = [records EXCEPT ![n] = [run |-> IF @.run = NoRun THEN r ELSE @.run,
                                     lapsed |-> FALSE]]

\* Registry.Register: the record is replaced as a whole, with a new lease.
Put(n, r) == records' = [records EXCEPT ![n] = [run |-> r, lapsed |-> FALSE]]

Delete(n) == records' = [records EXCEPT ![n] = NoRecord]

Listed == {n \in Names : records[n].run # NoRun}
Entries(ns) == {[name |-> n, run |-> records[n].run] : n \in ns}
Expired == {n \in Listed : records[n].lapsed}

\* The lease of a record runs out.
Lapse(n) ==
  /\ n \in Listed \ Expired
  /\ records' = [records EXCEPT ![n].lapsed = TRUE]
  /\ UNCHANGED <<daemonVars, runVars, browser, keeperVars>>

------------------------------------------------------------------------------
(* One request.                                                            *)

Serving == daemon \in {"up", "releasing"}

At(r, place) == Serving /\ pc[r] = place
Goto(r, place) == pc' = [pc EXCEPT ![r] = place]
Unlock(r) == mutex' = [mutex EXCEPT ![name[r]] = NoRun]

\* newCore marks the run in flight, in the shared namespace of its project.
BeginRun(r, n) ==
  /\ At(r, "new")
  /\ n \in Namespaces
  /\ Goto(r, "begun")
  /\ name' = [name EXCEPT ![r] = n]
  /\ active' = active \cup {r}
  /\ UNCHANGED <<daemonVars, opens, mutex, browser, records, keeperVars>>

\* openBrowserMode calls lockBrowser, which cannot be cancelled...
WaitForBrowser(r) ==
  /\ At(r, "begun")
  /\ opens[r] < MaxOpens
  /\ Goto(r, "waiting")
  /\ opens' = [opens EXCEPT ![r] = @ + 1]
  /\ UNCHANGED <<daemonVars, name, active, mutex, browser, records, keeperVars>>

\* ... and returns once the namespace is free.
LockBrowser(r) ==
  /\ At(r, "waiting")
  /\ mutex[name[r]] = NoRun
  /\ Goto(r, "locked")
  /\ mutex' = [mutex EXCEPT ![name[r]] = r]
  /\ UNCHANGED <<daemonVars, name, opens, active, browser, records, keeperVars>>

\* The provider opens the page; a browser already running is reused.
OpenBrowser(r) ==
  /\ At(r, "locked")
  /\ Goto(r, "opened")
  /\ \/ browser' = [browser EXCEPT ![name[r]] = TRUE]
     \/ "refuse" \in Failures /\ UNCHANGED browser
  /\ UNCHANGED <<daemonVars, name, opens, active, mutex, records, keeperVars>>

\* Mutant: the error path forgets to unlock.
OpenFailsLocked(r) ==
  /\ At(r, "locked") \/ At(r, "opened")
  /\ "open" \in Failures
  /\ Goto(r, "begun")
  /\ UNCHANGED <<daemonVars, name, opens, active, mutex, browser, records, keeperVars>>

\* OpenSession returns an error: the page did not open ("locked"), or the bridge
\* never came up ("opened").  The error path unlocks; it closes nothing.
OpenFails(r) ==
  /\ At(r, "locked") \/ At(r, "opened")
  /\ "open" \in Failures
  /\ Goto(r, "begun")
  /\ Unlock(r)
  /\ UNCHANGED <<daemonVars, name, opens, active, browser, records, keeperVars>>

RegisterBrowser(r) ==
  /\ At(r, "opened")
  /\ Goto(r, "using")
  /\ Put(name[r], r)
  /\ UNCHANGED <<daemonVars, name, opens, active, mutex, browser, keeperVars>>

\* The browser is closed, as far as the provider manages.
CloseQuietly(n) ==
  \/ browser' = [browser EXCEPT ![n] = FALSE]
  \/ Failures \cap {"close", "refuse"} # {} /\ UNCHANGED browser

RegisterFails(r) ==
  /\ At(r, "opened")
  /\ "register" \in Failures
  /\ Goto(r, "begun")
  /\ CloseQuietly(name[r])
  /\ Unlock(r)
  /\ UNCHANGED <<daemonVars, name, opens, active, records, keeperVars>>

\* The cleanup of a shared session is the unlock alone.
FinishShared(r) ==
  /\ At(r, "using")
  /\ Goto(r, "begun")
  /\ Unlock(r)
  /\ UNCHANGED <<daemonVars, name, opens, active, browser, records, keeperVars>>

\* Mutant: the in-flight marker is never released.
EndRunStaysActive(r) ==
  /\ At(r, "begun") \/ At(r, "probeDone")
  /\ Goto(r, "ended")
  /\ name' = [name EXCEPT ![r] = NoName] /\ opens' = [opens EXCEPT ![r] = 0]
  /\ UNCHANGED <<daemonVars, active, mutex, browser, records, keeperVars>>

\* Core.Close ends the run, after the cleanups deferred later than it.
EndRun(r) ==
  /\ At(r, "begun") \/ At(r, "probeDone")
  /\ Goto(r, "ended")
  /\ name' = [name EXCEPT ![r] = NoName] /\ opens' = [opens EXCEPT ![r] = 0]
  /\ active' = active \ {r}
  /\ UNCHANGED <<daemonVars, mutex, browser, records, keeperVars>>

------------------------------------------------------------------------------
(* doctor: registers before it opens, in a namespace of its own, unlocked. *)

BeginProbe(r) ==
  /\ At(r, "new")
  /\ Goto(r, "probe")
  /\ name' = [name EXCEPT ![r] = r]
  /\ active' = active \cup {r}
  /\ UNCHANGED <<daemonVars, opens, mutex, browser, records, keeperVars>>

ProbeRegister(r) ==
  /\ At(r, "probe")
  /\ \/ Goto(r, "probing") /\ Put(r, r)
     \/ "register" \in Failures /\ Goto(r, "probeDone") /\ UNCHANGED records
  /\ UNCHANGED <<daemonVars, name, opens, active, mutex, browser, keeperVars>>

\* provider.Check opens a browser; if it cannot, perhaps after launching one, that
\* is a problem to report and no error.
ProbeOpen(r) ==
  /\ At(r, "probing")
  /\ \/ Goto(r, "checking") /\ browser' = [browser EXCEPT ![r] = TRUE]
     \/ "refuse" \in Failures /\ Goto(r, "checking") /\ UNCHANGED browser
     \/ /\ "open" \in Failures /\ Goto(r, "probed")
        /\ browser' \in {browser, [browser EXCEPT ![r] = TRUE]}
  /\ UNCHANGED <<daemonVars, name, opens, active, mutex, records, keeperVars>>

\* Check evaluates something and closes what it has opened.
ProbeCheck(r) ==
  /\ At(r, "checking")
  /\ Goto(r, "probed")
  /\ CloseQuietly(name[r])
  /\ UNCHANGED <<daemonVars, name, opens, active, mutex, records, keeperVars>>

\* Mutant: the record is removed although the browser is kept.
ProbeKeepUnregistered(r) ==
  /\ At(r, "probed")
  /\ Goto(r, "probeDone")
  /\ Delete(r)
  /\ UNCHANGED <<daemonVars, name, opens, active, mutex, browser, keeperVars>>

\* noCleanup leaves browser and record to the lease.
ProbeKeep(r) ==
  /\ At(r, "probed")
  /\ Goto(r, "probeDone")
  /\ UNCHANGED <<daemonVars, name, opens, active, mutex, browser, records, keeperVars>>

\* Without noCleanup: close, whatever comes of it, ...
ProbeClose(r) ==
  /\ At(r, "probed")
  /\ Goto(r, "probeClosed")
  /\ CloseQuietly(name[r])
  /\ UNCHANGED <<daemonVars, name, opens, active, mutex, records, keeperVars>>

\* ... then remove the record.
ProbeRemove(r) ==
  /\ At(r, "probeClosed")
  /\ Goto(r, "probeDone")
  /\ Delete(r) \/ ("remove" \in Failures /\ UNCHANGED records)
  /\ UNCHANGED <<daemonVars, name, opens, active, mutex, browser, keeperVars>>

------------------------------------------------------------------------------
(* Housekeeping: Core.tick, and ReleaseOwned when the daemon stops.        *)

\* tick first lists the lapsed records...
StartPass(h) ==
  /\ daemon = "up"
  /\ kpc[h] = "idle"
  /\ kpc' = [kpc EXCEPT ![h] = "listed"]
  /\ todo' = [todo EXCEPT ![h] = Entries(Expired)]
  /\ UNCHANGED <<daemonVars, runVars, browser, records, closed>>

\* Mutant: every lapsed record is reclaimed.
SkipNobody(h) ==
  /\ Serving
  /\ kpc[h] = "listed"
  /\ kpc' = [kpc EXCEPT ![h] = "working"]
  /\ UNCHANGED <<daemonVars, runVars, browser, records, todo, closed>>

\* ... then reads the runs in flight, and skips what belongs to them.
SkipActive(h) ==
  /\ Serving
  /\ kpc[h] = "listed"
  /\ kpc' = [kpc EXCEPT ![h] = "working"]
  /\ todo' = [todo EXCEPT ![h] = {e \in @ : e.run \notin active}]
  /\ UNCHANGED <<daemonVars, runVars, browser, records, closed>>

\* What close did if it reports success.
CloseReported(n) ==
  \/ browser' = [browser EXCEPT ![n] = FALSE]
  \/ "refuse" \in Failures /\ UNCHANGED browser

\* reclaimResource closes the browser of the namespace, with no lock held.
ReclaimClose(h, e) ==
  /\ Serving
  /\ kpc[h] = "working"
  /\ e \in todo[h]
  /\ kpc' = [kpc EXCEPT ![h] = "removing"]
  /\ todo' = [todo EXCEPT ![h] = @ \ {e}]
  /\ closed' = [closed EXCEPT ![h] = e]
  /\ CloseReported(e.name)
  /\ UNCHANGED <<daemonVars, runVars, records>>

\* A browser that cannot be closed keeps its record, for a later pass.
ReclaimFails(h, e) ==
  /\ Serving
  /\ "close" \in Failures
  /\ kpc[h] = "working"
  /\ e \in todo[h]
  /\ todo' = [todo EXCEPT ![h] = @ \ {e}]
  /\ UNCHANGED <<daemonVars, runVars, browser, records, kpc, closed>>

\* The record is removed by id, whatever it says by now.
ReclaimRemove(h) ==
  /\ Serving
  /\ kpc[h] = "removing"
  /\ kpc' = [kpc EXCEPT ![h] = "working"]
  /\ closed' = [closed EXCEPT ![h] = NoEntry]
  /\ Delete(closed[h].name)
  /\ UNCHANGED <<daemonVars, runVars, browser, todo>>

RemoveFails(h) ==
  /\ Serving
  /\ "remove" \in Failures
  /\ kpc[h] = "removing"
  /\ kpc' = [kpc EXCEPT ![h] = "working"]
  /\ closed' = [closed EXCEPT ![h] = NoEntry]
  /\ UNCHANGED <<daemonVars, runVars, browser, records, todo>>

EndPass(h) ==
  /\ Serving
  /\ kpc[h] = "working" /\ todo[h] = {}
  /\ kpc' = [kpc EXCEPT ![h] = "idle"]
  /\ UNCHANGED <<daemonVars, runVars, browser, records, todo, closed>>

------------------------------------------------------------------------------
(* The daemon process.                                                     *)

\* A stopping daemon lists every record, whatever its lease and its run.
\* http.Server.Shutdown has waited 5 seconds for the runs in flight; those it
\* did not wait out go on until the process exits.
StartRelease ==
  /\ daemon = "up" /\ exits < MaxExits
  /\ daemon' = "releasing"
  /\ kpc' = [kpc EXCEPT ![Releaser] = "working"]
  /\ todo' = [todo EXCEPT ![Releaser] = Entries(Listed)]
  /\ UNCHANGED <<exits, runVars, browser, records, closed>>

\* What the process held in memory is gone; browsers and records are not.
Exit(how) ==
  /\ exits < MaxExits
  /\ exits' = exits + 1
  /\ daemon' = how
  /\ pc' = [r \in Runs |-> IF pc[r] = "new" THEN "new" ELSE "ended"]
  /\ name' = [r \in Runs |-> NoName] /\ opens' = [r \in Runs |-> 0]
  /\ active' = {}
  /\ mutex' = [n \in Names |-> NoRun]
  /\ kpc' = [h \in Passes |-> "idle"]
  /\ todo' = [h \in Passes |-> {}]
  /\ closed' = [h \in Passes |-> NoEntry]
  /\ UNCHANGED <<browser, records>>

ReleaseDone ==
  /\ daemon = "releasing"
  /\ kpc[Releaser] = "working" /\ todo[Releaser] = {}
  /\ Exit("stopped")

Crash == Serving /\ Exit("crashed")

Boot ==
  /\ daemon \in {"stopped", "crashed"}
  /\ daemon' = "up"
  /\ UNCHANGED <<exits, runVars, browser, records, keeperVars>>

------------------------------------------------------------------------------
Init ==
  /\ daemon = "up"
  /\ exits = 0
  /\ pc = [r \in Runs |-> "new"]
  /\ name = [r \in Runs |-> NoName]
  /\ opens = [r \in Runs |-> 0]
  /\ active = {}
  /\ mutex = [n \in Names |-> NoRun]
  /\ browser = [n \in Names |-> FALSE]
  /\ records = [n \in Names |-> NoRecord]
  /\ kpc = [h \in Passes |-> "idle"]
  /\ todo = [h \in Passes |-> {}]
  /\ closed = [h \in Passes |-> NoEntry]

RunStep(r) ==
  \/ WaitForBrowser(r) \/ LockBrowser(r) \/ OpenBrowser(r) \/ OpenFails(r)
  \/ RegisterBrowser(r) \/ RegisterFails(r)
  \/ FinishShared(r) \/ EndRun(r)
  \/ ProbeRegister(r) \/ ProbeOpen(r) \/ ProbeCheck(r) \/ ProbeKeep(r) \/ ProbeClose(r)
  \/ ProbeRemove(r)

PassStep(h) ==
  \/ \E e \in todo[h] : ReclaimClose(h, e) \/ ReclaimFails(h, e)
  \/ ReclaimRemove(h) \/ RemoveFails(h)

KeeperStep(h) == StartPass(h) \/ SkipActive(h) \/ EndPass(h)

Next ==
  \/ \E r \in Runs : RunStep(r) \/ BeginProbe(r) \/ \E n \in Names : BeginRun(r, n)
  \/ \E h \in Passes : PassStep(h)
  \/ \E h \in Keepers : KeeperStep(h)
  \/ \E n \in Names : Lapse(n)
  \/ StartRelease \/ ReleaseDone \/ Crash \/ Boot

Spec == Init /\ [][Next]_vars

\* Every operation has a timeout, so a run that has begun takes its next step;
\* the ticker fires every HousekeepingInterval and a pass goes on; a provider
\* that is asked again and again does not fail for ever.
Fairness ==
  /\ \A r \in Runs : WF_vars(RunStep(r))
  /\ \A h \in Keepers : WF_vars(KeeperStep(h)) /\ WF_vars(PassStep(h))
  /\ \A h \in Keepers, n \in Names :
       SF_vars(\E e \in todo[h] : e.name = n /\ ReclaimClose(h, e))
  /\ \A h \in Keepers : SF_vars(ReclaimRemove(h))

FairSpec == Spec /\ Fairness

------------------------------------------------------------------------------
(* Properties.                                                             *)

Places == {"new", "begun", "waiting", "locked", "opened", "using", "ended",
           "probe", "probing", "checking", "probed", "probeClosed", "probeDone"}

\* Every variable stays in its type.
TypeOK ==
  /\ daemon \in {"up", "releasing", "stopped", "crashed"}
  /\ exits \in 0..MaxExits
  /\ pc \in [Runs -> Places]
  /\ name \in [Runs -> Names \cup {NoName}]
  /\ opens \in [Runs -> 0..MaxOpens]
  /\ active \subseteq Runs
  /\ mutex \in [Names -> Runs \cup {NoRun}]
  /\ browser \in [Names -> BOOLEAN]
  /\ records \in [Names -> Record]
  /\ kpc \in [Passes -> {"idle", "listed", "working", "removing"}]
  /\ todo \in [Passes -> SUBSET Entry]
  /\ closed \in [Passes -> Entry \cup {NoEntry}]

HoldsLock(r) == pc[r] \in {"locked", "opened", "using"}

\* A namespace is held by exactly the run that is inside a browser operation on
\* it: two runs never drive one browser, and every error path of
\* openBrowserMode, every cleanup and every exit gives the lock back.
LockDiscipline ==
  \A r \in Runs, n \in Names :
    mutex[n] = r <=> (HoldsLock(r) /\ name[r] = n)

\* While a run uses a browser, the registry attributes that browser to this run
\* or to nobody, never to another run, whatever was registered before and
\* whichever passes are under way.
UserOwnsRecord ==
  \A r \in Runs :
    pc[r] = "using" => records[name[r]].run \in {r, NoRun}

\* A housekeeping pass never has an entry to reclaim, nor one half reclaimed,
\* whose registered owner is a run in flight: tick reads the runs in flight
\* after the lapsed records, and a run id is never used twice.
ReclaimRespectsOwner ==
  \A h \in Keepers :
    /\ kpc[h] = "working" => \A e \in todo[h] : e.run \notin active
    /\ kpc[h] = "removing" => closed[h].run \notin active

\* A browser that runs without a record and without a run about to register it:
\* nothing will ever reclaim it.
Orphan(n) ==
  /\ browser[n] /\ records[n].run = NoRun
  /\ ~\E r \in Runs : pc[r] = "opened" /\ name[r] = n

\* The only ways to leave a browser to nobody: a run loses it between open and
\* Register (the bridge does not come up, Register fails, the process dies); a
\* cleanup removes the record although close has failed; a pass removes it although
\* the provider refused, or after the namespace was opened again since it closed;
\* ReleaseOwned takes the record from a run it did not wait for.  In every other
\* case the record goes after the browser, so that a crash leaves it to the lease.
OrphansAreExplained ==
  [][\A n \in Names : ~Orphan(n) /\ Orphan(n)' =>
       \/ \E r \in Runs : name[r] = n /\ pc[r] = "opened" /\ pc'[r] \in {"begun", "ended"}
       \/ \E r \in Runs : name[r] = n /\ pc[r] = "probeClosed"
       \/ \E h \in Passes : closed[h].name = n /\ kpc[h] = "removing"
       \/ \E r \in Runs : name[r] = n /\ pc[r] = "probing" /\ daemon = "releasing"]_vars

\* A run that has begun ends, whoever holds its namespace and whatever fails.
RunsFinish == \A r \in Runs : pc[r] = "begun" ~> pc[r] = "ended"

\* A lapsed record is reclaimed, or renewed by a new use, for as long as the
\* daemon stays up: also the record of a run of an earlier incarnation.
LapsedIsReclaimed ==
  \A n \in Names :
    (n \in Expired /\ daemon = "up") ~> (n \notin Expired \/ daemon # "up")

------------------------------------------------------------------------------
(* What a comment of the source promises and the code does not keep.         *)

\* core.go:164 "The run is in-flight for the Core's lifetime so housekeeping
\* never reclaims resources it is actively using."
InUseNeverReclaimed ==
  [][\A h \in Keepers : \A e \in todo[h] :
       ReclaimClose(h, e) =>
         ~\E r \in active : pc[r] \in {"opened", "using"} /\ name[r] = e.name]_vars
==============================================================================
