# Verification of game-forge

TLA+ models, TLC runs and TLAPS proofs for the parts of game-forge whose
correctness depends on the order in which several processes, requests and
housekeeping passes act: who is the daemon, who may use and who reclaims a
browser, whose servers are started, leased and stopped, and which checkout a
project code stands for.

All source paths below are relative to `src/internal/`.

## 1. The system

game-forge is one binary with three faces: a command line, an MCP frontend, and
a per-user daemon that both talk to over HTTP on localhost. The daemon runs
*operations* for *projects* (checkouts with a manifest): it starts project
servers, drives browsers through an external program, runs profiles and
scenarios, and keeps what it has started in a durable registry so that it can be
reclaimed later, by this incarnation or by the next one.

| Component | State it keeps | Operations | Interacts with | Hard behaviour | What makes it correct |
|---|---|---|---|---|---|
| Daemon ownership (`daemon/server.go`, `endpoint.go`, `discovery.go`) | lifetime lock file, durable port file, discovery file | serve, acquire the lock, bind, announce, shut down, release | every worker process; clients through discovery | several workers at once, crash between two file operations, stale locks, slow drains | one owner; a served endpoint can be found; the port never moves |
| Lifecycle commands (`lifecycle/`, `client/start.go`, `cli/daemonctl.go`) | startup lock file | start, stop, restart, rebind, install, uninstall | workers, other clients, the service manager | polling, timeouts, a start right after a stop, a rebind beside a start | stop means gone; start ends with a daemon that answers |
| Browser sessions (`core/core.go`, `browser/`) | a mutex per namespace, runs in flight, the browser processes | open, use, clean up, doctor's probe | resource registry, provider | failures at every call, answers nobody reads, waiting without cancellation | one user per browser; the registry never attributes it to another run; runs end; what is left to nobody is explained |
| Browser provider (`browser/agentbrowser.go`, `browser.go`) | the output file of a call; outside, the browser's own daemon and its queue | open, poll for the bridge, reload, read, screenshot, close | a detached external program | launchers that never exit, are killed while their command waits, or answer "no" to somebody who does not look | a session reports the page it opened; every call ends |
| Housekeeping (`core/core.go`, `daemon/server.go`) | none but a listing | tick, `resource.gc`, release at shutdown | resource registry, sessions, servers | decides from a stale listing, without locks | never reclaims what a run in flight has registered; lapsed things go |
| Resource registry (`process/resource.go`) | one file per resource | Register, Remove, List, Expired | all of the above | outlives the daemon | a record names what its run has started |
| Project servers (`server/`, `core/core.go`, `profile/`) | server processes, their records and leases | ensure, refresh, server.start/stop, production stage | registry, other projects on the same URL, servers started by hand | no lock anywhere, two requests ensuring at once, crash between start and registration | a project stops its own servers only; nothing it started is forgotten |
| MCP credential (`daemon/endpoint.go`) | token file, what each worker has read of it | load or create, accept | every worker being built, MCP clients | creators that race, die or fail between creation and write | what is served is what a client was configured with |
| Project registry (`project/registry.go`, `key.go`) | code -> root file | add, remove, get, resolve | CLI, dispatch, manifests | processes that overwrite each other's file, checkouts that move, torn writes | a code has one entry, changed only on request; a resolution is current |
| Project manifest (`project/project.go`) | none | load, validate | everything that runs for a project | none: sequential data | - |
| Run dispatch (`daemon/server.go`, `client/client.go`, handlers in `core/ops.go`) | run sequence, open event streams, what a handler has acquired | run, stream, catalog | op registry, core, clients | disconnects, deadlines, a daemon that dies in the middle of a stream, an error at any step of a handler | a caller is told once, and the truth; whatever failed, everything is given back |
| Op registry and schemas (`op/`) | static table | lookup, schema | dispatch, MCP | none | - |
| MCP frontend (`mcpfrontend/`) | tool table | add, call | client | project codes taken out of and put into requests | a call runs for the project it names |
| Profiles (`profile/`, `runner/`) | summary | stages, nested stages | servers, browsers, commands | references that nest, errors of one stage, deadlines between two stages | every stage is run and reported once, in order, and counts |
| Scenarios (`scenario/`) | none | run, compare | adapter, browser | none: pure | a match means agreement in digest, verdict and every check |
| Simulation adapter (`adapter/`) | child process, sequence number, broken flag | call, close | scenarios | timeouts, a reply that comes late | a reply belongs to its request |
| Service manager (`service/`) | a systemd unit and the process it runs | install, uninstall, start, stop, restart | lifecycle commands, workers | restarts on failure beside commands; a signal before the worker handles it | the daemon that listens is the one systemd knows |
| CLI, rendering, configuration, contracts, GPU probe, image work | none | - | - | I/O and formatting | - |

## 2. Modules

| Module | Models | Proofs | Runs |
|---|---|---|---|
| `BrowserSession` | browser sessions, the runs in flight, housekeeping, release and crash of the daemon | `BrowserSessionProofs` | `browser_shared`, `browser_in_use` |
| `ProviderSession` | one level down: the bounded subprocess calls inside a browser operation | `ProviderSessionProofs` | `provider_session` |
| `OneDaemon` | abstract: one daemon at one durable address | - | refined by `DaemonOwnership` and `DaemonLifecycle` |
| `DaemonOwnership` | worker processes and the files they share | `DaemonOwnershipProofs` | under the next four |
| `DaemonCredential` (EXTENDS `DaemonOwnership`) | the MCP token, created by workers that race | `DaemonCredentialProofs` | `daemon_direct`, `daemon_single` |
| `ServiceManager` (EXTENDS `DaemonOwnership`) | the unit and what systemd does with its process | `DaemonLifecycleProofs` | with the next |
| `DaemonLifecycle` (EXTENDS `ServiceManager`) | client commands beside the workers and systemd | `DaemonLifecycleProofs` | `lifecycle_concurrent`, `lifecycle_sequential`, `lifecycle_rebind` |
| `ServerLease` | project servers, requests that ensure, use and stop them, housekeeping, crash | `ServerLeaseProofs` | `server_shared`, `server_conflict` |
| `ProjectRegistry` | the file of registered projects, calls of several processes, the checkouts behind it | `ProjectRegistryProofs` | `registry_shared` |
| `RunFrame` | what every handler has: context, deferred cleanups, outcomes, events | - | `run_dispatch` |
| `ProfileRun`, `AdapterSession` (EXTEND `RunFrame`) | a profile run stage by stage; the conversation with an adapter process | - | `run_dispatch` |
| `ScenarioReports` | reports and their comparison, with the reference definition `Agree` | - | `run_dispatch` |
| `OperationRun` (EXTENDS the three before) | the handlers of the operations that take several steps | - | `run_dispatch` |
| `RunPromise` | abstract: a run is decided once and its caller told once | - | refined by `RunDispatch` |
| `RunDispatch` (EXTENDS `OperationRun`) | one call from end to end over four transports | `RunDispatchProofs` | `run_dispatch` |

`MC<Module>` instantiates a module for TLC (symmetry sets and the values of
function constants); each `.cfg` is one run.

### BrowserSession

A request is `pc[r]`: `BeginRun` is `newCore`, `WaitForBrowser` and `LockBrowser`
the call of `lockBrowser` in `openBrowserMode`, `OpenBrowser`, `OpenFails`,
`RegisterBrowser`, `RegisterFails` its further steps and error paths,
`FinishShared`, `CleanupClose`, `CleanupRemove` the cleanups it returns, `EndRun`
`Core.Close`. `Probe...` is `doctor`, which registers *before* it opens and takes
no lock. A pass `h` is one execution of `tick`: `StartPass` lists the lapsed
records, `SkipActive` reads the runs in flight (in this order, as the code does),
`ReclaimClose` and `ReclaimRemove` are the two halves of reclaiming one entry.
The releaser is `ReleaseOwned`. `records` (the registry) and `browser` outlive
`Crash` and `ReleaseDone`; locks, runs in flight and passes do not. `Failures` names
the calls that may fail. "refuse" is an answer `success:false`, which `Open` and
`Close` do not look at: the provider reports success and the browser goes on as it
was. `Orphan(n)` is a browser without a record and without a run about to write one.

Left out: errors of `List` (a pass then does nothing), several processes over one
registry (`NewRuntime(false)`, a direct run beside the daemon, which only tests
create), leases other than lapsed or not.

### ProviderSession

One namespace, seen from inside one operation. `place[c]` is where a caller is in
the script of `OpenSession`, `WaitForBridge` and the reads and screenshots after it;
`Start` is the first half of `runRaw` (its own output file, then the launcher),
`ReturnExit`, `ReturnEarly`, `ReturnContext` and `ReturnDeadline` are the four cases
of its select, and `Continue` what the script makes of the result. A launcher is
`started`, then `sent` (`Send`: its command is in `queue`, in the browser's own
daemon, and stays there when the launcher is killed); `Perform` or `Refuse` answers
the oldest command, `WriteRest` completes the JSON object in the output file, which
`ReturnEarly` waits for. Launchers owe nothing: they may never exit. A `Closer` is
housekeeping or release, which close the browser without the lock. `blind` remembers
who took an answer it had not read for a success (`Open` and `Screenshot` drop it).

`BrowserSession` is the level above: there an operation is one step that succeeds,
fails or is refused.

Left out: arguments and paths (and their translation towards Windows), the parsing
of message lists, and the temporary file of a screenshot taken through interop.

### DaemonOwnership, DaemonCredential, ServiceManager and DaemonLifecycle

A worker is one execution of `daemon serve`; `pc[w]` walks through `daemonServe`,
`acquireLifetimeLock`, `bindEndpoint`, `Serve` and the shutdown sequence, one step
per file operation. The lifetime lock is `[owner, stamped]`: creating the file and
writing the pid are two steps, which is where the code is exposed. Removals are by
path: `RemoveLock` removes whatever is there, and `stolen` records when that was
another live owner's. `Abstract` maps this to `OneDaemon`: its owner is the
incumbent among the workers, its address the durable port file.

`DaemonCredential` adds what a worker does while it builds its `Server`, before it
claims the lock: `Load`, `Create` (O_EXCL), `Reread` of a file somebody else has
created, and `Write`, whose error is lost. `Accepts` is `mcpAuth`.

In `ServiceManager`, `main` is the process systemd has started last and `duty` what
it has to do about it: keep it running, start another, or stop it. `Supervised` is a
step of a worker together with what systemd notes of it, `Terminate` a SIGTERM (a
request to stop where the worker handles it, death before and after).

A client is one process running commands one after the other. `Route` is
`lifecycle.Start`; `FindHealthy` ... `ReleaseStart` is `client.start`, the places
`svcFinding`, `svcStarting`, `svcAwaiting` the start of an installed service;
`FindTarget` ... `WatchTimeout` is `lifecycle.Stop` with `WaitGone`, `svcStopping` and
`svcEnding` its way through systemd; `Clear` is `ClearEndpoint` of a rebind;
`installing`, `removing` and `leaving` are `daemon install` and `daemon uninstall`.

`target[c]` is the worker a stop has found, over the endpoint or as the process of the
unit. Two variables are history that no guard reads: `overlooked` has the clients whose
`uninstall` went on after systemctl had failed to stop it (the code drops that error),
and `seized` says whether a client has removed the startup lock, as stale, from a process
that was still using it. `Starters` are the processes between taking the startup lock and
giving it back, stopping workers included.

`Impatient` says whether a deadline may pass before what it waits for;
`Intruder`, whether a foreign program may hold the durable port; `Systemd`, whether
the user manager is usable; `MaxCrashes` bounds deaths. `Earlier` orders the
interchangeable workers of a run whose clients come one at a time; it is {} elsewhere.
Left out: write errors of the lock, port and discovery files, crash of a client, the
health endpoint timing out on a live daemon, a spawn or unit whose program cannot be
executed, systemd's SIGKILL after TimeoutStopSec, a pid that has been given to
another program (`proc_unix.go:41`), and the check of the Origin header.

### ServerLease

`Probe`, `CheckForeign`, `Spawn`, `Ready`/`NotReady`, `Register` are `server.Ensure`;
`ListLeases`, `RefreshLease` are `refreshServerLease`, copy by copy; `ProdStop` is
`Server.Stop` at the end of a production stage; `CountServers`, `StopNamed`,
`RemoveStopped` are `server.stop`. A process is `free`, `starting`, `serving`,
`dying` (has got SIGTERM and may go on answering) or `dead`, and has a home
project and a URL; `ByHand` starts servers Game Forge knows nothing about.
`Probe` may miss a server that answers too slowly. The record id ends in the pid,
so records are a function of pids. Pids are never used twice; records without a
project key (an older format) and errors of `List` are left out; one kind of
server is modelled, since records of another kind never match.

### ProjectRegistry

A caller is a thread of a process; `mu[p]` is the mutex of that process's
`Registry`, which other processes do not see. `BeginAdd` and `BeginRemove` do what
comes before the lock (the code is normalised, the manifest above the folder found
and loaded), `Lock`, `Load` and `Store` are the three steps of the update; `Load`
includes the decision, `Changed`, to add, replace, drop or refuse. `StoreFails`
leaves the file alone. `StoreTorn` is a failed `Write` or `Sync`: its error is
assigned to a variable of an inner scope, so the incomplete temporary file is
closed and renamed. `BeginResolve`, `Get`, `StatRoot`, `CheckIdentity` are the
daemon's resolution of a code, without the mutex. `holds` says what each
directory holds (a project id, a broken or no manifest, nothing, or a link to
another directory) and `Edit` changes it at any time. `stale` and `window` are
history variables that the properties need and no guard reads.

Left out: collisions of the shortened hash (a key is the pair of id and root),
`List`, chains of links, and a registry file that exists but cannot be read (the
call ends as for a malformed one).

### RunDispatch and the modules under it

One call, from the request to what its caller is told. `Reject` is `prepare` with an
error; `Accept` starts the handler, `Handle` is one step of it, `Finish` the end of
`exec` with the check of the output, `EndContext` a deadline or the `r.Context()` of a
caller that has left, `Die` the end of the process in the middle. The caller's side is
`Deliver` (`streamRequest` decodes an event and passes it on; over MCP `progressSink`
may leave out a repeat), `StreamEnds` (the loop of `streamRequest` and its last done
event), `Reply` (a plain or in-process MCP answer, or the refusal of a stream) and
`Disconnect`. `simple` is `simpleRun`, `stream` the command line's event stream, `mcp`
the frontend in the daemon (`Server.Run`), `mcp_stdio` the same frontend over
`RunRequest`.

`at` is where the handler is: after `NewCore`, `profile.run` goes to the stages of
`ProfileRun`; `scenario.*` start an adapter, ask it and compare; the page operations
ensure the server, open a page and use it. `Return` leads to `Unwind`, which runs the
deferred cleanups in reverse order. In `ProfileRun` `frames` is the recursion of
`runStages` and `runNested`, `step` the place in one stage, `unwind` its deferred
cleanups. In `AdapterSession` a call is `Ask`, once the request has been written,
followed by one of `ReadLine`, `ReadEnd` (the child has gone) and `ReadTimeout` (the
context ends: the child is killed, the client marked broken and what is in the pipes
lost). `stdin.Write` blocks, without a look at the context, on a request larger than the
pipe while the child does not read: a call blocked there is one whose `Ask` has not been
taken, and nothing says that it ever is (`Unread`). The child answers in order, exits,
perhaps in the middle of a line, or prints up to `MaxStray` lines nobody asked for.
`HoldOutput` is the wait of `exec.Cmd.Run` for a pipe that a process left behind by a
tool still holds: no deadline ends it.

Left out: servers, browser processes and their records (`ServerLease`,
`BrowserSession`: here acquiring succeeds or fails), the content of results,
`visual.pixel` and `visual.state` (a page operation each), and the operations
on resources and registries, which the other modules have.

## 3. Runs

| Run | Bounds | Shows |
|---|---|---|
| `browser_shared` | 2 runs, 1 namespace, 1 pass, every call may fail or be refused, 1 exit (stop or crash) | `TypeOK`, `LockDiscipline`, `UserOwnsRecord`, `ReclaimRespectsOwner`, `OrphansAreExplained`; with fairness `RunsFinish`, `LapsedIsReclaimed` |
| `browser_in_use` (violation) | 2 runs, nothing fails | a pass closes a browser that an in-flight run is using (`InUseNeverReclaimed`) |
| `provider_session` | a development and a production session, 1 closer, 1 poll, 1 use, refusals at will | `TypeOK`, `ReportsAreOwn`; with fairness `OperationsEnd` |
| `daemon_direct` | 3 workers and their tokens, 2 ports, signals, deadlines, an intruder, 1 death | `MutexUnlessStolen`, `ServingIsDiscoverable`, `ConfiguredOnce`, `BlankOnlyInWindow` |
| `daemon_single` (violation) | 2 workers, no faults | two owners through an unstamped lock (`SingleOwner`) |
| `lifecycle_concurrent` | 2 clients with one command each of all six, 3 workers, systemd, deadlines, an intruder | `ClientTypeOK`, `StopMeansGone`, `PortStaysWithoutRebind`, `OneStarterUnlessSeized` |
| `lifecycle_sequential` | 1 client, 2 commands of all six, 4 workers, systemd, 1 death, fairness | `NoTheft`, `ServiceNeverBypassed`, `KeepsOneDaemon`, `CommandsReturn`, `StartSucceeds` |
| `lifecycle_rebind` (violation) | 2 clients, start and rebind, no systemd | a rebind drops the port of a daemon that is serving (`ServedPortIsDurable`) |
| `server_shared` | 2 requests, 2 projects with one URL, 3 processes, 1 pass, 1 crash | `TypeOK`, `RecordNamesOwnProcess`, `NoOrphanServer`, `StopsOnlyOwn` |
| `server_conflict` (violation) | as above with 2 processes, no crash | a conflict is reported for a URL nobody else serves (`ConflictIsReal`) |
| `registry_shared` | 3 callers in 2 processes, 3 calls, 1 edit or death, 2 codes, a checkout nested in another, a new registry or one with an earlier entry | `TypeOK`, `OneEntryPerCode`, `ChangedOnlyAsAsked`, `CorruptionIsKept`, `ResolveIsCurrent` |
| `run_dispatch` | one call of any of 7 operations over 4 transports; profiles nested twice, 1 profile used twice; 2 scenarios; 6 reports, one with a name twice; 1 stray line; 1 visual case; fairness | `PassIsComplete`, `OrderlyCleanup`, `AnswersBelong`, `LateStagesFail`, `MatchIsAgreement`, `KeepsPromise`; with fairness `EveryCallIsAnswered`, `EveryRunEnds` |

Why these bounds are enough to be interesting: every race found needs two actors
of a kind (two runs on a namespace, two workers on a lock, two projects on a URL)
and one housekeeping pass or successor between their steps; a third worker lets a
theft have a victim, a thief and a beneficiary, and a third process lets a server
started by hand coexist with one of each project. Two commands
of one client need four workers: one that runs already, one for each command, and one
that systemd starts after the death. In `provider_session` a command left in the queue
by a killed launcher, a second session and a closer are what it takes to show or close
another's page; one poll before and one after the reload reach every branch of
`WaitForBridge`. In the registry two callers of one
process contend for the mutex while a third, of another process, passes it by. For
`run_dispatch` two adapter calls are what a late or stray line needs to be taken for
the wrong answer, and a doubly nested profile and one used twice what the names and
order of stages need. No profile of the run leads into a cycle of `uses`, because the
recursion of such a run has no end; the theorems about `RunDispatch` include them. The
safety properties of section 4 are also proved, for any number of actors. `CHECK_DEADLOCK FALSE` is given where a finite set of processes
or requests runs out.

`daemon_direct` identifies states (`VIEW Remembered`) that differ only in what no step
reads any more: the port a worker wanted once it has bound it, the one it had once it has
stopped listening, and a request to stop once it has been followed.

`MaxOpens`, `MaxExits`, `MaxUses`, `MaxCrashes`, `MaxCalls`, `MaxEvents`, `MaxStray`
and `MaxCases` are the only bounds on unbounded behaviour (sessions per run, exits,
reads of a session, deaths, commands per client or calls of the registry, edits and deaths beside it,
lines nobody asked for, visual cases).

### Fairness

* `BrowserSession!FairSpec`: a run that has begun takes its next step (every
  provider call has a timeout); the ticker fires again and a pass goes on; closing a
  given browser, and removing its record, do not fail for ever (strong fairness: a
  provider asked again and again). No fairness is assumed for new runs, for the
  lapse of leases, for crashes or for a reboot, so both liveness properties hold
  while the daemon stays up and the first also across exits.
* `ProviderSession!Fairness`: a caller that can issue its next command does, a call
  returns (the tick, the context and the deadline of `runRaw` are timers, and the
  killed process has been waited for at once because its output is a file), and a
  session's user is finished some time. Nothing is asked of launchers, the browser or
  its daemon.
* `DaemonLifecycle!FairSpec`: clients and workers poll, drains are bounded by
  timeouts, systemd starts again what it is to start, and a startup lock left behind
  by a dead process grows old (strong fairness on `StaleStartLock`, whose age only
  grows). Nothing is assumed about crashes. `lifecycle_sequential` uses
  `Impatient = FALSE`: no deadline passes before what it waits for, which is what the
  code's 30 to 45 second deadlines are for; the concurrent run is where deadlines pass
  at any time.
* `RunDispatch!Fairness`: a handler takes its next step (each has a timeout or waits
  under the context of the operation), every context ends, and the caller reads on.
  Nothing is assumed of the adapter, and nothing of `LetGo`. Two waits have no timeout,
  and both liveness properties except exactly these (`Stuck`): the wait for a tool's
  output (`step = "held"`), and the write of a request to a child that runs (`Unread`,
  in which a handler owes no step).

## 4. Proofs

Checked by TLAPS for all values of the constants, from the named ASSUMEs only
(the sentinels are not members of the sets they stand beside; process sets are
disjoint; bounds are naturals; `Pids` is finite).

* `BrowserSessionProofs`. `TypeCorrect`; then an inductive invariant of four
  parts. `LockDiscipline` is inductive with types. For attribution it is not
  enough to know who holds the lock: the record of a namespace can be deleted by
  a pass, or by doctor, at any time. `NameInv` says a run is in a shared namespace
  or its own, so doctor's unlocked writes cannot meet another run's; `BegunInv`
  and `ActiveInv` say a run named by a record or an entry has begun and is in
  flight exactly between begin and end; `SkipInv` says what a pass has filtered
  stays filtered, because a run id never begins twice. From these:
  `LockSafety`, `OneUser`, `Attribution` (`UserOwnsRecord`), `RespectsOwner`
  (`ReclaimRespectsOwner`).
  `OrphansHaveReasons` (`OrphansAreExplained`) adds `DoctorInv`: only doctor's run has
  to do with the namespace named by it, and until the daemon stops no pass takes the
  record it has written before it opens.
* `ProviderSessionProofs`. The hard part is the queue: commands of killed launchers wait
  in it behind the back of the script. `QueueInv` says that a command somebody waits
  for is that of the call its caller is inside, and that no open waits behind such an
  open; `OutputInv`, that only a command that was sent is answered; `PageInv`, that from
  the moment a run's open has succeeded until it is done no open waits at all, so the
  browser shows this run's page or none. From these: `TypeCorrect`, and
  `SessionsReportTheirOwn` (`ReportsAreOwn`) for any number of sessions and closers.
* `DaemonOwnershipProofs`. `WorkerTypeCorrect`; `OwnershipInvariance` proves
  `LockInv` (an owner whose lock nobody has removed is the owner written in the
  file), `DiscInv` and `PortInv`, all conditional on `stolen`. From these: `Mutex`,
  `Discoverable`, `PortIsDurable` and the action property `FirstTheft`: the only
  way a live owner loses its lock for the first time is `UnlinkLock`.
  `ImplementsOneDaemon`: as long as no live owner loses its lock (`SafeInv`) every
  step of a worker is a step of `OneDaemon` or a stutter. The hypothesis is needed:
  with two owners there is no one daemon, and `daemon_single` shows two.
* `DaemonCredentialProofs`. `CredentialInv`: only the creator writes, an empty file
  means that its creator has not written yet (or a write has failed), a loser finds a
  file, and every credential is the token of the file. From it `CredentialAgrees`
  (`ConfiguredOnce`), `TokenIsDurable` (`TokenStays`: a whole token is never replaced)
  and `BlankIsExplained`. `CredentialKeepsOwnership` says that the composition
  implements `WorkerSpec`, so the theorems above hold for it too.
* `DaemonLifecycleProofs`. What any step, of a client, of systemd or of a worker, is
  for the workers is one of two things (`Effect`): a move of one worker or a step
  aside, which leaves processes, lock and discovery alone. That makes the lemmas about
  `Moves` serve here again. `LifecycleInv` adds to the workers' part what commands
  rely on: which command may be where, and that a target of a stop has served
  (`Settled`), so that it either still owns the daemon with its pid in the lock
  (`StampInv`) or is dead, and a free lock means the latter. From it:
  `ClientTypeCorrect`, `StopIsFinal` (`StopMeansGone`; the clients in `overlooked` are the
  exception, an uninstall that could not stop the service removes the unit all the same),
  `PortStays`, and `CommandsKeepOneDaemon`, the refinement of `OneDaemon` by the whole
  composition without a theft and a rebind.

  `StartersConverge` (`OneStarterUnlessSeized`) has an invariant of its own, `StarterInv`:
  until the startup lock is taken from a process that uses it, whoever uses it is named in
  it. So the removals by path, which never look at who is named, remove the own lock only.

  Three more theorems do without the hypothesis about thefts, for commands that come one at a time
  while no deadline is missed (`OneCommand`, `~Impatient`: what `lifecycle_sequential`
  instantiates with one client, and what the theorems allow any number of clients to
  take turns at). The comment at `daemon/server.go:171` is wrong for workers launched at
  will; the question is why the commands do not run into it. `SequentialInv` is the
  answer, in four parts that need each other. `YoungInv`: at most one worker is about to
  serve or serves, namely the process of the unit, the child of a start that waits for
  it, or a daemon that answers already; where nobody answers nobody is on the way there
  either, because a patient start or stop has seen its worker through. `UnitInv` and
  `DutyInv` say which command may be where while the unit is installed, and that systemd
  starts no other process once a command has stopped the service for good. `UnlinkInv`:
  a lock about to be removed as stale is nobody's. A theft takes two workers that are
  both about to serve. From it: `NobodyIsRobbed` (`NoTheft`), `ServiceIsTheDaemon`
  (`ServiceNeverBypassed`), and `SequentialCommandsKeepOneDaemon` (`KeepsOneDaemon`),
  which has no hypothesis on locks and includes rebinds.
* `ServerLeaseProofs`. `TypeCorrect` needs `RequestOK` (what a request holds at each
  place) to be inductive. `Kept` says what any step leaves of a process: its
  project, and that it never serves again once told to stop. With it the
  invariant speaks of copies rather than of the registry alone: `RecordInv`,
  `CopyInv` (a copy that `refreshServerLease` may write back after a removal still
  names a process of the project) and `PassInv` (a pass removes only what it has
  signalled). From these: `Attribution`, `NoOrphan` and the action property
  `ProjectIsolation`.
* `ProjectRegistryProofs`. `TypeCorrect`, then the lemma `Mutex` (no return leaves the
  mutex locked, and between load and store it is held) and `Unambiguous` by induction, with lemmas on lists: appending a code that has no entry, replacing
  the first entry of a code and dropping one all keep a list free of duplicates.
  For the action properties the lists in memory have to be tied to the file:
  `Fresh` says that a list about to be stored, unless it is stale, is what the
  request makes of the file as it is now. It is inductive because a rename of the
  same process is excluded by the mutex and one of another process makes the list
  stale. From these: `OnlyAsked`, `DamageIsKept` and, with the window of a
  resolution, `Currency`.
* `RunDispatchProofs`, for any requests, profiles, catalogue and reports. `CallInv` has
  nine parts, each inductive alone or with those before it: what is deferred and what is up (`CleanupInv`), which stages
  are late (`LateInv`), what is decided and told (`PromiseInv`), what the adapter's
  child still owes (`AnswerInv`), the shape of the recursion (`FramesInv`), and the
  types of the rest. From these: `CleanupIsOrderly`, `LateStagesNeverPass`,
  `AnswersBelongToCalls`, `TypeCorrect`, `ComparisonsMeanAgreement` (a match is
  agreement, by the reference definition, for unique names; with names that repeat only
  what `Covers` says) and `ImplementsPromise`, the refinement of
  `RunPromise`. Assumed: a stage has one mode and refers to a known profile
  (`ProfilesAssumption`), reports and catalogue are what their types say
  (`ReportsAssumption`, `AdapterAssumption`), `MaxCases` is a natural.

  `SuccessIsComplete` (`PassIsComplete`) ties all of it together: what a caller who is
  told pass may rely on. `Left[f]`, what a profile has to run from a place on, is a
  recursive function over places from which no cycle can be reached (`Ending`). That it
  is well defined, and what it is at each place (`LeftMeans`), cannot be had from the
  library's recursion theorems, which take an operator; it is proved by hand. What holds
  at a place as soon as it holds at the next one and inside the profile referred to holds
  at all of them (`EndingInduction`: the last bad place of each bad profile would refer
  to another bad profile, and these lead into no cycle), and the least relation closed
  under the equations of `Left` has exactly one list at each place (`LeastIsOne`). `ProfileInv` then says that the names
  run so far, joined with what is left at each place of the stack of `frames`, innermost
  first, are what was left in the beginning, provided the places on the stack are
  `Ending`; when the last place is past its end they are, and nothing is left. A
  profile in a cycle keeps the stack from being emptied, so success is never reached, and
  no limit on the depth is needed for that. `CompareInv` and `ListInv` do the same for
  scenarios, where the list comes from the child. On the way to the caller, `SentInv`
  says that the events are those of the outcomes between those of the dispatch,
  `ShownInv` that what was shown are the events read, except repeats that MCP left out,
  and `DecidedInv` that success is told after the last event only. `SuccessInv` is the
  conjunction; it is inductive with `CallInv`.

Proved and not checked by a run, because a run would say no more:
`WorkerTypeOK`, `CredentialTypeOK`, `RunDispatch!TypeOK`, `DurablePortIsServed`,
`TokenStays`, `FirstTheftIsStaleReclaim`.

Only model-checked: liveness (`RunsFinish`, `LapsedIsReclaimed`, `OperationsEnd`,
`CommandsReturn`, `StartSucceeds`, `EveryCallIsAnswered`, `EveryRunEnds`), since fairness
and ENABLED are outside the prover's reach. Every safety property that a passing run
checks is also proved, `NoTheft`, `ServiceNeverBypassed` and the refinement in
`lifecycle_sequential` under the hypotheses above.

## 5. Disagreements between the source and its comments

1. `core/core.go:164` says housekeeping never reclaims what a run in flight is
   using. `tick` decides by the run id of the *record*, which for a reused browser
   is an earlier run's until the browser is open and registered again
   (`browser_in_use`). What does hold is `ReclaimRespectsOwner`.
2. `daemon/server.go:171` says two directly launched workers converge. The lock
   file is created before the pid is in it; a worker that reads it in between
   removes it (`daemon_single`). What does hold is `MutexUnlessStolen`, and
   `NoTheft` when commands come one at a time.
3. `daemon/server.go:187` says the served port is the one a restart rebinds. A
   rebind beside a start forgets the port of the daemon just started
   (`lifecycle_rebind`). What does hold is `PortStaysWithoutRebind`.
4. `server/server.go:177` says a conflict is a reachable server of another project
   and that an unowned endpoint may be reused. The check looks at records, so a
   server by hand, or the project's own, is refused because of another checkout's
   record that it has nothing to do with (`server_conflict`).

The rest have no run of their own. From the browsers:

- `process/resource.go:3` says that every external resource is registered so that it can
  be reclaimed. A session whose bridge never comes up (`core/core.go:462`) is left
  running with no record, a run that outlasts the 5 seconds of `Shutdown` can lose its
  record or open a browser after `ReleaseOwned` has listed, and a refused close is
  followed by the removal of the record (`core/core.go:528` then lists the browser as
  released). `OrphansAreExplained` names all the ways.
- `browser/browser.go:106`: `OpenSession` "opens url". When agent-browser refuses, nobody
  looks at its answer, and the session goes on with the page of the one before; a
  refused screenshot leaves the older picture, which `Shot` only stats. `ReportsAreOwn`
  names these as the only exceptions (`blind`).

From the daemon:

- `daemon/endpoint.go:204` says that the loser of the create race re-reads the token "so
  both parties agree". If the winner has not written yet, or has died, or its write has
  failed (the error is assigned to a variable of an inner scope), the loser, or the
  successor, has an empty credential and its `/mcp` answers 401 until it exits.
  `BlankOnlyInWindow` and `ConfiguredOnce` say when not.
- `lifecycle/lifecycle.go:89` says that an installed service is never bypassed by a
  detached spawn, and `cli/daemonctl.go:117` that detached and service-managed
  incarnations never coexist. `Start` asks whether the unit is there and acts later: a
  start beside an install leaves a detached daemon under an installed unit. Then `stop`
  tells systemd, which has nothing to stop, and times out in `WaitGone`.
  `ServiceNeverBypassed` holds for one command at a time.
- A daemon that fails while a stop or an install waits for it is started again by
  systemd, and the wait times out (`lifecycle_concurrent` has it).

From the project registry: `README.md:155` says
a registered code is never silently remapped, which holds for the processes that
do not overlap (`ChangedOnlyAsAsked` names the exception, `stale`); the comment of
`store`, `project/registry.go:121`, says the file is written atomically, which a
failed `Write` breaks; and that of `load`, line 104, says both that a malformed file
yields an empty registry and that corruption is reported (the second is so, and
`CorruptionIsKept` rests on it).

And from the handlers:

- `project/project.go:141` says that `timeout` bounds a stage. `runner.Run` reads the
  output of a tool through a pipe and sets no `WaitDelay`, so a process the tool has
  left behind keeps the stage for as long as it lives (`HoldOutput`); the browser
  provider avoids just this by using a file (`browser/agentbrowser.go:458`).
- `profile/profile.go:82` means to stop a cycle of `uses` by its depth. `runNested`
  recurses by itself and never makes the check, and `runStages` is only called with
  depth 0: a cycle recurses until the daemon's stack is exhausted.
- A caller's deadline or departure ends the context of its run, but not a write to the
  adapter (`adapter/adapter.go:79`): while the child does not read, a request larger than
  the pipe keeps the call, and the `readLine` that would look at the context (`:113`) is
  never reached.
- `scenario/scenario.go:171` says that `Compare` compares the results of each check.
  With duplicate names it does not: reports that both fail can match although a check
  is in one only, and equal reports with a check that passes and then fails differ.
- Adapter answers carry the number of their request (`adapter/adapter.go:56`) and it
  is never looked at: after one stray line every later answer is the previous one's.
- Page and console errors that cannot be read count as none (`mustErrors`,
  `consoleErrors`), so a stage can pass without having been able to look, and so can
  `Shot`, of which `visual/visual.go:56` says that a fresh page error fails it.

## 6. Plan

Done, in this order: `BrowserSession`, `DaemonOwnership`, `DaemonLifecycle`,
`ServerLease`, `ProjectRegistry` with their proofs; `RunDispatch` with `OperationRun`,
`ProfileRun`, `AdapterSession`, `ScenarioReports` and `RunPromise`; then
`ProviderSession`, `DaemonCredential`, `OneDaemon` and its refinements,
`ServiceManager`, and the proofs about calls, credential, commands, orphans and sessions;
then the proofs that sequential commands keep one daemon and that a success is complete.

Next: the reading of message lists in the browser provider, where a line cut short
counts as no error.

## Not modelled

- Parsing and validation of manifests, schemas of operations, the construction and the
  audit of MCP tools, flags and rendering, configuration, contracts, the GPU probe and
  image work: sequential work on data, or input and output, with no state that
  survives a call.
- `NewRuntime(false)`, which only tests create;
  collisions of the shortened project key; records of an older format.
- A pid given to another program while a record or a lock still has it
  (`proc_unix.go:41`), and a production stage that stops a server which another run of
  the project has found answering meanwhile (`profile/profile.go:282`): the first is
  the operating system's, the second is allowed by `StopsOnlyOwn` on purpose.
- What a killed launcher's own children do, and the temporary file of a screenshot
  taken through Windows interop when the process is killed.
- systemd beyond what the unit asks of it: its SIGKILL after the stop timeout, and units
  edited by hand.
