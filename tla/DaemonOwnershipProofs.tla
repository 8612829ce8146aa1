------------------------- MODULE DaemonOwnershipProofs -------------------------
(***************************************************************************)
(* Proofs about DaemonOwnership for every number of workers and ports, with *)
(* deadlines, intruders and any number of crashes.                         *)
(***************************************************************************)
EXTENDS DaemonOwnership, TLAPS

\* What can happen to a worker, here and under a service manager.
Moves(w) == Launch(w) \/ Signal(w) \/ WorkerStep(w) \/ WorkerFault(w) \/ Killed(w)

\* A step is one of one worker.
LEMMA WorkerCases ==
  ASSUME WorkerNext
  PROVE  \E w \in Workers : Moves(w)
BY DEF WorkerNext, Moves

------------------------------------------------------------------------------
\* The places, the ports and the files stay in their types under every step of a worker.
LEMMA WorkerTypes ==
  ASSUME WorkerTypeOK, NEW w \in Workers, Moves(w)
  PROVE  WorkerTypeOK'
<1> USE OptionsAssumption DEF WorkerTypeOK, Places, Owning
<1>1. CASE Launch(w)
  BY <1>1 DEF Launch, Goto, files
<1>2. CASE Signal(w)
  BY <1>2 DEF Signal, AskToStop, files
<1>3. CASE WorkerStep(w)
  <2>1. CASE Guard(w)
    BY <2>1 DEF Guard, Goto, files
  <2>2. CASE CreateLock(w)
    <3>1. lock' \in [owner : Workers \cup {NoOne}, stamped : BOOLEAN]
      <4>1. CASE lock' = [owner |-> w, stamped |-> FALSE]
        BY <4>1
      <4>2. CASE lock' = lock
        BY <4>2
      <4> QED
        BY <2>2, <4>1, <4>2 DEF CreateLock
    <3> QED
      BY <2>2, <3>1 DEF CreateLock, Goto
  <2>3. CASE StampLock(w)
    BY <2>3 DEF StampLock, Goto, files
  <2>4. CASE ReadLock(w)
    BY <2>4 DEF ReadLock, Goto, files
  <2>5. CASE UnlinkLock(w)
    BY <2>5 DEF UnlinkLock, Goto, files, RemoveLock, NoLock
  <2>6. CASE LoadPort(w)
    BY <2>6 DEF LoadPort, Goto, files
  <2>7. CASE Listen(w)
    BY <2>7 DEF Listen, Goto, files
  <2>8. CASE PortBusy(w)
    BY <2>8 DEF PortBusy, Goto, files
  <2>9. CASE PersistPort(w)
    BY <2>9 DEF PersistPort, Goto, files
  <2>10. CASE Announce(w)
    BY <2>10 DEF Announce, Goto, files
  <2>11. CASE StartServing(w)
    BY <2>11 DEF StartServing, Goto, files
  <2>12. CASE Shutdown(w)
    BY <2>12 DEF Shutdown, Goto, files
  <2>13. CASE HoldStartLock(w)
    BY <2>13 DEF HoldStartLock, Goto, files
  <2>14. CASE Undiscover(w)
    BY <2>14 DEF Undiscover, Goto, files
  <2>15. CASE Drain(w)
    BY <2>15 DEF Drain, Goto, files
  <2>16. CASE ReleaseStartLock(w)
    BY <2>16 DEF ReleaseStartLock, Goto, files
  <2>17. CASE Unannounce(w)
    BY <2>17 DEF Unannounce, Goto, files
  <2>18. CASE ReleaseLock(w)
    BY <2>18 DEF ReleaseLock, Goto, files, RemoveLock, NoLock
  <2> QED
    BY <1>3, <2>1, <2>2, <2>3, <2>4, <2>5, <2>6, <2>7, <2>8, <2>9, <2>10, <2>11, <2>12, <2>13, <2>14, <2>15, <2>16, <2>17, <2>18
    DEF WorkerStep
<1>4. CASE WorkerFault(w) \/ Killed(w)
  BY <1>4 DEF WorkerFault, GiveUp, ServeFails, Crash, Killed, Die, Goto, files
<1> QED
  BY <1>1, <1>2, <1>3, <1>4 DEF Moves

\* The files and the processes start in their types.
LEMMA WorkerTypesInit == WorkerInit => WorkerTypeOK
BY OptionsAssumption DEF WorkerInit, WorkerTypeOK, Places, Owning, NoLock

\* Type correctness: whatever workers do and whenever they die, every variable
\* stays in its type.
THEOREM WorkerTypeCorrect == WorkerSpec => []WorkerTypeOK
<1>1. WorkerTypeOK /\ [WorkerNext]_workerVars => WorkerTypeOK'
  <2>1. ASSUME WorkerTypeOK, UNCHANGED workerVars PROVE WorkerTypeOK'
    BY <2>1 DEF WorkerTypeOK, workerVars, processVars, files
  <2> QED
    BY <2>1, WorkerTypes, WorkerCases
<1> QED
  BY <1>1, WorkerTypesInit, PTL DEF WorkerSpec

------------------------------------------------------------------------------
(* The inductive invariant.                                                *)

\* An owner whose lock nobody has removed is the one named by the lock file.
LockInv == \A w \in Workers : Owner(w) /\ w \notin stolen => lock.owner = w

\* The discovery file names the worker from its announcement to its removal.
DiscInv ==
  stolen = {} => \A w \in Workers :
    pc[w] \in {"reconcile", "serving", "shutdown", "undiscover"} => disc = w

\* The durable port is the one read, then the one bound, then the one served.
PortInv ==
  /\ \A w \in Workers :
       pc[w] \in {"persist", "announce", "reconcile", "serving"} => port[w] # NoPort
  /\ stolen = {} => \A w \in Workers :
       /\ pc[w] = "listen" => want[w] = persisted
       /\ pc[w] \in {"announce", "reconcile", "serving"} => port[w] = persisted

OwnershipInv == WorkerTypeOK /\ LockInv /\ DiscInv /\ PortInv

\* A history that is empty after a step was empty before.
LEMMA StolenGrows ==
  ASSUME WorkerTypeOK, NEW w \in Workers, Moves(w)
  PROVE  stolen \subseteq stolen'
BY DEF Moves, Launch, Signal, WorkerStep, WorkerFault, GiveUp, ServeFails, Crash, Killed, Die, RemoveLock,
   Guard, CreateLock, StampLock, ReadLock, UnlinkLock, LoadPort, Listen, PortBusy, PersistPort, Announce, StartServing, Shutdown, HoldStartLock, Undiscover, Drain, ReleaseStartLock, Unannounce, ReleaseLock

\* The lock file follows its owner through every step.
LEMMA LockSteps ==
  ASSUME WorkerTypeOK, LockInv, WorkerTypeOK', NEW w \in Workers, Moves(w)
  PROVE  LockInv'
<1> USE ProcessesAssumption DEF WorkerTypeOK, LockInv, Owner, Owning
<1>1. CASE Launch(w) \/ Signal(w)
  BY <1>1 DEF Launch, Signal, Unborn, Goto, files
<1>2. CASE WorkerFault(w) \/ Killed(w)
  BY <1>2 DEF WorkerFault, GiveUp, ServeFails, Crash, Killed, Die, Goto, files
<1>3. CASE WorkerStep(w)
  <2>1. CASE Guard(w)
    BY <2>1 DEF Guard, Goto, files
  <2>2. CASE CreateLock(w)
    BY <2>2 DEF CreateLock, Goto, files, NoLock
  <2>3. CASE StampLock(w)
    BY <2>3 DEF StampLock, Goto, files
  <2>4. CASE ReadLock(w)
    BY <2>4 DEF ReadLock, Goto, files
  <2>5. CASE UnlinkLock(w)
    BY <2>5 DEF UnlinkLock, Goto, files, RemoveLock, NoLock
  <2>6. CASE LoadPort(w)
    BY <2>6 DEF LoadPort, Goto, files
  <2>7. CASE Listen(w)
    BY <2>7 DEF Listen, Goto, files
  <2>8. CASE PortBusy(w)
    BY <2>8 DEF PortBusy, Goto, files
  <2>9. CASE PersistPort(w)
    BY <2>9 DEF PersistPort, Goto, files
  <2>10. CASE Announce(w)
    BY <2>10 DEF Announce, Goto, files
  <2>11. CASE StartServing(w)
    BY <2>11 DEF StartServing, Goto, files
  <2>12. CASE Shutdown(w)
    BY <2>12 DEF Shutdown, Goto, files
  <2>13. CASE HoldStartLock(w)
    BY <2>13 DEF HoldStartLock, Goto, files
  <2>14. CASE Undiscover(w)
    BY <2>14 DEF Undiscover, Goto, files
  <2>15. CASE Drain(w)
    BY <2>15 DEF Drain, Goto, files
  <2>16. CASE ReleaseStartLock(w)
    BY <2>16 DEF ReleaseStartLock, Goto, files
  <2>17. CASE Unannounce(w)
    BY <2>17 DEF Unannounce, Goto, files
  <2>18. CASE ReleaseLock(w)
    BY <2>18 DEF ReleaseLock, Goto, files, RemoveLock, NoLock
  <2> QED
    BY <1>3, <2>1, <2>2, <2>3, <2>4, <2>5, <2>6, <2>7, <2>8, <2>9, <2>10, <2>11, <2>12, <2>13, <2>14, <2>15, <2>16, <2>17, <2>18
    DEF WorkerStep
<1> QED
  BY <1>1, <1>2, <1>3 DEF Moves

\* Without a theft there is one owner, so no other worker touches what it wrote.
LEMMA OneOwner ==
  ASSUME LockInv, stolen = {}, NEW v \in Workers, NEW w \in Workers, Owner(v), Owner(w)
  PROVE  v = w
BY DEF LockInv

\* The discovery file is written and removed by the one owner.
LEMMA DiscSteps ==
  ASSUME WorkerTypeOK, LockInv, DiscInv, WorkerTypeOK', NEW w \in Workers, Moves(w)
  PROVE  DiscInv'
<1>0. stolen' = {} => stolen = {}
  BY StolenGrows
<1> USE <1>0, ProcessesAssumption, PortsAssumption, OneOwner
        DEF WorkerTypeOK, DiscInv, Owner, Owning
<1>1. CASE Launch(w) \/ Signal(w)
  BY <1>1 DEF Launch, Signal, Unborn, Goto, files
<1>2. CASE WorkerFault(w) \/ Killed(w)
  BY <1>2 DEF WorkerFault, GiveUp, ServeFails, Crash, Killed, Die, Goto, files
<1>3. CASE WorkerStep(w)
  <2>1. CASE Guard(w)
    BY <2>1 DEF Guard, Goto, files
  <2>2. CASE CreateLock(w)
    BY <2>2 DEF CreateLock, Goto, files, NoLock
  <2>3. CASE StampLock(w)
    BY <2>3 DEF StampLock, Goto, files
  <2>4. CASE ReadLock(w)
    BY <2>4 DEF ReadLock, Goto, files
  <2>5. CASE UnlinkLock(w)
    BY <2>5 DEF UnlinkLock, Goto, files, RemoveLock, NoLock
  <2>6. CASE LoadPort(w)
    BY <2>6 DEF LoadPort, Goto, files
  <2>7. CASE Listen(w)
    BY <2>7 DEF Listen, Goto, files
  <2>8. CASE PortBusy(w)
    BY <2>8 DEF PortBusy, Goto, files
  <2>9. CASE PersistPort(w)
    BY <2>9 DEF PersistPort, Goto, files
  <2>10. CASE Announce(w)
    BY <2>10 DEF Announce, Goto, files
  <2>11. CASE StartServing(w)
    BY <2>11 DEF StartServing, Goto, files
  <2>12. CASE Shutdown(w)
    BY <2>12 DEF Shutdown, Goto, files
  <2>13. CASE HoldStartLock(w)
    BY <2>13 DEF HoldStartLock, Goto, files
  <2>14. CASE Undiscover(w)
    BY <2>14 DEF Undiscover, Goto, files
  <2>15. CASE Drain(w)
    BY <2>15 DEF Drain, Goto, files
  <2>16. CASE ReleaseStartLock(w)
    BY <2>16 DEF ReleaseStartLock, Goto, files
  <2>17. CASE Unannounce(w)
    BY <2>17 DEF Unannounce, Goto, files
  <2>18. CASE ReleaseLock(w)
    BY <2>18 DEF ReleaseLock, Goto, files, RemoveLock, NoLock
  <2> QED
    BY <1>3, <2>1, <2>2, <2>3, <2>4, <2>5, <2>6, <2>7, <2>8, <2>9, <2>10, <2>11, <2>12, <2>13, <2>14, <2>15, <2>16, <2>17, <2>18
    DEF WorkerStep
<1> QED
  BY <1>1, <1>2, <1>3 DEF Moves

\* The durable port is read, bound and recorded by the one owner.
LEMMA PortSteps ==
  ASSUME OwnershipInv, WorkerTypeOK', NEW w \in Workers, Moves(w)
  PROVE  PortInv'
<1>0. stolen' = {} => stolen = {}
  BY StolenGrows DEF OwnershipInv
<1> USE <1>0, ProcessesAssumption, PortsAssumption, OneOwner
        DEF OwnershipInv, WorkerTypeOK, PortInv, Owner, Owning
<1>1. CASE Launch(w) \/ Signal(w)
  BY <1>1 DEF Launch, Signal, Unborn, Goto, files
<1>2. CASE WorkerFault(w) \/ Killed(w)
  BY <1>2 DEF WorkerFault, GiveUp, ServeFails, Crash, Killed, Die, Goto, files
<1>3. CASE WorkerStep(w)
  <2>1. CASE Guard(w)
    BY <2>1 DEF Guard, Goto, files
  <2>2. CASE CreateLock(w)
    BY <2>2 DEF CreateLock, Goto, files, NoLock
  <2>3. CASE StampLock(w)
    BY <2>3 DEF StampLock, Goto, files
  <2>4. CASE ReadLock(w)
    BY <2>4 DEF ReadLock, Goto, files
  <2>5. CASE UnlinkLock(w)
    BY <2>5 DEF UnlinkLock, Goto, files, RemoveLock, NoLock
  <2>6. CASE LoadPort(w)
    BY <2>6 DEF LoadPort, Goto, files
  <2>7. CASE Listen(w)
    BY <2>7 DEF Listen, Goto, files
  <2>8. CASE PortBusy(w)
    BY <2>8 DEF PortBusy, Goto, files
  <2>9. CASE PersistPort(w)
    BY <2>9 DEF PersistPort, Goto, files
  <2>10. CASE Announce(w)
    BY <2>10 DEF Announce, Goto, files
  <2>11. CASE StartServing(w)
    BY <2>11 DEF StartServing, Goto, files
  <2>12. CASE Shutdown(w)
    BY <2>12 DEF Shutdown, Goto, files
  <2>13. CASE HoldStartLock(w)
    BY <2>13 DEF HoldStartLock, Goto, files
  <2>14. CASE Undiscover(w)
    BY <2>14 DEF Undiscover, Goto, files
  <2>15. CASE Drain(w)
    BY <2>15 DEF Drain, Goto, files
  <2>16. CASE ReleaseStartLock(w)
    BY <2>16 DEF ReleaseStartLock, Goto, files
  <2>17. CASE Unannounce(w)
    BY <2>17 DEF Unannounce, Goto, files
  <2>18. CASE ReleaseLock(w)
    BY <2>18 DEF ReleaseLock, Goto, files, RemoveLock, NoLock
  <2> QED
    BY <1>3, <2>1, <2>2, <2>3, <2>4, <2>5, <2>6, <2>7, <2>8, <2>9, <2>10, <2>11, <2>12, <2>13, <2>14, <2>15, <2>16, <2>17, <2>18
    DEF WorkerStep
<1> QED
  BY <1>1, <1>2, <1>3 DEF Moves

\* The invariant holds in every reachable state.
THEOREM OwnershipInvariance == WorkerSpec => []OwnershipInv
<1>1. WorkerInit => OwnershipInv
  <2> SUFFICES ASSUME WorkerInit PROVE OwnershipInv
    OBVIOUS
  <2>1. WorkerTypeOK
    BY OptionsAssumption DEF WorkerInit, WorkerTypeOK, Places, Owning, NoLock
  <2>2. LockInv /\ DiscInv /\ PortInv
    BY DEF WorkerInit, LockInv, DiscInv, PortInv, Owner, Owning
  <2> QED
    BY <2>1, <2>2 DEF OwnershipInv
<1>2. OwnershipInv /\ WorkerTypeOK' /\ [WorkerNext]_workerVars => OwnershipInv'
  <2> SUFFICES ASSUME OwnershipInv, WorkerTypeOK', [WorkerNext]_workerVars
               PROVE  OwnershipInv'
    OBVIOUS
  <2>1. CASE UNCHANGED workerVars
    BY <2>1 DEF OwnershipInv, LockInv, DiscInv, PortInv, Owner, workerVars, processVars, files
  <2>2. CASE WorkerNext
    BY <2>2, WorkerCases, LockSteps, DiscSteps, PortSteps DEF OwnershipInv
  <2> QED
    BY <2>1, <2>2
<1> QED
  BY <1>1, <1>2, WorkerTypeCorrect, PTL DEF WorkerSpec

------------------------------------------------------------------------------
\* Two workers own the daemon at once only if the lock of one was removed by
\* another process.
THEOREM Mutex == WorkerSpec => []MutexUnlessStolen
<1>1. OwnershipInv => MutexUnlessStolen
  BY DEF OwnershipInv, LockInv, MutexUnlessStolen
<1> QED
  BY <1>1, OwnershipInvariance, PTL

\* Without a theft, the worker that serves is the one clients find.
THEOREM Discoverable == WorkerSpec => []ServingIsDiscoverable
<1>1. OwnershipInv => ServingIsDiscoverable
  BY DEF OwnershipInv, DiscInv, PortInv, ServingIsDiscoverable
<1> QED
  BY <1>1, OwnershipInvariance, PTL

\* Without a theft, a worker serves on the durable port and on no other.
THEOREM PortIsDurable == WorkerSpec => []DurablePortIsServed
<1>1. OwnershipInv => DurablePortIsServed
  BY DEF OwnershipInv, PortInv, DurablePortIsServed
<1> QED
  BY <1>1, OwnershipInvariance, PTL

\* The first theft is the removal of a file that was taken for stale.
THEOREM FirstTheft == WorkerSpec => FirstTheftIsStaleReclaim
<1>1. OwnershipInv /\ [WorkerNext]_workerVars =>
        (stolen = {} /\ stolen' # {} => \E w \in Workers : UnlinkLock(w))
  <2> SUFFICES ASSUME OwnershipInv, [WorkerNext]_workerVars, stolen = {}, stolen' # {}
               PROVE  \E w \in Workers : UnlinkLock(w)
    OBVIOUS
  <2>1. WorkerNext
    BY DEF workerVars
  <2>2. PICK w \in Workers : Moves(w)
    BY <2>1, WorkerCases
  <2>3. UnlinkLock(w) \/ ReleaseLock(w)
    BY <2>2 DEF Moves, Launch, Signal, WorkerStep, WorkerFault, GiveUp, ServeFails, Crash, Killed, Die,
       Guard, CreateLock, StampLock, ReadLock, LoadPort, Listen, PortBusy, PersistPort, Announce, StartServing, Shutdown, HoldStartLock, Undiscover, Drain, ReleaseStartLock, Unannounce
  <2>4. ~ReleaseLock(w)
    <3> SUFFICES ASSUME ReleaseLock(w) PROVE FALSE
      OBVIOUS
    <3>1. lock.owner = w
      BY DEF ReleaseLock, OwnershipInv, LockInv, Owner, Owning
    <3> QED
      BY <3>1 DEF ReleaseLock, RemoveLock
  <2> QED
    BY <2>3, <2>4
<1> QED
  BY <1>1, OwnershipInvariance, PTL DEF WorkerSpec, FirstTheftIsStaleReclaim
------------------------------------------------------------------------------
(* The refinement of OneDaemon, as long as no live owner loses its lock.   *)

\* What OneDaemon sees of a worker that owns the daemon.
ServedBy(w) == IF pc[w] = "serving" THEN port[w] ELSE NoPort

\* The owner, if there is one, is the incumbent.
IncumbentOwns ==
  /\ \A w \in Workers : Owner(w) =>
       Incumbent = w /\ lock.owner = w /\ Phase = PhaseOf(w) /\ Served = ServedBy(w)
  /\ (\A w \in Workers : ~Owner(w)) =>
       Incumbent = NoOne /\ Phase = "none" /\ Served = NoPort

\* The invariant, and no theft so far.
SafeInv == OwnershipInv /\ stolen = {}

\* Without a theft it is so.
LEMMA Incumbency == SafeInv => IncumbentOwns
<1> SUFFICES ASSUME SafeInv PROVE IncumbentOwns
  OBVIOUS
<1> USE DEF SafeInv
<1>1. ASSUME NEW w \in Workers, Owner(w)
      PROVE  Incumbent = w /\ lock.owner = w /\ Phase = PhaseOf(w) /\ Served = ServedBy(w)
  <2>1. \A v \in Workers : Owner(v) => v = w
    BY <1>1 DEF OwnershipInv, LockInv
  <2>2. lock.owner = w
    BY <1>1 DEF OwnershipInv, LockInv
  <2>3. Incumbent = w
    BY <1>1, <2>1 DEF Incumbent
  <2>4. w # NoOne
    BY ProcessesAssumption
  <2>5. Phase = PhaseOf(w)
    BY <2>3, <2>4 DEF Phase
  <2>6. PhaseOf(w) = "serving" <=> pc[w] = "serving"
    BY <1>1 DEF PhaseOf, Owner, Owning, Starting
  <2>7. Served = ServedBy(w)
    BY <2>3, <2>5, <2>6 DEF Served, ServedBy
  <2> QED
    BY <2>2, <2>3, <2>5, <2>7
<1>2. ASSUME \A w \in Workers : ~Owner(w)
      PROVE  Incumbent = NoOne /\ Phase = "none" /\ Served = NoPort
  BY <1>2 DEF Incumbent, Phase, Served
<1> QED
  BY <1>1, <1>2 DEF IncumbentOwns

\* A step of one worker is a step of OneDaemon or changes nothing there.
LEMMA WorkerRefines ==
  ASSUME SafeInv, SafeInv', NEW w \in Workers, Moves(w)
  PROVE  [Abstract!Next]_(Abstract!daemonVars)
<1>1. IncumbentOwns
  BY Incumbency
<1>2. /\ \A v \in Workers : Owner(v)' =>
           Incumbent' = v /\ Phase' = PhaseOf(v)' /\ Served' = ServedBy(v)'
      /\ (\A v \in Workers : ~Owner(v)') =>
           Incumbent' = NoOne /\ Phase' = "none" /\ Served' = NoPort
  <2>1. IncumbentOwns'
    BY Incumbency, PTL
  <2> QED
    BY <2>1 DEF IncumbentOwns
<1> USE DEF SafeInv, OwnershipInv, WorkerTypeOK
<1>3. \A v \in Workers \ {w} : pc'[v] = pc[v] /\ port'[v] = port[v]
  BY DEF Moves, Launch, Signal, WorkerStep, WorkerFault, GiveUp, ServeFails, Crash, Killed, Die,
     Guard, CreateLock, StampLock, ReadLock, UnlinkLock, LoadPort, Listen, PortBusy,
     PersistPort, Announce, StartServing, Shutdown, HoldStartLock, Undiscover, Drain,
     ReleaseStartLock, Unannounce, ReleaseLock, Goto, Unborn, files
<1>4. \A v \in Workers \ {w} :
        /\ Owner(v)' <=> Owner(v)
        /\ PhaseOf(v)' = PhaseOf(v) /\ ServedBy(v)' = ServedBy(v)
  BY <1>3 DEF Owner, PhaseOf, ServedBy
<1>5. persisted' = persisted \/ PersistPort(w)
  BY DEF Moves, Launch, Signal, WorkerStep, WorkerFault, GiveUp, ServeFails, Crash, Killed, Die,
     Guard, CreateLock, StampLock, ReadLock, UnlinkLock, LoadPort, Listen, PortBusy,
     PersistPort, Announce, StartServing, Shutdown, HoldStartLock, Undiscover, Drain,
     ReleaseStartLock, Unannounce, ReleaseLock, Goto, Unborn, files
<1>6. CASE ~Owner(w) /\ ~Owner(w)'
  <2>1. persisted' = persisted
    BY <1>5, <1>6 DEF PersistPort, Owner, Owning
  <2>2. CASE \E v \in Workers : Owner(v)
    <3>1. PICK v \in Workers : Owner(v)
      BY <2>2
    <3>2. v # w /\ Owner(v)'
      BY <1>6, <3>1, <1>4
    <3>3. Incumbent' = Incumbent /\ Phase' = Phase /\ Served' = Served
      BY <1>1, <1>2, <1>4, <3>1, <3>2 DEF IncumbentOwns
    <3> QED
      BY <2>1, <3>3 DEF Abstract!daemonVars
  <2>3. CASE \A v \in Workers : ~Owner(v)
    <3>1. \A v \in Workers : ~Owner(v)'
      BY <1>4, <1>6, <2>3
    <3>2. Incumbent' = Incumbent /\ Phase' = Phase /\ Served' = Served
      BY <1>1, <1>2, <2>3, <3>1 DEF IncumbentOwns
    <3> QED
      BY <2>1, <3>2 DEF Abstract!daemonVars
  <2> QED
    BY <2>2, <2>3
<1>7. CASE ~Owner(w) /\ Owner(w)'
  <2>1. lock = NoLock /\ pc'[w] = "stamp" /\ persisted' = persisted
    BY <1>7 DEF Moves, Launch, Signal, WorkerStep, WorkerFault, GiveUp, ServeFails, Crash, Killed, Die,
       Guard, CreateLock, StampLock, ReadLock, UnlinkLock, LoadPort, Listen, PortBusy,
       PersistPort, Announce, StartServing, Shutdown, HoldStartLock, Undiscover, Drain,
       ReleaseStartLock, Unannounce, ReleaseLock, Goto, Unborn, files, Owner, Owning
  <2>2. \A v \in Workers : ~Owner(v)
    BY <1>1, <2>1, ProcessesAssumption DEF NoLock, IncumbentOwns
  <2>3. PhaseOf(w)' = "starting" /\ ServedBy(w)' = NoPort
    BY <1>7, <2>1 DEF PhaseOf, ServedBy, Starting
  <2>4. Abstract!Take(w)
    BY <1>1, <1>2, <1>7, <2>1, <2>2, <2>3 DEF Abstract!Take, IncumbentOwns
  <2> QED
    BY <2>4 DEF Abstract!Next
<1>8. CASE Owner(w) /\ ~Owner(w)'
  <2>1. persisted' = persisted
    BY <1>5, <1>8 DEF PersistPort, Goto, Owner, Owning
  <2>2. \A v \in Workers : ~Owner(v)'
    BY <1>1, <1>4, <1>8 DEF IncumbentOwns
  <2>3. PhaseOf(w) # "none"
    BY <1>8 DEF PhaseOf
  <2>4. Abstract!Leave
    BY <1>1, <1>2, <1>8, <2>1, <2>2, <2>3 DEF Abstract!Leave, IncumbentOwns
  <2> QED
    BY <2>4 DEF Abstract!Next
<1>9. CASE Owner(w) /\ Owner(w)'
  <2>1. /\ Incumbent = w /\ Phase = PhaseOf(w) /\ Served = ServedBy(w)
        /\ Incumbent' = w /\ Phase' = PhaseOf(w)' /\ Served' = ServedBy(w)'
    BY <1>1, <1>2, <1>9 DEF IncumbentOwns
  <2>2. CASE PersistPort(w)
    <3>1. port[w] \in Ports /\ pc[w] = "persist" /\ pc'[w] = "announce" /\ persisted' = port[w]
      BY <2>2 DEF PersistPort, Goto, PortInv
    <3>2. /\ PhaseOf(w) = "starting" /\ PhaseOf(w)' = "starting"
          /\ ServedBy(w) = NoPort /\ ServedBy(w)' = NoPort
      BY <1>9, <3>1 DEF PhaseOf, ServedBy, Starting
    <3>3. Abstract!Choose(port[w])
      BY <2>1, <3>1, <3>2 DEF Abstract!Choose
    <3> QED
      BY <3>1, <3>3 DEF Abstract!Next
  <2>3. CASE StartServing(w)
    <3>1. /\ pc[w] = "reconcile" /\ pc'[w] = "serving" /\ port'[w] = persisted
          /\ persisted' = persisted /\ persisted # NoPort
      BY <2>3 DEF StartServing, Goto, PortInv, files
    <3>2. /\ PhaseOf(w) = "starting" /\ PhaseOf(w)' = "serving"
          /\ ServedBy(w)' = persisted
      BY <1>9, <3>1 DEF PhaseOf, ServedBy, Starting
    <3>3. Abstract!Serve
      BY <2>1, <3>1, <3>2 DEF Abstract!Serve
    <3> QED
      BY <3>3 DEF Abstract!Next
  <2>4. CASE PortBusy(w) \/ Shutdown(w) \/ ServeFails(w)
    <3>1. /\ pc[w] \in {"listen", "serving"}
          /\ pc'[w] \in {"release", "shutdown", "unannounce"}
          /\ persisted' = persisted
      BY <2>4 DEF PortBusy, Shutdown, ServeFails, Goto, files
    <3>2. PhaseOf(w) \in {"starting", "serving"}
      BY <1>9, <3>1 DEF PhaseOf, Starting
    <3>3. PhaseOf(w)' = "stopping" /\ ServedBy(w)' = NoPort
      BY <1>9, <3>1 DEF PhaseOf, ServedBy, Starting
    <3>4. Abstract!Fade
      BY <2>1, <3>1, <3>2, <3>3 DEF Abstract!Fade
    <3> QED
      BY <3>4 DEF Abstract!Next
  <2>5. CASE ~PersistPort(w) /\ ~StartServing(w)
             /\ ~PortBusy(w) /\ ~Shutdown(w) /\ ~ServeFails(w)
    <3>1. persisted' = persisted
      BY <1>5, <2>5
    <3>2. \/ pc'[w] = pc[w] /\ port'[w] = port[w]
          \/ pc[w] \in Starting /\ pc'[w] \in Starting
          \/ /\ pc[w] \in Owning \ (Starting \cup {"serving"})
             /\ pc'[w] \in Owning \ (Starting \cup {"serving"})
      BY <1>9, <2>5
      DEF Moves, Launch, Signal, WorkerStep, WorkerFault, GiveUp, Crash, Killed, Die, Guard, CreateLock,
          StampLock, ReadLock, UnlinkLock, LoadPort, Listen, Announce, HoldStartLock,
          Undiscover, Drain, ReleaseStartLock, Unannounce, ReleaseLock, Goto, Unborn,
          files, Owner, Owning, Starting
    <3>3. PhaseOf(w)' = PhaseOf(w) /\ ServedBy(w)' = ServedBy(w)
      BY <1>9, <3>2 DEF PhaseOf, ServedBy, Starting, Owning
    <3> QED
      BY <2>1, <3>1, <3>3 DEF Abstract!daemonVars
  <2> QED
    BY <2>2, <2>3, <2>4, <2>5
<1> QED
  BY <1>6, <1>7, <1>8, <1>9

\* As long as no live owner loses its lock file, the workers, their files, crashes
\* and restarts implement one daemon at one durable address.
THEOREM ImplementsOneDaemon == WorkerSpec /\ [](stolen = {}) => KeepsOneDaemon
<1>1. WorkerInit => Abstract!Init
  BY DEF WorkerInit, Abstract!Init, Incumbent, Phase, Served, Owner, Owning
<1>2. SafeInv /\ SafeInv' /\ [WorkerNext]_workerVars => [Abstract!Next]_(Abstract!daemonVars)
  <2> SUFFICES ASSUME SafeInv, SafeInv', [WorkerNext]_workerVars
               PROVE  [Abstract!Next]_(Abstract!daemonVars)
    OBVIOUS
  <2>1. CASE UNCHANGED workerVars
    BY <2>1 DEF workerVars, processVars, files, Abstract!daemonVars, Incumbent, Phase,
       Served, PhaseOf, Owner
  <2>2. CASE WorkerNext
    BY <2>2, WorkerCases, WorkerRefines
  <2> QED
    BY <2>1, <2>2
<1>3. OwnershipInv /\ stolen = {} => SafeInv
  BY DEF SafeInv
<1> QED
  BY <1>1, <1>2, <1>3, OwnershipInvariance, PTL DEF WorkerSpec, KeepsOneDaemon, Abstract!Spec
==============================================================================
