--------------------------- MODULE ServerLeaseProofs ---------------------------
(***************************************************************************)
(* Proofs about ServerLease, for every number of requests, projects,        *)
(* processes and passes.                                                   *)
(***************************************************************************)
EXTENDS ServerLease, FiniteSetTheorems, TLAPS

\* An action of one request, of one pass, of one process or of the daemon.
LEMMA NextCases ==
  ASSUME Next
  PROVE  \/ \E r \in Runs, k \in Projects, m \in Modes : Begin(r, k, m)
         \/ \E r \in Runs : RunStep(r)
         \/ \E h \in Keepers : PassStep(h)
         \/ \E p \in Pids : Bind(p) \/ Die(p) \/ Lapse(p)
         \/ \E p \in Pids, u \in Urls : ByHand(p, u)
         \/ Crash
BY DEF Next

\* The records of a project are finitely many.
LEMMA OwnsCounts == ASSUME NEW k PROVE Cardinality(Owns(k)) \in Nat
<1>1. Owns(k) \subseteq Pids
  BY DEF Owns, Listed
<1> QED
  BY <1>1, BoundsAssumption, FS_Subset, FS_CardinalityType

\* What the helpers leave of the types.
LEMMA SetStateType ==
  ASSUME TypeOK, NEW p, NEW s \in States, SetState(p, s)
  PROVE  proc' \in [Pids -> Process]
BY DEF TypeOK, Process, SetState

LEMMA SignalType == ASSUME TypeOK, NEW p, Signal(p) PROVE proc' \in [Pids -> Process]
BY SetStateType DEF TypeOK, Signal, States

LEMMA RecordType ==
  ASSUME TypeOK, NEW p, NEW e \in Record, records' = [records EXCEPT ![p] = e]
  PROVE  records' \in [Pids -> Record]
BY DEF TypeOK

LEMMA RemoveType == ASSUME TypeOK, NEW p, Remove(p) PROVE records' \in [Pids -> Record]
BY RecordType DEF Remove, NoRecord, Record

Inside == Places \ {"new", "ended"}

\* A request under way has a project, and a process while it launches one; what it
\* holds is gone at its end; server.stop counts down from what it has counted.
RequestOK ==
  \A r \in Runs :
    /\ pc[r] \in Inside => proj[r] \in Projects
    /\ Launching(r) \/ pc[r] = "removing" => child[r] \in Pids
    /\ pc[r] \notin Inside => child[r] = NoPid
    /\ copies[r] # {} => pc[r] = "refreshing"
    /\ pc[r] = "removing" /\ mode[r] = "stop" => stops[r] > 0

\* Type correctness: every variable of the servers, of the requests, of the registry
\* and of the passes stays in its type under every step and crash.
THEOREM TypeCorrect == Spec => [](TypeOK /\ RequestOK)
<1>1. Init => TypeOK /\ RequestOK
  BY BoundsAssumption DEF Init, TypeOK, RequestOK, Inside, Launching, Places, Process, States, Record, NoRecord, Modes
<1>2. TypeOK /\ RequestOK /\ [Next]_vars => (TypeOK /\ RequestOK)'
  <2> SUFFICES ASSUME TypeOK, RequestOK, [Next]_vars PROVE (TypeOK /\ RequestOK)'
    OBVIOUS
  <2> USE NothingAssumption, BoundsAssumption DEF TypeOK, RequestOK, Inside, Launching, Places, Modes, requestVars, keeperVars, faultVars
  <2>1. ASSUME NEW r \in Runs, NEW k \in Projects, NEW m \in Modes, Begin(r, k, m) PROVE (TypeOK /\ RequestOK)'
    BY <2>1 DEF Begin, Goto
  <2>2. ASSUME NEW r \in Runs, RunStep(r) PROVE (TypeOK /\ RequestOK)'
    <3>1. CASE Probe(r)
      BY <3>1 DEF Probe, Goto
    <3>2. CASE CheckForeign(r)
      BY <3>2 DEF CheckForeign, Goto
    <3>3. CASE SpawnFails(r)
      BY <3>3 DEF SpawnFails, Goto
    <3>4. CASE Ready(r)
      BY <3>4 DEF Ready, Goto
    <3>5. CASE NotReady(r)
      BY <3>5, SetStateType DEF NotReady, Goto, States
    <3>6. CASE Register(r)
      BY <3>6, RecordType DEF Register, Goto, Record
    <3>7. CASE ListLeases(r)
      BY <3>7 DEF ListLeases, Goto, Owns, Listed, Copy, Record
    <3>8. CASE Refreshed(r)
      BY <3>8 DEF Refreshed, Goto
    <3>9. CASE Leave(r)
      BY <3>9 DEF Leave, Goto
    <3>10. CASE ProdStop(r)
      BY <3>10, SetStateType DEF ProdStop, Goto, States
    <3>11. CASE CountServers(r)
      BY <3>11, OwnsCounts DEF CountServers, Goto
    <3>12. CASE NothingToStop(r)
      BY <3>12 DEF NothingToStop, Goto
    <3>13. CASE RemoveStopped(r)
      BY <3>13, RemoveType DEF RemoveStopped, Goto
    <3>14. CASE End(r)
      BY <3>14 DEF End, Goto, Forget
    <3>15. ASSUME NEW p \in Pids, Spawn(r, p) PROVE (TypeOK /\ RequestOK)'
      BY <3>15, UrlAssumption DEF Spawn, Goto, Process, States
    <3>16. ASSUME NEW p \in Pids, StopNamed(r, p) PROVE (TypeOK /\ RequestOK)'
      BY <3>16, SignalType DEF StopNamed, Goto
    <3>17. ASSUME NEW e \in copies[r], RefreshLease(r, e) PROVE (TypeOK /\ RequestOK)'
      <4>1. e \in Copy /\ proj[r] \in Projects
        BY <3>17 DEF RefreshLease
      <4>2. [key |-> proj[r], run |-> e.run, lapsed |-> FALSE] \in Record
        BY <4>1 DEF Copy, Record
      <4>3. records' \in [Pids -> Record]
        BY <3>17, <4>2, RecordType DEF RefreshLease
      <4> QED
        BY <3>17, <4>3 DEF RefreshLease
    <3> QED
      BY <2>2, <3>1, <3>2, <3>3, <3>4, <3>5, <3>6, <3>7, <3>8, <3>9, <3>10, <3>11, <3>12, <3>13, <3>14, <3>15, <3>16, <3>17 DEF RunStep
  <2>3. ASSUME NEW h \in Keepers, PassStep(h) PROVE (TypeOK /\ RequestOK)'
    <3>1. CASE StartPass(h)
      BY <3>1 DEF StartPass, Expired, Listed, Entry, Record
    <3>2. CASE SkipActive(h)
      BY <3>2 DEF SkipActive
    <3>3. CASE ReclaimRemove(h)
      BY <3>3, RemoveType DEF ReclaimRemove
    <3>4. CASE ReclaimRemoveFails(h)
      BY <3>4 DEF ReclaimRemoveFails
    <3>5. CASE EndPass(h)
      BY <3>5 DEF EndPass
    <3>6. ASSUME NEW e \in todo[h], ReclaimSignal(h, e) PROVE (TypeOK /\ RequestOK)'
      BY <3>6, SignalType DEF ReclaimSignal, Entry
    <3> QED
      BY <2>3, <3>1, <3>2, <3>3, <3>4, <3>5, <3>6 DEF PassStep
  <2>4. ASSUME NEW p \in Pids, Bind(p) PROVE (TypeOK /\ RequestOK)'
    BY <2>4, SetStateType DEF Bind, ProcessOnly, States
  <2>5. ASSUME NEW p \in Pids, Die(p) PROVE (TypeOK /\ RequestOK)'
    BY <2>5, SetStateType DEF Die, ProcessOnly, States
  <2>6. ASSUME NEW p \in Pids, Lapse(p) PROVE (TypeOK /\ RequestOK)'
    <3>1. records' \in [Pids -> Record]
      <4>1. [records[p] EXCEPT !.lapsed = TRUE] \in Record
        <5>1. records[p] \in Record
          BY <2>6
        <5> QED
          BY <5>1 DEF Record
      <4> QED
        BY <2>6, <4>1, RecordType DEF Lapse
    <3> QED
      BY <2>6, <3>1 DEF Lapse
  <2>7. ASSUME NEW p \in Pids, NEW u \in Urls, ByHand(p, u) PROVE (TypeOK /\ RequestOK)'
    BY <2>7 DEF ByHand, ProcessOnly, Process, States
  <2>8. CASE Crash
    BY <2>8 DEF Crash, Forget
  <2>9. CASE UNCHANGED vars
    BY <2>9 DEF vars
  <2> QED
    BY <2>1, <2>2, <2>3, <2>4, <2>5, <2>6, <2>7, <2>8, <2>9, NextCases
<1> QED
  BY <1>1, <1>2, PTL DEF Spec

------------------------------------------------------------------------------
(* What a step does to the processes.                                      *)

Started(p, k) == p \in Pids /\ k \in Projects /\ proc[p].state # "free" /\ proc[p].home = k
Stopped(p) == p \in Pids /\ proc[p].state \in {"dying", "dead"}

\* A process keeps its project, and once told to stop it never serves again.
Kept ==
  \A p \in Pids :
    proc[p].state # "free" =>
      /\ proc'[p].state # "free" /\ proc'[p].home = proc[p].home
      /\ Stopped(p) => Stopped(p)'

\* A change of state of one process keeps it and the others.
LEMMA SetStateKeeps ==
  ASSUME TypeOK, NEW p, NEW s \in {"dying", "dead"}, SetState(p, s)
  PROVE  Kept
BY DEF TypeOK, Process, States, SetState, Kept, Stopped

LEMMA StepKeeps == ASSUME TypeOK, [Next]_vars PROVE Kept
<1> USE DEF TypeOK, requestVars, keeperVars, faultVars
<1>0. ASSUME UNCHANGED proc PROVE Kept
  BY <1>0 DEF Kept, Stopped
<1>1. ASSUME NEW r \in Runs, NEW k \in Projects, NEW m \in Modes, Begin(r, k, m) PROVE Kept
  BY <1>1, <1>0 DEF Begin
<1>2. ASSUME NEW r \in Runs, RunStep(r) PROVE Kept
  <2>1. CASE Probe(r)
    BY <2>1, <1>0 DEF Probe
  <2>2. CASE CheckForeign(r)
    BY <2>2, <1>0 DEF CheckForeign
  <2>3. CASE SpawnFails(r)
    BY <2>3, <1>0 DEF SpawnFails
  <2>4. CASE Ready(r)
    BY <2>4, <1>0 DEF Ready
  <2>5. CASE NotReady(r)
    BY <2>5, SetStateKeeps DEF NotReady
  <2>6. CASE Register(r)
    BY <2>6, <1>0 DEF Register
  <2>7. CASE ListLeases(r)
    BY <2>7, <1>0 DEF ListLeases
  <2>8. CASE Refreshed(r)
    BY <2>8, <1>0 DEF Refreshed
  <2>9. CASE Leave(r)
    BY <2>9, <1>0 DEF Leave
  <2>10. CASE ProdStop(r)
    BY <2>10, SetStateKeeps DEF ProdStop
  <2>11. CASE CountServers(r)
    BY <2>11, <1>0 DEF CountServers
  <2>12. CASE NothingToStop(r)
    BY <2>12, <1>0 DEF NothingToStop
  <2>13. CASE RemoveStopped(r)
    BY <2>13, <1>0 DEF RemoveStopped
  <2>14. CASE End(r)
    BY <2>14, <1>0 DEF End
  <2>15. ASSUME NEW p \in Pids, Spawn(r, p) PROVE Kept
    BY <2>15 DEF Spawn, Kept, Stopped
  <2>16. ASSUME NEW p \in Pids, StopNamed(r, p) PROVE Kept
    BY <2>16, <1>0, SetStateKeeps DEF StopNamed, Signal
  <2>17. ASSUME NEW e \in copies[r], RefreshLease(r, e) PROVE Kept
    BY <2>17, <1>0 DEF RefreshLease
  <2> QED
    BY <1>2, <2>1, <2>2, <2>3, <2>4, <2>5, <2>6, <2>7, <2>8, <2>9, <2>10, <2>11, <2>12, <2>13, <2>14, <2>15, <2>16, <2>17 DEF RunStep
<1>3. ASSUME NEW h \in Keepers, PassStep(h) PROVE Kept
  <2>1. CASE StartPass(h)
    BY <2>1, <1>0 DEF StartPass
  <2>2. CASE SkipActive(h)
    BY <2>2, <1>0 DEF SkipActive
  <2>3. CASE ReclaimRemove(h)
    BY <2>3, <1>0 DEF ReclaimRemove
  <2>4. CASE ReclaimRemoveFails(h)
    BY <2>4, <1>0 DEF ReclaimRemoveFails
  <2>5. CASE EndPass(h)
    BY <2>5, <1>0 DEF EndPass
  <2>6. ASSUME NEW e \in todo[h], ReclaimSignal(h, e) PROVE Kept
    BY <2>6, <1>0, SetStateKeeps DEF ReclaimSignal, Signal
  <2> QED
    BY <1>3, <2>1, <2>2, <2>3, <2>4, <2>5, <2>6 DEF PassStep
<1>4. ASSUME NEW p \in Pids, Bind(p) PROVE Kept
  BY <1>4 DEF Bind, SetState, Process, States, Kept, Stopped
<1>5. ASSUME NEW p \in Pids, Die(p) PROVE Kept
  BY <1>5, SetStateKeeps DEF Die
<1>6. ASSUME NEW p \in Pids, Lapse(p) PROVE Kept
  BY <1>6, <1>0 DEF Lapse
<1>7. ASSUME NEW p \in Pids, NEW u \in Urls, ByHand(p, u) PROVE Kept
  BY <1>7 DEF ByHand, Kept, Stopped
<1>8. CASE Crash
  BY <1>8, <1>0 DEF Crash
<1>9. CASE UNCHANGED vars
  BY <1>0, <1>9 DEF vars
<1> QED
  BY <1>1, <1>2, <1>3, <1>4, <1>5, <1>6, <1>7, <1>8, <1>9, NextCases

------------------------------------------------------------------------------
(* The inductive invariant.                                                *)

\* The process in a request's hands is one its project has started; when it is about
\* to remove a record, the process has been told to stop.
RequestInv ==
  \A r \in Runs :
    /\ child[r] # NoPid => Started(child[r], proj[r])
    /\ pc[r] = "removing" => Stopped(child[r])

\* Every record, and every copy of one taken before a removal, is about a process
\* of the project it names.
RecordInv == \A p \in Listed : Started(p, records[p].key)

CopyInv == \A r \in Runs : \A e \in copies[r] : Started(e.pid, proj[r])

\* A pass only has processes that a project has started, and removes the records of
\* those it has signalled.
PassInv ==
  \A h \in Keepers :
    /\ \A e \in todo[h] : \E k \in Projects : Started(e.pid, k)
    /\ kpc[h] = "removing" => Stopped(killed[h])

IInv == TypeOK /\ RequestOK /\ RequestInv /\ RecordInv /\ CopyInv /\ PassInv /\ NoOrphanServer

\* The step's context for each part of the invariant.
StepFrom == IInv /\ Next /\ Kept /\ (TypeOK /\ RequestOK)'

\* A removal takes one record away and leaves the others as they are.
LEMMA RemoveShrinks ==
  ASSUME TypeOK, NEW p, Remove(p)
  PROVE  \A q \in Listed' : q \in Listed /\ records'[q] = records[q]
BY DEF TypeOK, Remove, NoRecord, Listed

\* Requests only take hold of processes of their own project.
LEMMA RequestInvStep == ASSUME StepFrom PROVE RequestInv'
<1> USE NothingAssumption DEF StepFrom, IInv, TypeOK, RequestOK, Launching, Inside, Places, Kept, RequestInv, RecordInv, Started, Stopped, requestVars, keeperVars, faultVars
<1>1. ASSUME NEW r \in Runs, NEW k \in Projects, NEW m \in Modes, Begin(r, k, m) PROVE RequestInv'
  BY <1>1 DEF Begin, Goto
<1>2. ASSUME NEW r \in Runs, RunStep(r) PROVE RequestInv'
  <2>1. CASE Probe(r)
    BY <2>1 DEF Probe, Goto
  <2>2. CASE CheckForeign(r)
    BY <2>2 DEF CheckForeign, Goto
  <2>3. CASE SpawnFails(r)
    BY <2>3 DEF SpawnFails, Goto
  <2>4. CASE Ready(r)
    BY <2>4 DEF Ready, Goto
  <2>5. CASE NotReady(r)
    BY <2>5 DEF NotReady, Goto, SetState
  <2>6. CASE Register(r)
    BY <2>6 DEF Register, Goto
  <2>7. CASE ListLeases(r)
    BY <2>7 DEF ListLeases, Goto, Owns
  <2>8. CASE Refreshed(r)
    BY <2>8 DEF Refreshed, Goto
  <2>9. CASE Leave(r)
    BY <2>9 DEF Leave, Goto
  <2>10. CASE ProdStop(r)
    BY <2>10 DEF ProdStop, Goto, SetState
  <2>11. CASE CountServers(r)
    BY <2>11 DEF CountServers, Goto
  <2>12. CASE NothingToStop(r)
    BY <2>12 DEF NothingToStop, Goto
  <2>13. CASE RemoveStopped(r)
    BY <2>13 DEF RemoveStopped, Goto, Remove, NoRecord
  <2>14. CASE End(r)
    BY <2>14 DEF End, Goto, Forget
  <2>15. ASSUME NEW p \in Pids, Spawn(r, p) PROVE RequestInv'
    BY <2>15 DEF Spawn, Goto
  <2>16. ASSUME NEW p \in Pids, StopNamed(r, p) PROVE RequestInv'
    <3>1. Started(p, proj[r])
      BY <2>16 DEF StopNamed, Owns
    <3>2. Stopped(p)'
      BY <2>16, <3>1 DEF StopNamed, Signal, SetState, Process, States
    <3> QED
      BY <2>16, <3>1, <3>2 DEF StopNamed, Goto
  <2>17. ASSUME NEW e \in copies[r], RefreshLease(r, e) PROVE RequestInv'
    BY <2>17 DEF RefreshLease
  <2> QED
    BY <1>2, <2>1, <2>2, <2>3, <2>4, <2>5, <2>6, <2>7, <2>8, <2>9, <2>10, <2>11, <2>12, <2>13, <2>14, <2>15, <2>16, <2>17 DEF RunStep
<1>3. ASSUME NEW h \in Keepers, PassStep(h) PROVE RequestInv'
  <2>1. CASE StartPass(h)
    BY <2>1 DEF StartPass, Expired
  <2>2. CASE SkipActive(h)
    BY <2>2 DEF SkipActive
  <2>3. CASE ReclaimRemove(h)
    BY <2>3 DEF ReclaimRemove, Remove, NoRecord
  <2>4. CASE ReclaimRemoveFails(h)
    BY <2>4 DEF ReclaimRemoveFails
  <2>5. CASE EndPass(h)
    BY <2>5 DEF EndPass
  <2>6. ASSUME NEW e \in todo[h], ReclaimSignal(h, e) PROVE RequestInv'
    BY <2>6 DEF ReclaimSignal, Signal, SetState
  <2> QED
    BY <1>3, <2>1, <2>2, <2>3, <2>4, <2>5, <2>6 DEF PassStep
<1>4. ASSUME NEW p \in Pids, Bind(p) PROVE RequestInv'
  BY <1>4 DEF Bind, ProcessOnly, SetState
<1>5. ASSUME NEW p \in Pids, Die(p) PROVE RequestInv'
  BY <1>5 DEF Die, ProcessOnly, SetState
<1>6. ASSUME NEW p \in Pids, Lapse(p) PROVE RequestInv'
  BY <1>6 DEF Lapse
<1>7. ASSUME NEW p \in Pids, NEW u \in Urls, ByHand(p, u) PROVE RequestInv'
  BY <1>7 DEF ByHand, ProcessOnly
<1>8. CASE Crash
  BY <1>8 DEF Crash, Forget
<1> QED
  BY <1>1, <1>2, <1>3, <1>4, <1>5, <1>6, <1>7, <1>8, NextCases

\* What is written into the registry names a process of the project it is written for.
LEMMA RecordInvStep == ASSUME StepFrom PROVE RecordInv'
<1> USE NothingAssumption DEF StepFrom, IInv, TypeOK, RequestOK, Launching, Inside, Places, Kept, RecordInv, RequestInv, CopyInv, Started, Stopped, Listed, Record, requestVars, keeperVars, faultVars
<1>1. ASSUME NEW r \in Runs, NEW k \in Projects, NEW m \in Modes, Begin(r, k, m) PROVE RecordInv'
  BY <1>1 DEF Begin, Goto
<1>2. ASSUME NEW r \in Runs, RunStep(r) PROVE RecordInv'
  <2>1. CASE Probe(r)
    BY <2>1 DEF Probe, Goto
  <2>2. CASE CheckForeign(r)
    BY <2>2 DEF CheckForeign, Goto
  <2>3. CASE SpawnFails(r)
    BY <2>3 DEF SpawnFails, Goto
  <2>4. CASE Ready(r)
    BY <2>4 DEF Ready, Goto
  <2>5. CASE NotReady(r)
    BY <2>5 DEF NotReady, Goto, SetState
  <2>6. CASE Register(r)
    BY <2>6 DEF Register, Goto
  <2>7. CASE ListLeases(r)
    BY <2>7 DEF ListLeases, Goto, Owns
  <2>8. CASE Refreshed(r)
    BY <2>8 DEF Refreshed, Goto
  <2>9. CASE Leave(r)
    BY <2>9 DEF Leave, Goto
  <2>10. CASE ProdStop(r)
    BY <2>10 DEF ProdStop, Goto, SetState
  <2>11. CASE CountServers(r)
    BY <2>11 DEF CountServers, Goto
  <2>12. CASE NothingToStop(r)
    BY <2>12 DEF NothingToStop, Goto
  <2>13. CASE RemoveStopped(r)
    <3>1. \A q \in Listed' : q \in Listed /\ records'[q] = records[q]
      BY <2>13, RemoveShrinks DEF RemoveStopped
    <3> QED
      BY <3>1
  <2>14. CASE End(r)
    BY <2>14 DEF End, Goto, Forget
  <2>15. ASSUME NEW p \in Pids, Spawn(r, p) PROVE RecordInv'
    BY <2>15 DEF Spawn, Goto
  <2>16. ASSUME NEW p \in Pids, StopNamed(r, p) PROVE RecordInv'
    BY <2>16 DEF StopNamed, Goto, Signal, SetState, Owns
  <2>17. ASSUME NEW e \in copies[r], RefreshLease(r, e) PROVE RecordInv'
    BY <2>17 DEF RefreshLease
  <2> QED
    BY <1>2, <2>1, <2>2, <2>3, <2>4, <2>5, <2>6, <2>7, <2>8, <2>9, <2>10, <2>11, <2>12, <2>13, <2>14, <2>15, <2>16, <2>17 DEF RunStep
<1>3. ASSUME NEW h \in Keepers, PassStep(h) PROVE RecordInv'
  <2>1. CASE StartPass(h)
    BY <2>1 DEF StartPass, Expired
  <2>2. CASE SkipActive(h)
    BY <2>2 DEF SkipActive
  <2>3. CASE ReclaimRemove(h)
    <3>1. \A q \in Listed' : q \in Listed /\ records'[q] = records[q]
      BY <2>3, RemoveShrinks DEF ReclaimRemove
    <3> QED
      BY <3>1
  <2>4. CASE ReclaimRemoveFails(h)
    BY <2>4 DEF ReclaimRemoveFails
  <2>5. CASE EndPass(h)
    BY <2>5 DEF EndPass
  <2>6. ASSUME NEW e \in todo[h], ReclaimSignal(h, e) PROVE RecordInv'
    BY <2>6 DEF ReclaimSignal, Signal, SetState
  <2> QED
    BY <1>3, <2>1, <2>2, <2>3, <2>4, <2>5, <2>6 DEF PassStep
<1>4. ASSUME NEW p \in Pids, Bind(p) PROVE RecordInv'
  BY <1>4 DEF Bind, ProcessOnly, SetState
<1>5. ASSUME NEW p \in Pids, Die(p) PROVE RecordInv'
  BY <1>5 DEF Die, ProcessOnly, SetState
<1>6. ASSUME NEW p \in Pids, Lapse(p) PROVE RecordInv'
  BY <1>6 DEF Lapse
<1>7. ASSUME NEW p \in Pids, NEW u \in Urls, ByHand(p, u) PROVE RecordInv'
  BY <1>7 DEF ByHand, ProcessOnly
<1>8. CASE Crash
  BY <1>8 DEF Crash, Forget
<1> QED
  BY <1>1, <1>2, <1>3, <1>4, <1>5, <1>6, <1>7, <1>8, NextCases

\* What refreshServerLease still has to write is the project's own.
LEMMA CopyInvStep == ASSUME StepFrom PROVE CopyInv'
<1> USE NothingAssumption DEF StepFrom, IInv, TypeOK, RequestOK, Launching, Inside, Places, Kept, CopyInv, RecordInv, RequestInv, Started, Stopped, Listed, Record, requestVars, keeperVars, faultVars
<1>1. ASSUME NEW r \in Runs, NEW k \in Projects, NEW m \in Modes, Begin(r, k, m) PROVE CopyInv'
  BY <1>1 DEF Begin, Goto
<1>2. ASSUME NEW r \in Runs, RunStep(r) PROVE CopyInv'
  <2>1. CASE Probe(r)
    BY <2>1 DEF Probe, Goto
  <2>2. CASE CheckForeign(r)
    BY <2>2 DEF CheckForeign, Goto
  <2>3. CASE SpawnFails(r)
    BY <2>3 DEF SpawnFails, Goto
  <2>4. CASE Ready(r)
    BY <2>4 DEF Ready, Goto
  <2>5. CASE NotReady(r)
    BY <2>5 DEF NotReady, Goto, SetState
  <2>6. CASE Register(r)
    BY <2>6 DEF Register, Goto
  <2>7. CASE ListLeases(r)
    BY <2>7 DEF ListLeases, Goto, Owns
  <2>8. CASE Refreshed(r)
    BY <2>8 DEF Refreshed, Goto
  <2>9. CASE Leave(r)
    BY <2>9 DEF Leave, Goto
  <2>10. CASE ProdStop(r)
    BY <2>10 DEF ProdStop, Goto, SetState
  <2>11. CASE CountServers(r)
    BY <2>11 DEF CountServers, Goto
  <2>12. CASE NothingToStop(r)
    BY <2>12 DEF NothingToStop, Goto
  <2>13. CASE RemoveStopped(r)
    BY <2>13 DEF RemoveStopped, Goto, Remove, NoRecord
  <2>14. CASE End(r)
    BY <2>14 DEF End, Goto, Forget
  <2>15. ASSUME NEW p \in Pids, Spawn(r, p) PROVE CopyInv'
    BY <2>15 DEF Spawn, Goto
  <2>16. ASSUME NEW p \in Pids, StopNamed(r, p) PROVE CopyInv'
    BY <2>16 DEF StopNamed, Goto, Signal, SetState, Owns
  <2>17. ASSUME NEW e \in copies[r], RefreshLease(r, e) PROVE CopyInv'
    BY <2>17 DEF RefreshLease
  <2> QED
    BY <1>2, <2>1, <2>2, <2>3, <2>4, <2>5, <2>6, <2>7, <2>8, <2>9, <2>10, <2>11, <2>12, <2>13, <2>14, <2>15, <2>16, <2>17 DEF RunStep
<1>3. ASSUME NEW h \in Keepers, PassStep(h) PROVE CopyInv'
  <2>1. CASE StartPass(h)
    BY <2>1 DEF StartPass, Expired
  <2>2. CASE SkipActive(h)
    BY <2>2 DEF SkipActive
  <2>3. CASE ReclaimRemove(h)
    BY <2>3 DEF ReclaimRemove, Remove, NoRecord
  <2>4. CASE ReclaimRemoveFails(h)
    BY <2>4 DEF ReclaimRemoveFails
  <2>5. CASE EndPass(h)
    BY <2>5 DEF EndPass
  <2>6. ASSUME NEW e \in todo[h], ReclaimSignal(h, e) PROVE CopyInv'
    BY <2>6 DEF ReclaimSignal, Signal, SetState
  <2> QED
    BY <1>3, <2>1, <2>2, <2>3, <2>4, <2>5, <2>6 DEF PassStep
<1>4. ASSUME NEW p \in Pids, Bind(p) PROVE CopyInv'
  BY <1>4 DEF Bind, ProcessOnly, SetState
<1>5. ASSUME NEW p \in Pids, Die(p) PROVE CopyInv'
  BY <1>5 DEF Die, ProcessOnly, SetState
<1>6. ASSUME NEW p \in Pids, Lapse(p) PROVE CopyInv'
  BY <1>6 DEF Lapse
<1>7. ASSUME NEW p \in Pids, NEW u \in Urls, ByHand(p, u) PROVE CopyInv'
  BY <1>7 DEF ByHand, ProcessOnly
<1>8. CASE Crash
  BY <1>8 DEF Crash, Forget
<1> QED
  BY <1>1, <1>2, <1>3, <1>4, <1>5, <1>6, <1>7, <1>8, NextCases

\* What a pass still has to signal or to remove is Game Forge's own.
LEMMA PassInvStep == ASSUME StepFrom PROVE PassInv'
<1> USE NothingAssumption DEF StepFrom, IInv, TypeOK, RequestOK, Launching, Inside, Places, Kept, PassInv, RecordInv, Started, Stopped, Listed, Record, requestVars, keeperVars, faultVars
<1>1. ASSUME NEW r \in Runs, NEW k \in Projects, NEW m \in Modes, Begin(r, k, m) PROVE PassInv'
  BY <1>1 DEF Begin, Goto
<1>2. ASSUME NEW r \in Runs, RunStep(r) PROVE PassInv'
  <2>1. CASE Probe(r)
    BY <2>1 DEF Probe, Goto
  <2>2. CASE CheckForeign(r)
    BY <2>2 DEF CheckForeign, Goto
  <2>3. CASE SpawnFails(r)
    BY <2>3 DEF SpawnFails, Goto
  <2>4. CASE Ready(r)
    BY <2>4 DEF Ready, Goto
  <2>5. CASE NotReady(r)
    BY <2>5 DEF NotReady, Goto, SetState
  <2>6. CASE Register(r)
    BY <2>6 DEF Register, Goto
  <2>7. CASE ListLeases(r)
    BY <2>7 DEF ListLeases, Goto, Owns
  <2>8. CASE Refreshed(r)
    BY <2>8 DEF Refreshed, Goto
  <2>9. CASE Leave(r)
    BY <2>9 DEF Leave, Goto
  <2>10. CASE ProdStop(r)
    BY <2>10 DEF ProdStop, Goto, SetState
  <2>11. CASE CountServers(r)
    BY <2>11 DEF CountServers, Goto
  <2>12. CASE NothingToStop(r)
    BY <2>12 DEF NothingToStop, Goto
  <2>13. CASE RemoveStopped(r)
    BY <2>13 DEF RemoveStopped, Goto, Remove, NoRecord
  <2>14. CASE End(r)
    BY <2>14 DEF End, Goto, Forget
  <2>15. ASSUME NEW p \in Pids, Spawn(r, p) PROVE PassInv'
    BY <2>15 DEF Spawn, Goto
  <2>16. ASSUME NEW p \in Pids, StopNamed(r, p) PROVE PassInv'
    BY <2>16 DEF StopNamed, Goto, Signal, SetState, Owns
  <2>17. ASSUME NEW e \in copies[r], RefreshLease(r, e) PROVE PassInv'
    BY <2>17 DEF RefreshLease
  <2> QED
    BY <1>2, <2>1, <2>2, <2>3, <2>4, <2>5, <2>6, <2>7, <2>8, <2>9, <2>10, <2>11, <2>12, <2>13, <2>14, <2>15, <2>16, <2>17 DEF RunStep
<1>3. ASSUME NEW h \in Keepers, PassStep(h) PROVE PassInv'
  <2>1. CASE StartPass(h)
    BY <2>1 DEF StartPass, Expired
  <2>2. CASE SkipActive(h)
    BY <2>2 DEF SkipActive
  <2>3. CASE ReclaimRemove(h)
    BY <2>3 DEF ReclaimRemove, Remove, NoRecord
  <2>4. CASE ReclaimRemoveFails(h)
    BY <2>4 DEF ReclaimRemoveFails
  <2>5. CASE EndPass(h)
    BY <2>5 DEF EndPass
  <2>6. ASSUME NEW e \in todo[h], ReclaimSignal(h, e) PROVE PassInv'
    <3>1. PICK k \in Projects : Started(e.pid, k)
      BY <2>6
    <3>2. Stopped(e.pid)'
      BY <2>6, <3>1 DEF ReclaimSignal, Signal, SetState, Process, States
    <3> QED
      BY <2>6, <3>2 DEF ReclaimSignal
  <2> QED
    BY <1>3, <2>1, <2>2, <2>3, <2>4, <2>5, <2>6 DEF PassStep
<1>4. ASSUME NEW p \in Pids, Bind(p) PROVE PassInv'
  BY <1>4 DEF Bind, ProcessOnly, SetState
<1>5. ASSUME NEW p \in Pids, Die(p) PROVE PassInv'
  BY <1>5 DEF Die, ProcessOnly, SetState
<1>6. ASSUME NEW p \in Pids, Lapse(p) PROVE PassInv'
  BY <1>6 DEF Lapse
<1>7. ASSUME NEW p \in Pids, NEW u \in Urls, ByHand(p, u) PROVE PassInv'
  BY <1>7 DEF ByHand, ProcessOnly
<1>8. CASE Crash
  BY <1>8 DEF Crash, Forget
<1> QED
  BY <1>1, <1>2, <1>3, <1>4, <1>5, <1>6, <1>7, <1>8, NextCases

\* A record disappears only after its process has been told to stop.
LEMMA NoOrphanServerStep == ASSUME StepFrom PROVE NoOrphanServer'
<1> USE NothingAssumption DEF StepFrom, IInv, TypeOK, RequestOK, Launching, Inside, Places, Kept, NoOrphanServer, RequestInv, PassInv, Started, Stopped, Listed, Record, Copy, requestVars, keeperVars, faultVars
<1>1. ASSUME NEW r \in Runs, NEW k \in Projects, NEW m \in Modes, Begin(r, k, m) PROVE NoOrphanServer'
  BY <1>1 DEF Begin, Goto
<1>2. ASSUME NEW r \in Runs, RunStep(r) PROVE NoOrphanServer'
  <2>1. CASE Probe(r)
    BY <2>1 DEF Probe, Goto
  <2>2. CASE CheckForeign(r)
    BY <2>2 DEF CheckForeign, Goto
  <2>3. CASE SpawnFails(r)
    BY <2>3 DEF SpawnFails, Goto
  <2>4. CASE Ready(r)
    BY <2>4 DEF Ready, Goto
  <2>5. CASE NotReady(r)
    BY <2>5 DEF NotReady, Goto, SetState
  <2>6. CASE Register(r)
    BY <2>6 DEF Register, Goto
  <2>7. CASE ListLeases(r)
    BY <2>7 DEF ListLeases, Goto, Owns
  <2>8. CASE Refreshed(r)
    BY <2>8 DEF Refreshed, Goto
  <2>9. CASE Leave(r)
    BY <2>9 DEF Leave, Goto
  <2>10. CASE ProdStop(r)
    BY <2>10 DEF ProdStop, Goto, SetState
  <2>11. CASE CountServers(r)
    BY <2>11 DEF CountServers, Goto
  <2>12. CASE NothingToStop(r)
    BY <2>12 DEF NothingToStop, Goto
  <2>13. CASE RemoveStopped(r)
    <3>1. Stopped(child[r])
      BY <2>13 DEF RemoveStopped
    <3>2. \A p \in Listed : p # child[r] => p \in Listed'
      BY <2>13 DEF RemoveStopped, Remove
    <3> QED
      BY <2>13, <3>1, <3>2 DEF RemoveStopped, Goto
  <2>14. CASE End(r)
    BY <2>14 DEF End, Goto, Forget
  <2>15. ASSUME NEW p \in Pids, Spawn(r, p) PROVE NoOrphanServer'
    BY <2>15 DEF Spawn, Goto
  <2>16. ASSUME NEW p \in Pids, StopNamed(r, p) PROVE NoOrphanServer'
    BY <2>16 DEF StopNamed, Goto, Signal, SetState, Owns
  <2>17. ASSUME NEW e \in copies[r], RefreshLease(r, e) PROVE NoOrphanServer'
    BY <2>17 DEF RefreshLease
  <2> QED
    BY <1>2, <2>1, <2>2, <2>3, <2>4, <2>5, <2>6, <2>7, <2>8, <2>9, <2>10, <2>11, <2>12, <2>13, <2>14, <2>15, <2>16, <2>17 DEF RunStep
<1>3. ASSUME NEW h \in Keepers, PassStep(h) PROVE NoOrphanServer'
  <2>1. CASE StartPass(h)
    BY <2>1 DEF StartPass, Expired
  <2>2. CASE SkipActive(h)
    BY <2>2 DEF SkipActive
  <2>3. CASE ReclaimRemove(h)
    BY <2>3 DEF ReclaimRemove, Remove, NoRecord
  <2>4. CASE ReclaimRemoveFails(h)
    BY <2>4 DEF ReclaimRemoveFails
  <2>5. CASE EndPass(h)
    BY <2>5 DEF EndPass
  <2>6. ASSUME NEW e \in todo[h], ReclaimSignal(h, e) PROVE NoOrphanServer'
    BY <2>6 DEF ReclaimSignal, Signal, SetState
  <2> QED
    BY <1>3, <2>1, <2>2, <2>3, <2>4, <2>5, <2>6 DEF PassStep
<1>4. ASSUME NEW p \in Pids, Bind(p) PROVE NoOrphanServer'
  BY <1>4 DEF Bind, ProcessOnly, SetState
<1>5. ASSUME NEW p \in Pids, Die(p) PROVE NoOrphanServer'
  BY <1>5 DEF Die, ProcessOnly, SetState
<1>6. ASSUME NEW p \in Pids, Lapse(p) PROVE NoOrphanServer'
  BY <1>6 DEF Lapse
<1>7. ASSUME NEW p \in Pids, NEW u \in Urls, ByHand(p, u) PROVE NoOrphanServer'
  BY <1>7 DEF ByHand, ProcessOnly
<1>8. CASE Crash
  BY <1>8 DEF Crash, Forget
<1> QED
  BY <1>1, <1>2, <1>3, <1>4, <1>5, <1>6, <1>7, <1>8, NextCases

\* The invariant holds in every state of every behaviour.
THEOREM Invariance == Spec => []IInv
<1>1. Init => IInv
  <2>1. Init => TypeOK /\ RequestOK
    BY BoundsAssumption DEF Init, TypeOK, RequestOK, Inside, Launching, Places, Process, States, Record, NoRecord, Modes
  <2> QED
    BY <2>1, NothingAssumption DEF Init, IInv, RequestInv, RecordInv, CopyInv, PassInv, NoOrphanServer, Listed, NoRecord
<1>2. IInv /\ (TypeOK /\ RequestOK)' /\ [Next]_vars => IInv'
  <2> SUFFICES ASSUME IInv, (TypeOK /\ RequestOK)', [Next]_vars PROVE IInv'
    OBVIOUS
  <2>1. CASE Next
    <3>1. StepFrom
      BY <2>1, StepKeeps DEF StepFrom, IInv
    <3> QED
      BY <3>1, RequestInvStep, RecordInvStep, CopyInvStep, PassInvStep, NoOrphanServerStep DEF IInv
  <2>2. CASE UNCHANGED vars
    BY <2>2 DEF vars, requestVars, keeperVars, faultVars, IInv, RequestInv, RecordInv, CopyInv, PassInv, NoOrphanServer, Listed, Started, Stopped, Launching
  <2> QED
    BY <2>1, <2>2
<1> QED
  BY <1>1, <1>2, TypeCorrect, PTL DEF Spec

------------------------------------------------------------------------------
(* The properties.                                                         *)

\* A server record is about a process that a request of that very project started.
THEOREM Attribution == Spec => []RecordNamesOwnProcess
<1>1. IInv => RecordNamesOwnProcess
  BY DEF IInv, RecordInv, RecordNamesOwnProcess, Started
<1> QED
  BY <1>1, Invariance, PTL

\* A live server of Game Forge that no accident orphaned is registered or awaited.
THEOREM NoOrphan == Spec => []NoOrphanServer
<1>1. IInv => NoOrphanServer
  BY DEF IInv
<1> QED
  BY <1>1, Invariance, PTL

\* A request stops servers of its own project only, and nobody ever signals a
\* server that was started by hand.
THEOREM ProjectIsolation == Spec => StopsOnlyOwn
<1> USE DEF OwnStopsOnly, Hit
<1>1. ASSUME UNCHANGED proc PROVE OwnStopsOnly
  BY <1>1
<1>2. ASSUME IInv, NEW r \in Runs, NEW q, Started(q, proj[r]), UNCHANGED <<mode, proj>>,
             NEW s \in {"dying", "dead"}, SetState(q, s), NEW place, Goto(r, place)
      PROVE  OwnStopsOnly
  BY <1>2, NothingAssumption DEF IInv, TypeOK, Started, SetState, Goto, Process
<1>3. ASSUME IInv, Next PROVE OwnStopsOnly
  <2> USE DEF requestVars, keeperVars, faultVars
  <2>1. ASSUME NEW r \in Runs, NEW k \in Projects, NEW m \in Modes, Begin(r, k, m) PROVE OwnStopsOnly
    BY <1>1, <2>1 DEF Begin
  <2>2. ASSUME NEW r \in Runs, RunStep(r) PROVE OwnStopsOnly
    <3>1. CASE NotReady(r)
      <4>1. Started(child[r], proj[r])
        BY <1>3, <3>1, NothingAssumption DEF NotReady, IInv, RequestInv, RequestOK, Launching
      <4> QED
        BY <1>2, <1>3, <3>1, <4>1 DEF NotReady
    <3>2. CASE ProdStop(r)
      <4>1. Started(child[r], proj[r])
        BY <1>3, <3>2 DEF ProdStop, IInv, RequestInv
      <4> QED
        BY <1>2, <1>3, <3>2, <4>1 DEF ProdStop
    <3>3. ASSUME NEW p \in Pids, StopNamed(r, p) PROVE OwnStopsOnly
      <4>1. Started(p, proj[r])
        BY <1>3, <3>3 DEF StopNamed, Owns, IInv, RecordInv
      <4> QED
        BY <1>1, <1>2, <1>3, <3>3, <4>1 DEF StopNamed, Signal
    <3>4. ASSUME NEW p \in Pids, Spawn(r, p) PROVE OwnStopsOnly
      BY <1>3, <3>4 DEF Spawn, IInv, TypeOK
    <3>5. CASE Probe(r) \/ CheckForeign(r) \/ SpawnFails(r) \/ Ready(r) \/ Register(r)
      BY <1>1, <3>5 DEF Probe, CheckForeign, SpawnFails, Ready, Register
    <3>6. CASE ListLeases(r) \/ Refreshed(r) \/ Leave(r) \/ CountServers(r)
      BY <1>1, <3>6 DEF ListLeases, Refreshed, Leave, CountServers
    <3>7. CASE NothingToStop(r) \/ RemoveStopped(r) \/ End(r)
      BY <1>1, <3>7 DEF NothingToStop, RemoveStopped, End
    <3>8. ASSUME NEW e \in copies[r], RefreshLease(r, e) PROVE OwnStopsOnly
      BY <1>1, <3>8 DEF RefreshLease
    <3> QED
      BY <2>2, <3>1, <3>2, <3>3, <3>4, <3>5, <3>6, <3>7, <3>8 DEF RunStep
  <2>3. ASSUME NEW h \in Keepers, PassStep(h) PROVE OwnStopsOnly
    <3>1. ASSUME NEW e \in todo[h], ReclaimSignal(h, e) PROVE OwnStopsOnly
      <4>1. PICK k \in Projects : Started(e.pid, k)
        BY <1>3, <3>1 DEF IInv, PassInv
      <4>2. UNCHANGED pc
        BY <3>1 DEF ReclaimSignal
      <4> QED
        BY <1>3, <3>1, <4>1, <4>2, NothingAssumption
        DEF ReclaimSignal, Signal, SetState, Started, IInv, TypeOK
    <3>2. CASE StartPass(h) \/ SkipActive(h) \/ ReclaimRemove(h)
      BY <1>1, <3>2 DEF StartPass, SkipActive, ReclaimRemove
    <3>3. CASE ReclaimRemoveFails(h) \/ EndPass(h)
      BY <1>1, <3>3 DEF ReclaimRemoveFails, EndPass
    <3> QED
      BY <2>3, <3>1, <3>2, <3>3 DEF PassStep
  <2>4. ASSUME NEW p \in Pids, Bind(p) \/ Die(p) \/ Lapse(p) PROVE OwnStopsOnly
    <3>1. ASSUME NEW s \in {"serving", "dead"}, SetState(p, s), UNCHANGED pc PROVE OwnStopsOnly
      BY <1>3, <2>4, <3>1 DEF SetState, IInv, TypeOK
    <3> QED
      BY <1>1, <2>4, <3>1 DEF Bind, Die, Lapse, ProcessOnly
  <2>5. ASSUME NEW p \in Pids, NEW u \in Urls, ByHand(p, u) PROVE OwnStopsOnly
    BY <1>3, <2>5 DEF ByHand, ProcessOnly, IInv, TypeOK
  <2>6. CASE Crash
    BY <1>1, <2>6 DEF Crash
  <2> QED
    BY <1>3, <2>1, <2>2, <2>3, <2>4, <2>5, <2>6, NextCases
<1>4. IInv /\ [Next]_vars => [OwnStopsOnly]_vars
  BY <1>3
<1> QED
  BY <1>4, Invariance, PTL DEF Spec, StopsOnlyOwn
================================================================================
