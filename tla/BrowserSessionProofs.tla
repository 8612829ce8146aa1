------------------------- MODULE BrowserSessionProofs -------------------------
(***************************************************************************)
(* Proofs about BrowserSession for every number of runs, namespaces and    *)
(* passes, and for every set of failing calls.               *)
(***************************************************************************)
EXTENDS BrowserSession, TLAPS

\* An action of one run, of one pass, of a lease or of the process.
LEMMA NextCases ==
  ASSUME Next
  PROVE  \/ \E r \in Runs, n \in Names : BeginRun(r, n)
         \/ \E r \in Runs : BeginProbe(r)
         \/ \E r \in Runs : RunStep(r)
         \/ \E h \in Passes : PassStep(h)
         \/ \E h \in Keepers : KeeperStep(h)
         \/ \E n \in Names : Lapse(n)
         \/ StartRelease \/ ReleaseDone \/ Crash \/ Boot
BY DEF Next

\* What the constants' assumptions say of names and entries.
LEMMA NameFacts ==
  /\ Runs \subseteq Names
  /\ Keepers \subseteq Passes
  /\ Releaser \in Passes
  /\ NoRecord \in Record
  /\ \A r \in Runs : [run |-> r, lapsed |-> FALSE] \in Record
BY DEF Names, Passes, NoRecord, Record

\* A pass lists entries of the registry only.
LEMMA EntriesType ==
  ASSUME TypeOK, NEW ns, ns \subseteq Listed
  PROVE  Entries(ns) \subseteq Entry
BY RunsAssumption DEF TypeOK, Entries, Entry, Listed, Record

------------------------------------------------------------------------------
\* Type correctness: every variable of the daemon, of the runs, of the registry
\* and of the passes stays in its type under every step, crash and reboot.
THEOREM TypeCorrect == Spec => []TypeOK
<1>1. Init => TypeOK
  BY BoundsAssumption, NameFacts DEF Init, TypeOK, Places
<1>2. TypeOK /\ [Next]_vars => TypeOK'
  <2> SUFFICES ASSUME TypeOK, [Next]_vars PROVE TypeOK'
    OBVIOUS
  <2> USE DEF TypeOK, Places
  <2>1. ASSUME NEW r \in Runs, NEW n \in Names, BeginRun(r, n) PROVE TypeOK'
    BY <2>1 DEF BeginRun, Goto, daemonVars, keeperVars
  <2>2. ASSUME NEW r \in Runs, BeginProbe(r) PROVE TypeOK'
    BY <2>2, NameFacts DEF BeginProbe, Goto, daemonVars, keeperVars
  <2>3. ASSUME NEW r \in Runs, RunStep(r) PROVE TypeOK'
    <3>0. CASE WaitForBrowser(r)
      <4>1. opens[r] + 1 \in 0..MaxOpens
        BY <3>0, BoundsAssumption DEF WaitForBrowser
      <4> QED
        BY <3>0, <4>1 DEF WaitForBrowser, Goto, daemonVars, keeperVars
    <3>1. CASE LockBrowser(r)
      BY <3>1 DEF LockBrowser, Goto, daemonVars, keeperVars
    <3>2. CASE OpenBrowser(r)
      BY <3>2 DEF OpenBrowser, Goto, daemonVars, keeperVars
    <3>3. CASE OpenFails(r)
      BY <3>3 DEF OpenFails, Goto, Unlock, daemonVars, keeperVars
    <3>4. CASE RegisterBrowser(r)
      BY <3>4, NameFacts DEF RegisterBrowser, Goto, Put, daemonVars, keeperVars
    <3>5. CASE RegisterFails(r)
      BY <3>5 DEF RegisterFails, CloseQuietly, Goto, Unlock, daemonVars, keeperVars
    <3>6. CASE FinishShared(r)
      BY <3>6 DEF FinishShared, Goto, Unlock, daemonVars, keeperVars
    <3>7. CASE ProbeClose(r)
      BY <3>7 DEF ProbeClose, CloseQuietly, Goto, daemonVars, keeperVars
    <3>9. CASE EndRun(r)
      BY <3>9, BoundsAssumption DEF EndRun, Goto, daemonVars, keeperVars
    <3>10. CASE ProbeRegister(r)
      BY <3>10, NameFacts DEF ProbeRegister, Put, Goto, daemonVars, keeperVars
    <3>8. CASE ProbeOpen(r)
      BY <3>8, NameFacts DEF ProbeOpen, Goto, daemonVars, keeperVars
    <3>11. CASE ProbeCheck(r)
      BY <3>11 DEF ProbeCheck, CloseQuietly, Goto, daemonVars, keeperVars
    <3>12. CASE ProbeKeep(r)
      BY <3>12 DEF ProbeKeep, Goto, daemonVars, keeperVars
    <3>13. CASE ProbeRemove(r)
      BY <3>13, NameFacts DEF ProbeRemove, Delete, Goto, daemonVars, keeperVars
    <3> QED
      BY <2>3, <3>0, <3>1, <3>2, <3>3, <3>4, <3>5, <3>6, <3>7, <3>8, <3>9, <3>10, <3>11, <3>12, <3>13
      DEF RunStep
  <2>4. ASSUME NEW h \in Passes, PassStep(h) PROVE TypeOK'
    <3>1. ASSUME NEW e \in todo[h], ReclaimClose(h, e) PROVE TypeOK'
      BY <3>1 DEF ReclaimClose, CloseReported, daemonVars, runVars, Entry
    <3>2. ASSUME NEW e \in todo[h], ReclaimFails(h, e) PROVE TypeOK'
      BY <3>2 DEF ReclaimFails, daemonVars, runVars
    <3>3. CASE ReclaimRemove(h)
      BY <3>3, NameFacts DEF ReclaimRemove, Delete, daemonVars, runVars
    <3>4. CASE RemoveFails(h)
      BY <3>4 DEF RemoveFails, daemonVars, runVars
    <3> QED
      BY <2>4, <3>1, <3>2, <3>3, <3>4 DEF PassStep
  <2>5. ASSUME NEW h \in Keepers, KeeperStep(h) PROVE TypeOK'
    <3>1. CASE StartPass(h)
      <4>1. Entries(Expired) \subseteq Entry
        BY EntriesType DEF Expired
      <4> QED
        BY <3>1, <4>1, NameFacts DEF StartPass, daemonVars, runVars
    <3>2. CASE SkipActive(h)
      BY <3>2, NameFacts DEF SkipActive, daemonVars, runVars
    <3>3. CASE EndPass(h)
      BY <3>3, NameFacts DEF EndPass, daemonVars, runVars
    <3> QED
      BY <2>5, <3>1, <3>2, <3>3 DEF KeeperStep
  <2>6. ASSUME NEW n \in Names, Lapse(n) PROVE TypeOK'
    BY <2>6 DEF Lapse, Record, daemonVars, runVars, keeperVars
  <2>7. CASE StartRelease
    <3>1. Entries(Listed) \subseteq Entry
      BY EntriesType
    <3> QED
      BY <2>7, <3>1, NameFacts DEF StartRelease, runVars
  <2>8. CASE ReleaseDone
    BY <2>8, BoundsAssumption DEF ReleaseDone, Exit
  <2>9. CASE Crash
    BY <2>9, BoundsAssumption DEF Crash, Exit
  <2>10. CASE Boot
    BY <2>10 DEF Boot, runVars, keeperVars
  <2>11. CASE UNCHANGED vars
    BY <2>11 DEF vars, daemonVars, runVars, keeperVars
  <2> QED
    BY <2>1, <2>2, <2>3, <2>4, <2>5, <2>6, <2>7, <2>8, <2>9, <2>10, <2>11, NextCases
<1> QED
  BY <1>1, <1>2, PTL DEF Spec

------------------------------------------------------------------------------
(* The inductive invariant.                                                *)

\* The runs in flight are those that have begun and not ended.
ActiveInv == active = {r \in Runs : pc[r] \notin {"new", "ended"}}

\* A session is in a shared namespace or in one of its run's own; doctor is
\* always in its own.
NameInv ==
  \A r \in Runs : pc[r] \notin {"new", "ended"} => name[r] \in Namespaces \cup {r}

\* A run named by the registry, or by an entry of a pass, has begun.
BegunInv ==
  /\ \A n \in Names : records[n].run \in Runs => pc[records[n].run] # "new"
  /\ \A h \in Passes : \A e \in todo[h] : pc[e.run] # "new"
  /\ \A h \in Passes : closed[h].run \in Runs => pc[closed[h].run] # "new"

\* ReclaimRespectsOwner, of every entry a pass may still reclaim.
SkipInv ==
  \A h \in Keepers :
    /\ kpc[h] = "working" => \A e \in todo[h] : e.run \notin active
    /\ kpc[h] = "removing" => closed[h].run \notin active
                              /\ \A e \in todo[h] : e.run \notin active

IInv == TypeOK /\ ActiveInv /\ NameInv /\ LockDiscipline /\ UserOwnsRecord
          /\ BegunInv /\ SkipInv

------------------------------------------------------------------------------
\* The invariant holds of a fresh daemon.
LEMMA InitIInv == Init => IInv
<1> SUFFICES ASSUME Init PROVE IInv
  OBVIOUS
<1> USE DEF Init
<1>1. TypeOK
  BY BoundsAssumption, NameFacts DEF TypeOK, Places
<1>2. ActiveInv /\ NameInv /\ UserOwnsRecord
  BY DEF ActiveInv, NameInv, UserOwnsRecord
<1>3. LockDiscipline
  BY RunsAssumption DEF LockDiscipline, HoldsLock
<1>4. BegunInv
  BY RunsAssumption, NameFacts DEF BegunInv, NoRecord, NoEntry
<1>5. SkipInv
  BY NameFacts DEF SkipInv
<1> QED
  BY <1>1, <1>2, <1>3, <1>4, <1>5 DEF IInv

\* What every step of one run has in common: it moves that run only, marks it in
\* flight exactly while it is under way, registers in its own name or not at
\* all, and leaves the passes alone.
StepOf(r) ==
  /\ Goto(r, pc'[r]) /\ pc'[r] \in Places \ {"new"}
  /\ active' = IF pc'[r] = "ended" THEN active \ {r} ELSE active \cup {r}
  /\ \A n \in Names : records'[n].run \in {records[n].run, r, NoRun}
  /\ UNCHANGED <<kpc, todo, closed>>

\* A run that moves disturbs no pass: the entries the passes still have belong
\* to ended runs, and the moving run has not ended.
LEMMA StepKeepsPasses ==
  ASSUME IInv, TypeOK', NEW r \in Runs, StepOf(r), pc[r] # "ended"
  PROVE  ActiveInv' /\ BegunInv' /\ SkipInv'
<1> USE DEF IInv, StepOf
<1> DEFINE place == pc'[r]
<1>1. /\ place \in Places \ {"new"}
      /\ active' = IF place = "ended" THEN active \ {r} ELSE active \cup {r}
  OBVIOUS
<1>2. pc' = [pc EXCEPT ![r] = place] /\ pc \in [Runs -> Places]
  BY <1>1 DEF Goto, TypeOK
<1> HIDE DEF place
<1>3. ActiveInv'
  BY <1>1, <1>2 DEF ActiveInv
<1>4. BegunInv'
  <2>1. \A s \in Runs : pc[s] # "new" => pc'[s] # "new"
    BY <1>2
  <2>2. \A n \in Names : records'[n].run \in Runs => pc'[records'[n].run] # "new"
    BY <1>2, <2>1, RunsAssumption DEF BegunInv
  <2>3. \A h \in Passes : \A e \in todo[h] : e.run \in Runs /\ pc'[e.run] # "new"
    BY <2>1 DEF BegunInv, TypeOK, Entry
  <2>4. \A h \in Passes : closed[h].run \in Runs => pc'[closed[h].run] # "new"
    BY <2>1 DEF BegunInv
  <2> QED
    BY <2>2, <2>3, <2>4 DEF BegunInv
<1>5. SkipInv'
  <2>1. \A s : s \in active' => s \in active \/ s = r
    BY <1>1
  <2>2. ASSUME NEW h \in Passes, NEW e \in todo[h], e.run \notin active
        PROVE  e.run \notin active'
    BY <2>1, <2>2 DEF ActiveInv, BegunInv
  <2>3. ASSUME NEW h \in Passes, closed[h].run \notin active
        PROVE  closed[h].run \notin active'
    BY <2>1, <2>3 DEF ActiveInv, BegunInv
  <2> QED
    BY <2>2, <2>3, NameFacts DEF SkipInv
<1> QED
  BY <1>3, <1>4, <1>5

\* Every step of a run under way is a StepOf it and keeps names, locks and
\* attribution: a run registers only while it holds the namespace, or, for
\* doctor, in a namespace nobody else uses.
LEMMA RunSteps ==
  ASSUME IInv, TypeOK', NEW r \in Runs, RunStep(r)
  PROVE  StepOf(r) /\ pc[r] # "ended" /\ NameInv' /\ LockDiscipline' /\ UserOwnsRecord'
<1> USE RunsAssumption DEF IInv, TypeOK
<1>0. CASE WaitForBrowser(r)
  <2> USE <1>0 DEF WaitForBrowser, At, Goto, daemonVars, keeperVars
  <2>1. StepOf(r) /\ pc[r] # "ended"
    <3>1. pc[r] \notin {"new", "ended"}
      OBVIOUS
    <3>2. r \in active
      BY <3>1 DEF ActiveInv
    <3> QED
      BY <3>1, <3>2 DEF StepOf, Places, NoRecord
  <2>2. NameInv'
    BY DEF NameInv
  <2>3. LockDiscipline'
    BY DEF LockDiscipline, HoldsLock, NameInv
  <2>4. UserOwnsRecord'
    BY DEF UserOwnsRecord, NameInv, LockDiscipline, HoldsLock, NoRecord
  <2> QED
    BY <2>1, <2>2, <2>3, <2>4
<1>1. CASE LockBrowser(r)
  <2> USE <1>1 DEF LockBrowser, At, Goto, daemonVars, keeperVars
  <2>1. StepOf(r) /\ pc[r] # "ended"
    <3>1. pc[r] \notin {"new", "ended"}
      OBVIOUS
    <3>2. r \in active
      BY <3>1 DEF ActiveInv
    <3> QED
      BY <3>1, <3>2 DEF StepOf, Places, NoRecord
  <2>2. NameInv'
    BY DEF NameInv
  <2>3. LockDiscipline'
    BY DEF LockDiscipline, HoldsLock, NameInv
  <2>4. UserOwnsRecord'
    BY DEF UserOwnsRecord, NameInv, LockDiscipline, HoldsLock, NoRecord
  <2> QED
    BY <2>1, <2>2, <2>3, <2>4
<1>2. CASE OpenBrowser(r)
  <2> USE <1>2 DEF OpenBrowser, At, Goto, daemonVars, keeperVars
  <2>1. StepOf(r) /\ pc[r] # "ended"
    <3>1. pc[r] \notin {"new", "ended"}
      OBVIOUS
    <3>2. r \in active
      BY <3>1 DEF ActiveInv
    <3> QED
      BY <3>1, <3>2 DEF StepOf, Places, NoRecord
  <2>2. NameInv'
    BY DEF NameInv
  <2>3. LockDiscipline'
    BY DEF LockDiscipline, HoldsLock, NameInv
  <2>4. UserOwnsRecord'
    BY DEF UserOwnsRecord, NameInv, LockDiscipline, HoldsLock, NoRecord
  <2> QED
    BY <2>1, <2>2, <2>3, <2>4
<1>3. CASE OpenFails(r)
  <2> USE <1>3 DEF OpenFails, At, Goto, daemonVars, keeperVars, Unlock
  <2>1. StepOf(r) /\ pc[r] # "ended"
    <3>1. pc[r] \notin {"new", "ended"}
      OBVIOUS
    <3>2. r \in active
      BY <3>1 DEF ActiveInv
    <3> QED
      BY <3>1, <3>2 DEF StepOf, Places, NoRecord
  <2>2. NameInv'
    BY DEF NameInv
  <2>3. LockDiscipline'
    BY DEF LockDiscipline, HoldsLock, NameInv
  <2>4. UserOwnsRecord'
    BY DEF UserOwnsRecord, NameInv, LockDiscipline, HoldsLock, NoRecord
  <2> QED
    BY <2>1, <2>2, <2>3, <2>4
<1>4. CASE RegisterBrowser(r)
  <2> USE <1>4 DEF RegisterBrowser, At, Goto, daemonVars, keeperVars, Put
  <2>1. StepOf(r) /\ pc[r] # "ended"
    <3>1. pc[r] \notin {"new", "ended"}
      OBVIOUS
    <3>2. r \in active
      BY <3>1 DEF ActiveInv
    <3> QED
      BY <3>1, <3>2 DEF StepOf, Places, NoRecord
  <2>2. NameInv'
    BY DEF NameInv
  <2>3. LockDiscipline'
    BY DEF LockDiscipline, HoldsLock, NameInv
  <2>4. UserOwnsRecord'
    BY DEF UserOwnsRecord, NameInv, LockDiscipline, HoldsLock, NoRecord
  <2> QED
    BY <2>1, <2>2, <2>3, <2>4
<1>5. CASE RegisterFails(r)
  <2> USE <1>5 DEF RegisterFails, At, Goto, daemonVars, keeperVars, Unlock
  <2>1. StepOf(r) /\ pc[r] # "ended"
    <3>1. pc[r] \notin {"new", "ended"}
      OBVIOUS
    <3>2. r \in active
      BY <3>1 DEF ActiveInv
    <3> QED
      BY <3>1, <3>2 DEF StepOf, Places, NoRecord
  <2>2. NameInv'
    BY DEF NameInv
  <2>3. LockDiscipline'
    BY DEF LockDiscipline, HoldsLock, NameInv
  <2>4. UserOwnsRecord'
    BY DEF UserOwnsRecord, NameInv, LockDiscipline, HoldsLock, NoRecord
  <2> QED
    BY <2>1, <2>2, <2>3, <2>4
<1>6. CASE FinishShared(r)
  <2> USE <1>6 DEF FinishShared, At, Goto, daemonVars, keeperVars, Unlock
  <2>1. StepOf(r) /\ pc[r] # "ended"
    <3>1. pc[r] \notin {"new", "ended"}
      OBVIOUS
    <3>2. r \in active
      BY <3>1 DEF ActiveInv
    <3> QED
      BY <3>1, <3>2 DEF StepOf, Places, NoRecord
  <2>2. NameInv'
    BY DEF NameInv
  <2>3. LockDiscipline'
    BY DEF LockDiscipline, HoldsLock, NameInv
  <2>4. UserOwnsRecord'
    BY DEF UserOwnsRecord, NameInv, LockDiscipline, HoldsLock, NoRecord
  <2> QED
    BY <2>1, <2>2, <2>3, <2>4
<1>7. CASE ProbeClose(r)
  <2> USE <1>7 DEF ProbeClose, At, Goto, daemonVars, keeperVars
  <2>1. StepOf(r) /\ pc[r] # "ended"
    <3>1. pc[r] \notin {"new", "ended"}
      OBVIOUS
    <3>2. r \in active
      BY <3>1 DEF ActiveInv
    <3> QED
      BY <3>1, <3>2 DEF StepOf, Places, NoRecord
  <2>2. NameInv'
    BY DEF NameInv
  <2>3. LockDiscipline'
    BY DEF LockDiscipline, HoldsLock, NameInv
  <2>4. UserOwnsRecord'
    BY DEF UserOwnsRecord, NameInv, LockDiscipline, HoldsLock, NoRecord
  <2> QED
    BY <2>1, <2>2, <2>3, <2>4
<1>9. CASE EndRun(r)
  <2> USE <1>9 DEF EndRun, At, Goto, daemonVars, keeperVars
  <2>1. StepOf(r) /\ pc[r] # "ended"
    <3>1. pc[r] \notin {"new", "ended"}
      OBVIOUS
    <3>2. r \in active
      BY <3>1 DEF ActiveInv
    <3> QED
      BY <3>1, <3>2 DEF StepOf, Places, NoRecord
  <2>2. NameInv'
    BY DEF NameInv
  <2>3. LockDiscipline'
    BY DEF LockDiscipline, HoldsLock, NameInv
  <2>4. UserOwnsRecord'
    BY DEF UserOwnsRecord, NameInv, LockDiscipline, HoldsLock, NoRecord
  <2> QED
    BY <2>1, <2>2, <2>3, <2>4
<1>10. CASE ProbeRegister(r)
  <2> USE <1>10 DEF ProbeRegister, At, Goto, daemonVars, keeperVars, Put
  <2>1. StepOf(r) /\ pc[r] # "ended"
    <3>1. pc[r] \notin {"new", "ended"}
      OBVIOUS
    <3>2. r \in active
      BY <3>1 DEF ActiveInv
    <3> QED
      BY <3>1, <3>2 DEF StepOf, Places, NoRecord
  <2>2. NameInv'
    BY DEF NameInv
  <2>3. LockDiscipline'
    BY DEF LockDiscipline, HoldsLock, NameInv
  <2>4. UserOwnsRecord'
    <3> SUFFICES ASSUME NEW u \in Runs, pc'[u] = "using"
                 PROVE  records'[name[u]].run \in {u, NoRun}
      BY DEF UserOwnsRecord
    <3>1. u # r /\ pc[u] = "using" /\ name[u] \in Names
      BY DEF NameInv, Names
    <3>2. records[name[u]].run \in {u, NoRun}
      BY <3>1 DEF UserOwnsRecord
    <3>3. name[u] # r
      BY <3>1 DEF NameInv
    <3>4. records'[name[u]] = records[name[u]]
      BY <3>1, <3>3
    <3> QED
      BY <3>2, <3>4
  <2> QED
    BY <2>1, <2>2, <2>3, <2>4
<1>8. CASE ProbeOpen(r)
  <2> USE <1>8 DEF ProbeOpen, At, Goto, daemonVars, keeperVars
  <2>1. StepOf(r) /\ pc[r] # "ended"
    <3>1. pc[r] \notin {"new", "ended"}
      OBVIOUS
    <3>2. r \in active
      BY <3>1 DEF ActiveInv
    <3> QED
      BY <3>1, <3>2 DEF StepOf, Places, NoRecord
  <2>2. NameInv'
    BY DEF NameInv
  <2>3. LockDiscipline'
    BY DEF LockDiscipline, HoldsLock, NameInv
  <2>4. UserOwnsRecord'
    BY DEF UserOwnsRecord, NameInv, LockDiscipline, HoldsLock, NoRecord
  <2> QED
    BY <2>1, <2>2, <2>3, <2>4
<1>11. CASE ProbeCheck(r)
  <2> USE <1>11 DEF ProbeCheck, At, Goto, daemonVars, keeperVars
  <2>1. StepOf(r) /\ pc[r] # "ended"
    <3>1. pc[r] \notin {"new", "ended"}
      OBVIOUS
    <3>2. r \in active
      BY <3>1 DEF ActiveInv
    <3> QED
      BY <3>1, <3>2 DEF StepOf, Places, NoRecord
  <2>2. NameInv'
    BY DEF NameInv
  <2>3. LockDiscipline'
    BY DEF LockDiscipline, HoldsLock, NameInv
  <2>4. UserOwnsRecord'
    BY DEF UserOwnsRecord, NameInv, LockDiscipline, HoldsLock, NoRecord
  <2> QED
    BY <2>1, <2>2, <2>3, <2>4
<1>12. CASE ProbeKeep(r)
  <2> USE <1>12 DEF ProbeKeep, At, Goto, daemonVars, keeperVars
  <2>1. StepOf(r) /\ pc[r] # "ended"
    <3>1. pc[r] \notin {"new", "ended"}
      OBVIOUS
    <3>2. r \in active
      BY <3>1 DEF ActiveInv
    <3> QED
      BY <3>1, <3>2 DEF StepOf, Places, NoRecord
  <2>2. NameInv'
    BY DEF NameInv
  <2>3. LockDiscipline'
    BY DEF LockDiscipline, HoldsLock, NameInv
  <2>4. UserOwnsRecord'
    BY DEF UserOwnsRecord, NameInv, LockDiscipline, HoldsLock, NoRecord
  <2> QED
    BY <2>1, <2>2, <2>3, <2>4
<1>13. CASE ProbeRemove(r)
  <2> USE <1>13 DEF ProbeRemove, At, Goto, daemonVars, keeperVars, Delete
  <2>1. StepOf(r) /\ pc[r] # "ended"
    <3>1. pc[r] \notin {"new", "ended"}
      OBVIOUS
    <3>2. r \in active
      BY <3>1 DEF ActiveInv
    <3> QED
      BY <3>1, <3>2 DEF StepOf, Places, NoRecord
  <2>2. NameInv'
    BY DEF NameInv
  <2>3. LockDiscipline'
    BY DEF LockDiscipline, HoldsLock, NameInv
  <2>4. UserOwnsRecord'
    <3> SUFFICES ASSUME NEW u \in Runs, pc'[u] = "using"
                 PROVE  records'[name[u]].run \in {u, NoRun}
      BY DEF UserOwnsRecord
    <3>1. u # r /\ pc[u] = "using" /\ name[u] \in Names
      BY DEF NameInv, Names
    <3>2. records[name[u]].run \in {u, NoRun}
      BY <3>1 DEF UserOwnsRecord
    <3>3. name[u] # r
      BY <3>1 DEF NameInv
    <3>4. records'[name[u]] = records[name[u]]
      BY <3>1, <3>3
    <3> QED
      BY <3>2, <3>4
  <2> QED
    BY <2>1, <2>2, <2>3, <2>4
<1> QED
  BY <1>0, <1>1, <1>2, <1>3, <1>4, <1>5, <1>6, <1>7, <1>8, <1>9, <1>10, <1>11, <1>12, <1>13
  DEF RunStep

\* So is the first step of a run: it begins in the namespace of its project, or
\* in its own.
LEMMA BeginSteps ==
  ASSUME IInv, TypeOK', NEW r \in Runs,
         BeginProbe(r) \/ \E n \in Names : BeginRun(r, n)
  PROVE  StepOf(r) /\ pc[r] # "ended" /\ NameInv' /\ LockDiscipline' /\ UserOwnsRecord'
<1> USE DEF IInv, TypeOK
<1>1. /\ pc[r] = "new"
      /\ pc' = [pc EXCEPT ![r] = pc'[r]] /\ pc'[r] \in {"begun", "probe"}
      /\ name' = [name EXCEPT ![r] = name'[r]] /\ name'[r] \in Namespaces \cup {r}
      /\ active' = active \cup {r}
      /\ UNCHANGED <<mutex, records, kpc, todo, closed>>
  BY NameFacts DEF BeginProbe, BeginRun, At, Goto, keeperVars
<1>2. StepOf(r) /\ pc[r] # "ended"
  BY <1>1 DEF StepOf, Goto, Places
<1>3. NameInv'
  BY <1>1 DEF NameInv
<1>4. LockDiscipline'
  BY <1>1 DEF LockDiscipline, HoldsLock
<1>5. UserOwnsRecord'
  BY <1>1 DEF UserOwnsRecord
<1> QED
  BY <1>2, <1>3, <1>4, <1>5

------------------------------------------------------------------------------
\* A step of a pass moves no run and takes no lock; it removes records, so
\* attribution can only be lost, never be given to another run.
LEMMA PassSteps ==
  ASSUME IInv, TypeOK', NEW h \in Passes,
         PassStep(h) \/ (h \in Keepers /\ KeeperStep(h))
  PROVE  IInv'
<1> USE RunsAssumption, NamesAssumption DEF IInv, TypeOK
<1>1. /\ UNCHANGED runVars
      /\ \A n \in Names : records'[n].run \in {records[n].run, NoRun}
  BY DEF PassStep, KeeperStep, ReclaimClose, ReclaimFails, ReclaimRemove, RemoveFails,
         StartPass, SkipActive, EndPass, Delete, NoRecord
<1>2. ActiveInv' /\ NameInv' /\ LockDiscipline'
  BY <1>1 DEF ActiveInv, NameInv, LockDiscipline, HoldsLock, runVars
<1>3. UserOwnsRecord'
  BY <1>1 DEF UserOwnsRecord, NameInv, Names, runVars
<1>4. \A n \in Names : records'[n].run \in Runs => pc'[records'[n].run] # "new"
  BY <1>1 DEF BegunInv, runVars
<1>5. pc' = pc /\ active' = active
  BY <1>1 DEF runVars
<1>6. BegunInv' /\ SkipInv'
  <2>1. ASSUME NEW e \in todo[h], ReclaimClose(h, e) PROVE BegunInv' /\ SkipInv'
    BY <1>4, <1>5, <2>1, NameFacts DEF ReclaimClose, BegunInv, SkipInv
  <2>2. ASSUME NEW e \in todo[h], ReclaimFails(h, e) PROVE BegunInv' /\ SkipInv'
    BY <1>4, <1>5, <2>2, NameFacts DEF ReclaimFails, BegunInv, SkipInv
  <2>3. CASE ReclaimRemove(h) \/ RemoveFails(h)
    <3>1. /\ todo' = todo /\ kpc' = [kpc EXCEPT ![h] = "working"]
          /\ kpc[h] = "removing" /\ closed' = [closed EXCEPT ![h] = NoEntry]
      BY <2>3 DEF ReclaimRemove, RemoveFails
    <3>2. NoEntry.run \notin Runs
      BY DEF NoEntry
    <3>3. BegunInv'
      BY <1>4, <1>5, <3>1, <3>2 DEF BegunInv
    <3>4. SkipInv'
      BY <1>5, <3>1, NameFacts DEF SkipInv
    <3> QED
      BY <3>3, <3>4
  <2>4. CASE h \in Keepers /\ StartPass(h)
    <3>1. \A e \in Entries(Expired) : pc[e.run] # "new"
      BY DEF Entries, Expired, Listed, BegunInv, Record
    <3> QED
      BY <1>4, <1>5, <2>4, <3>1, NameFacts DEF StartPass, BegunInv, SkipInv
  <2>5. CASE h \in Keepers /\ SkipActive(h)
    BY <1>4, <1>5, <2>5, NameFacts DEF SkipActive, BegunInv, SkipInv
  <2>6. CASE h \in Keepers /\ EndPass(h)
    BY <1>4, <1>5, <2>6, NameFacts DEF EndPass, BegunInv, SkipInv
  <2> QED
    BY <2>1, <2>2, <2>3, <2>4, <2>5, <2>6 DEF PassStep, KeeperStep
<1> QED
  BY <1>2, <1>3, <1>6

------------------------------------------------------------------------------
\* A lease that runs out changes nobody's attribution.
LEMMA LapseStep ==
  ASSUME IInv, TypeOK', NEW n \in Names, Lapse(n)
  PROVE  IInv'
<1> USE DEF IInv, TypeOK
<1>1. /\ UNCHANGED <<pc, name, active, mutex, kpc, todo, closed>>
      /\ \A m \in Names : records'[m].run = records[m].run
  BY DEF Lapse, Record, runVars, keeperVars
<1>2. ActiveInv' /\ NameInv' /\ LockDiscipline'
  BY <1>1 DEF ActiveInv, NameInv, LockDiscipline, HoldsLock
<1>3. UserOwnsRecord'
  BY <1>1 DEF UserOwnsRecord, NameInv, Names
<1>4. BegunInv' /\ SkipInv'
  BY <1>1 DEF BegunInv, SkipInv
<1> QED
  BY <1>2, <1>3, <1>4

\* A stopping daemon lists every record for its own pass, which is no keeper.
LEMMA ReleaseStep ==
  ASSUME IInv, TypeOK', StartRelease
  PROVE  IInv'
<1> USE PassesAssumption DEF IInv, TypeOK
<1>1. UNCHANGED <<pc, name, active, mutex, records, closed>>
  BY DEF StartRelease, runVars
<1>2. ActiveInv' /\ NameInv' /\ LockDiscipline' /\ UserOwnsRecord'
  BY <1>1 DEF ActiveInv, NameInv, LockDiscipline, HoldsLock, UserOwnsRecord
<1>3. \A e \in Entries(Listed) : pc[e.run] # "new"
  BY DEF Entries, Listed, BegunInv, Record
<1>4. BegunInv'
  BY <1>1, <1>3, NameFacts DEF StartRelease, BegunInv
<1>5. SkipInv'
  BY <1>1, NameFacts DEF StartRelease, SkipInv
<1> QED
  BY <1>2, <1>4, <1>5

\* An exit ends every run that has begun and forgets locks and passes together.
LEMMA ExitStep ==
  ASSUME IInv, TypeOK', NEW how, Exit(how)
  PROVE  IInv'
<1> USE RunsAssumption DEF IInv, TypeOK, Exit
<1>1. ActiveInv' /\ NameInv' /\ UserOwnsRecord'
  BY DEF ActiveInv, NameInv, UserOwnsRecord
<1>2. LockDiscipline'
  BY DEF LockDiscipline, HoldsLock
<1>3. BegunInv'
  BY DEF BegunInv, NoEntry
<1>4. SkipInv'
  BY NameFacts DEF SkipInv
<1> QED
  BY <1>1, <1>2, <1>3, <1>4

\* The invariant holds in every reachable state.
THEOREM Invariance == Spec => []IInv
<1>1. Init => IInv
  BY InitIInv
<1>2. IInv /\ TypeOK' /\ [Next]_vars => IInv'
  <2> SUFFICES ASSUME IInv, TypeOK', [Next]_vars PROVE IInv'
    OBVIOUS
  <2>1. ASSUME NEW r \in Runs, RunStep(r) PROVE IInv'
    BY <2>1, RunSteps, StepKeepsPasses DEF IInv
  <2>2. ASSUME NEW r \in Runs, BeginProbe(r) \/ \E n \in Names : BeginRun(r, n) PROVE IInv'
    BY <2>2, BeginSteps, StepKeepsPasses DEF IInv
  <2>3. ASSUME NEW h \in Passes, PassStep(h) PROVE IInv'
    BY <2>3, PassSteps
  <2>4. ASSUME NEW h \in Keepers, KeeperStep(h) PROVE IInv'
    BY <2>4, PassSteps, NameFacts
  <2>5. ASSUME NEW n \in Names, Lapse(n) PROVE IInv'
    BY <2>5, LapseStep
  <2>6. CASE StartRelease
    BY <2>6, ReleaseStep
  <2>7. CASE ReleaseDone \/ Crash
    BY <2>7, ExitStep DEF ReleaseDone, Crash
  <2>8. CASE Boot \/ UNCHANGED vars
    <3>1. UNCHANGED <<runVars, records, keeperVars>>
      BY <2>8 DEF Boot, vars
    <3> QED
      BY <3>1 DEF IInv, ActiveInv, NameInv, LockDiscipline, HoldsLock, UserOwnsRecord,
         BegunInv, SkipInv, runVars, keeperVars
  <2> QED
    BY <2>1, <2>2, <2>3, <2>4, <2>5, <2>6, <2>7, <2>8, NextCases
<1> QED
  BY <1>1, <1>2, TypeCorrect, PTL DEF Spec

------------------------------------------------------------------------------
\* A namespace is held by exactly the run that is inside a browser operation on
\* it, on every path out of openBrowserMode and through every exit.
THEOREM LockSafety == Spec => []LockDiscipline
<1>1. IInv => LockDiscipline
  BY DEF IInv
<1> QED
  BY <1>1, Invariance, PTL

\* Two runs are never inside a browser operation on one namespace at once.
THEOREM OneUser ==
  Spec => [](\A r, s \in Runs :
               HoldsLock(r) /\ HoldsLock(s) /\ name[r] = name[s] => r = s)
<1>1. IInv => \A r, s \in Runs :
               HoldsLock(r) /\ HoldsLock(s) /\ name[r] = name[s] => r = s
  <2> SUFFICES ASSUME IInv, NEW r \in Runs, NEW s \in Runs,
                      HoldsLock(r), HoldsLock(s), name[r] = name[s]
               PROVE  r = s
    OBVIOUS
  <2>1. name[r] \in Names
    BY DEF IInv, NameInv, HoldsLock, Names
  <2> QED
    BY <2>1 DEF IInv, LockDiscipline
<1> QED
  BY <1>1, Invariance, PTL

\* While a run uses a browser the registry never attributes it to another run.
THEOREM Attribution == Spec => []UserOwnsRecord
<1>1. IInv => UserOwnsRecord
  BY DEF IInv
<1> QED
  BY <1>1, Invariance, PTL

\* A housekeeping pass never reclaims what is registered to a run in flight.
THEOREM RespectsOwner == Spec => []ReclaimRespectsOwner
<1>1. IInv => ReclaimRespectsOwner
  BY DEF IInv, SkipInv, ReclaimRespectsOwner
<1> QED
  BY <1>1, Invariance, PTL

------------------------------------------------------------------------------
(* What is left to nobody.                                                 *)

Probing == {"probe", "probing", "checking", "probed", "probeClosed", "probeDone"}

\* Only doctor's run has to do with the namespace named by it: in the registry, in what
\* passes have listed and in what they have closed.  Until the daemon stops, nothing takes
\* away the record doctor has written before it opens.
DoctorInv ==
  /\ \A r \in Runs : pc[r] \in Probing => name[r] = r
  /\ \A r \in Runs : records[r].run \in {r, NoRun}
  /\ \A h \in Passes : \A e \in todo[h] : e.name \in Runs => e.run = e.name
  /\ \A h \in Passes : closed[h].name \in Runs => closed[h].run = closed[h].name
  /\ daemon # "releasing" => kpc[Releaser] = "idle"
  /\ daemon # "releasing" => \A r \in Runs : pc[r] = "probing" => records[r].run = r

\* What a step of a run is for the names and the registry.
Moved(r) ==
  /\ UNCHANGED <<daemon, kpc, todo, closed>>
  /\ \A s \in Runs \ {r} : pc'[s] = pc[s] /\ name'[s] = name[s]
  /\ pc'[r] \in Probing => name'[r] = r
  /\ \A n \in Names : records'[n] # records[n] => n \in Namespaces \cup {r}
                                                  /\ records'[n].run \in {r, NoRun}
  /\ pc'[r] = "probing" => records'[r].run = r

LEMMA RunMoves ==
  ASSUME IInv, DoctorInv, NEW r \in Runs, RunStep(r)
  PROVE  Moved(r)
<1> USE RunsAssumption, NameFacts DEF IInv, TypeOK, At, Goto, daemonVars, keeperVars, Moved, Probing
<1>1. pc[r] \in Probing => name[r] = r
  BY DEF DoctorInv
<1>2. pc[r] \notin {"new", "ended"} => name[r] \in Namespaces \cup {r}
  BY DEF NameInv
<1>3. CASE WaitForBrowser(r) \/ LockBrowser(r) \/ OpenBrowser(r)
  BY <1>3 DEF WaitForBrowser, LockBrowser, OpenBrowser
<1>4. CASE OpenFails(r) \/ RegisterFails(r) \/ FinishShared(r)
  BY <1>4 DEF OpenFails, RegisterFails, FinishShared
<1>5. CASE RegisterBrowser(r)
  BY <1>2, <1>5 DEF RegisterBrowser, Put
<1>6. CASE EndRun(r)
  BY <1>6 DEF EndRun
<1>7. CASE ProbeRegister(r)
  BY <1>1, <1>7 DEF ProbeRegister, Put
<1>8. CASE ProbeOpen(r) \/ ProbeCheck(r) \/ ProbeKeep(r) \/ ProbeClose(r)
  BY <1>1, <1>8 DEF ProbeOpen, ProbeCheck, ProbeKeep, ProbeClose
<1>9. CASE ProbeRemove(r)
  BY <1>1, <1>9 DEF ProbeRemove, Delete, NoRecord
<1> QED
  BY <1>3, <1>4, <1>5, <1>6, <1>7, <1>8, <1>9 DEF RunStep

LEMMA BeginMoves ==
  ASSUME IInv, DoctorInv, NEW r \in Runs, BeginProbe(r) \/ \E n \in Names : BeginRun(r, n)
  PROVE  Moved(r)
BY DEF IInv, TypeOK, BeginProbe, BeginRun, At, Goto, daemonVars, keeperVars, Moved, Probing

LEMMA MovedKeeps ==
  ASSUME IInv, DoctorInv, NEW r \in Runs, Moved(r)
  PROVE  DoctorInv'
<1>1. \A s \in Runs : pc'[s] \in Probing => name'[s] = s
  BY DEF Moved, DoctorInv
<1>2. \A s \in Runs \ {r} : records'[s] = records[s]
  BY RunsAssumption, NameFacts DEF Moved
<1>3. \A s \in Runs : records'[s].run \in {s, NoRun}
  BY <1>2, NameFacts DEF Moved, DoctorInv
<1>4. daemon # "releasing" => \A s \in Runs : pc'[s] = "probing" => records'[s].run = s
  BY <1>2 DEF Moved, DoctorInv
<1> QED
  BY <1>1, <1>3, <1>4 DEF Moved, DoctorInv

\* A pass takes nothing from a doctor at work: what it reclaims is nobody's in flight.
LEMMA PassKeeps ==
  ASSUME IInv, DoctorInv, NEW h \in Passes, PassStep(h) \/ (h \in Keepers /\ KeeperStep(h))
  PROVE  DoctorInv'
<1> USE NameFacts DEF IInv, TypeOK, daemonVars, runVars
<1>1. h \in Keepers \/ (h = Releaser /\ daemon = "releasing")
  BY DEF PassStep, ReclaimClose, ReclaimFails, ReclaimRemove, RemoveFails, DoctorInv, Passes
<1>2. CASE \E e \in todo[h] : ReclaimClose(h, e)
  BY <1>1, <1>2, PassesAssumption DEF ReclaimClose, DoctorInv
<1>3. CASE \E e \in todo[h] : ReclaimFails(h, e)
  BY <1>1, <1>3, PassesAssumption DEF ReclaimFails, DoctorInv
<1>4. CASE ReclaimRemove(h)
  <2>1. /\ kpc[h] = "removing" /\ kpc' = [kpc EXCEPT ![h] = "working"]
        /\ closed' = [closed EXCEPT ![h] = NoEntry]
        /\ records' = [records EXCEPT ![closed[h].name] = NoRecord]
        /\ UNCHANGED <<daemon, pc, name, active, todo>>
    BY <1>4 DEF ReclaimRemove, Delete
  <2>2. daemon # "releasing" => \A r \in Runs : pc[r] = "probing" => closed[h].name # r
    <3> SUFFICES ASSUME daemon # "releasing", NEW r \in Runs, pc[r] = "probing", closed[h].name = r
                 PROVE  FALSE
      OBVIOUS
    <3>1. closed[h].run = r /\ r \in active
      BY DEF DoctorInv, ActiveInv
    <3> QED
      BY <1>1, <2>1, <3>1 DEF SkipInv
  <2>3. \A n \in Names : records'[n] = IF n = closed[h].name THEN NoRecord ELSE records[n]
    BY <2>1
  <2>4. \A r \in Runs : records'[r].run \in {r, NoRun}
    BY <2>3 DEF DoctorInv, NoRecord
  <2>5. daemon # "releasing" => \A r \in Runs : pc[r] = "probing" => records'[r].run = r
    BY <2>2, <2>3 DEF DoctorInv
  <2>6. \A g \in Passes : closed'[g].name \in Runs => closed'[g].run = closed'[g].name
    BY <2>1, NamesAssumption DEF DoctorInv, NoEntry
  <2>7. daemon # "releasing" => kpc'[Releaser] = "idle"
    BY <1>1, <2>1, PassesAssumption DEF DoctorInv
  <2> QED
    BY <2>1, <2>4, <2>5, <2>6, <2>7 DEF DoctorInv
<1>5. CASE RemoveFails(h)
  BY <1>1, <1>5, PassesAssumption, NamesAssumption DEF RemoveFails, DoctorInv, NoEntry
<1>6. CASE h \in Keepers /\ StartPass(h)
  <2>1. \A e \in Entries(Expired) : e.name \in Runs => e.run = e.name
    <3>1. \A e \in Entries(Expired) : e.name \in Names /\ e.run = records[e.name].run /\ e.run # NoRun
      BY DEF Entries, Expired, Listed
    <3> QED
      BY <3>1 DEF DoctorInv
  <2> QED
    BY <1>6, <2>1, PassesAssumption DEF StartPass, DoctorInv
<1>7. CASE h \in Keepers /\ (SkipActive(h) \/ EndPass(h))
  BY <1>7, PassesAssumption DEF SkipActive, EndPass, DoctorInv
<1> QED
  BY <1>2, <1>3, <1>4, <1>5, <1>6, <1>7 DEF PassStep, KeeperStep

LEMMA ProcessKeeps ==
  ASSUME IInv, DoctorInv,
         (\E n \in Names : Lapse(n)) \/ StartRelease \/ ReleaseDone \/ Crash \/ Boot \/ UNCHANGED vars
  PROVE  DoctorInv'
<1> USE NameFacts DEF IInv, TypeOK
<1>1. ASSUME NEW n \in Names, Lapse(n) PROVE DoctorInv'
  BY <1>1 DEF Lapse, DoctorInv, daemonVars, runVars, keeperVars
<1>2. CASE StartRelease
  <2>1. \A e \in Entries(Listed) : e.name \in Runs => e.run = e.name
    <3>1. \A e \in Entries(Listed) : e.name \in Names /\ e.run = records[e.name].run /\ e.run # NoRun
      BY DEF Entries, Listed
    <3> QED
      BY <3>1 DEF DoctorInv
  <2> QED
    BY <1>2, <2>1 DEF StartRelease, DoctorInv, runVars
<1>3. CASE ReleaseDone \/ Crash
  <2>1. Exit(daemon') /\ daemon' # "releasing"
    BY <1>3 DEF ReleaseDone, Crash, Exit
  <2> QED
    BY <2>1, NamesAssumption DEF Exit, DoctorInv, Probing, NoEntry
<1>4. CASE Boot
  BY <1>4 DEF Boot, DoctorInv, runVars, keeperVars
<1>5. CASE UNCHANGED vars
  BY <1>5 DEF DoctorInv, vars, daemonVars, runVars, keeperVars
<1> QED
  BY <1>1, <1>2, <1>3, <1>4, <1>5

\* The ways to leave the browser of n to nobody.
Explained(n) ==
  \/ \E r \in Runs : name[r] = n /\ pc[r] = "opened" /\ pc'[r] \in {"begun", "ended"}
  \/ \E r \in Runs : name[r] = n /\ pc[r] = "probeClosed"
  \/ \E h \in Passes : closed[h].name = n /\ kpc[h] = "removing"
  \/ \E r \in Runs : name[r] = n /\ pc[r] = "probing" /\ daemon = "releasing"

\* Whatever leaves browser and record of n alone leaves it to nobody only by moving the run
\* that has opened it.
LEMMA OnlyByMoving ==
  ASSUME NEW n \in Names, ~Orphan(n), Orphan(n)', browser'[n] => browser[n],
         records'[n].run = NoRun => records[n].run = NoRun
  PROVE  \E r \in Runs : name[r] = n /\ pc[r] = "opened" /\ ~(name'[r] = n /\ pc'[r] = "opened")
BY DEF Orphan

LEMMA RunExplains ==
  ASSUME IInv, DoctorInv, NEW r \in Runs, RunStep(r), NEW n \in Names, ~Orphan(n), Orphan(n)'
  PROVE  Explained(n)
<1> USE RunsAssumption, NameFacts DEF IInv, TypeOK, At, Goto, daemonVars, keeperVars
<1>1. pc[r] \in Probing => name[r] = r
  BY DEF DoctorInv
<1>2. pc[r] \notin {"new", "ended"} => name[r] \in Names
  BY DEF NameInv, Names
<1>3. CASE WaitForBrowser(r) \/ LockBrowser(r) \/ FinishShared(r) \/ EndRun(r) \/ ProbeKeep(r)
  <2>1. /\ browser' = browser /\ records' = records /\ pc[r] # "opened"
        /\ \A s \in Runs \ {r} : pc'[s] = pc[s] /\ name'[s] = name[s]
    BY <1>3 DEF WaitForBrowser, LockBrowser, FinishShared, EndRun, ProbeKeep
  <2> QED
    BY <2>1, OnlyByMoving
<1>4. CASE OpenBrowser(r)
  <2>1. /\ records' = records /\ name' = name /\ pc[r] = "locked" /\ pc'[r] = "opened"
        /\ \A s \in Runs \ {r} : pc'[s] = pc[s]
        /\ \A m \in Names : m # name[r] => browser'[m] = browser[m]
    BY <1>2, <1>4 DEF OpenBrowser
  <2>2. n # name[r]
    BY <2>1 DEF Orphan
  <2> QED
    BY <2>1, <2>2, OnlyByMoving
<1>5. CASE OpenFails(r) \/ RegisterFails(r)
  <2>1. /\ records' = records /\ name' = name /\ pc'[r] = "begun"
        /\ \A s \in Runs \ {r} : pc'[s] = pc[s]
        /\ browser'[n] => browser[n]
    BY <1>2, <1>5 DEF OpenFails, RegisterFails, CloseQuietly
  <2>2. PICK s \in Runs : name[s] = n /\ pc[s] = "opened" /\ ~(name'[s] = n /\ pc'[s] = "opened")
    BY <2>1, OnlyByMoving
  <2> QED
    BY <2>1, <2>2 DEF Explained
<1>6. CASE RegisterBrowser(r)
  <2>1. /\ browser' = browser /\ name' = name /\ pc[r] = "opened"
        /\ \A s \in Runs \ {r} : pc'[s] = pc[s]
        /\ \A m \in Names : records'[m] = IF m = name[r] THEN [run |-> r, lapsed |-> FALSE]
                                          ELSE records[m]
    BY <1>2, <1>6 DEF RegisterBrowser, Put
  <2>2. n # name[r]
    BY <2>1 DEF Orphan
  <2>3. PICK s \in Runs : name[s] = n /\ pc[s] = "opened" /\ ~(name'[s] = n /\ pc'[s] = "opened")
    BY <2>1, <2>2, OnlyByMoving
  <2> QED
    BY <2>1, <2>2, <2>3
<1>7. CASE ProbeRegister(r)
  <2>1. /\ browser' = browser /\ name' = name /\ pc[r] = "probe"
        /\ \A s \in Runs \ {r} : pc'[s] = pc[s]
        /\ \A m \in Names : records'[m].run \in {records[m].run, r}
    BY <1>7 DEF ProbeRegister, Put
  <2> QED
    BY <2>1, OnlyByMoving
<1>8. CASE ProbeOpen(r)
  <2>1. /\ records' = records /\ name' = name /\ pc[r] = "probing"
        /\ \A s \in Runs \ {r} : pc'[s] = pc[s]
        /\ \A m \in Names : m # r => browser'[m] = browser[m]
    BY <1>8 DEF ProbeOpen
  <2>2. CASE n = r
    <3>1. records[r].run = NoRun
      BY <2>1, <2>2 DEF Orphan
    <3>2. daemon = "releasing"
      BY <2>1, <3>1 DEF DoctorInv
    <3> QED
      BY <1>1, <2>1, <2>2, <3>2 DEF Explained, Probing
  <2>3. CASE n # r
    BY <2>1, <2>3, OnlyByMoving
  <2> QED
    BY <2>2, <2>3
<1>9. CASE ProbeCheck(r) \/ ProbeClose(r)
  <2>1. /\ records' = records /\ name' = name /\ pc[r] # "opened"
        /\ \A s \in Runs \ {r} : pc'[s] = pc[s]
        /\ browser'[n] => browser[n]
    BY <1>2, <1>9 DEF ProbeCheck, ProbeClose, CloseQuietly
  <2> QED
    BY <2>1, OnlyByMoving
<1>10. CASE ProbeRemove(r)
  <2>1. /\ browser' = browser /\ name' = name /\ pc[r] = "probeClosed"
        /\ \A s \in Runs \ {r} : pc'[s] = pc[s]
        /\ \A m \in Names : m # r => records'[m] = records[m]
    BY <1>10 DEF ProbeRemove, Delete
  <2>2. CASE n = r
    BY <1>1, <2>1, <2>2 DEF Explained, Probing
  <2>3. CASE n # r
    BY <2>1, <2>3, OnlyByMoving
  <2> QED
    BY <2>2, <2>3
<1> QED
  BY <1>3, <1>4, <1>5, <1>6, <1>7, <1>8, <1>9, <1>10 DEF RunStep

\* A run that begins, a pass, a lease or the process.
LEMMA OthersExplain ==
  ASSUME IInv, NEW n \in Names, ~Orphan(n), Orphan(n)',
         \/ \E r \in Runs : BeginProbe(r) \/ \E m \in Names : BeginRun(r, m)
         \/ \E h \in Passes : PassStep(h)
         \/ \E h \in Keepers : KeeperStep(h)
         \/ \E m \in Names : Lapse(m)
         \/ StartRelease \/ ReleaseDone \/ Crash \/ Boot \/ UNCHANGED vars
  PROVE  Explained(n)
<1> USE NameFacts DEF IInv, TypeOK
<1>1. ASSUME NEW r \in Runs, BeginProbe(r) \/ \E m \in Names : BeginRun(r, m) PROVE FALSE
  <2>1. /\ browser' = browser /\ records' = records /\ pc[r] = "new"
        /\ \A s \in Runs \ {r} : pc'[s] = pc[s] /\ name'[s] = name[s]
    BY <1>1 DEF BeginProbe, BeginRun, At, Goto
  <2> QED
    BY <2>1, OnlyByMoving
<1>2. ASSUME NEW h \in Passes, PassStep(h) PROVE Explained(n)
  <2>1. pc' = pc /\ name' = name
    BY <1>2 DEF PassStep, ReclaimClose, ReclaimFails, ReclaimRemove, RemoveFails, runVars
  <2>2. CASE ReclaimRemove(h)
    <3>1. /\ browser' = browser /\ kpc[h] = "removing"
          /\ records' = [records EXCEPT ![closed[h].name] = NoRecord]
      BY <2>2 DEF ReclaimRemove, Delete
    <3>2. CASE closed[h].name = n
      BY <3>1, <3>2 DEF Explained
    <3>3. CASE closed[h].name # n
      <4>1. records'[n] = records[n]
        BY <3>1, <3>3
      <4> QED
        BY <2>1, <3>1, <4>1, OnlyByMoving
    <3> QED
      BY <3>2, <3>3
  <2>3. CASE RemoveFails(h) \/ \E e \in todo[h] : ReclaimClose(h, e) \/ ReclaimFails(h, e)
    <3>1. records' = records /\ (browser'[n] => browser[n])
      BY <2>3 DEF RemoveFails, ReclaimClose, ReclaimFails, CloseReported
    <3> QED
      BY <2>1, <3>1, OnlyByMoving
  <2> QED
    BY <1>2, <2>2, <2>3 DEF PassStep
<1>3. CASE \/ \E h \in Keepers : KeeperStep(h)
           \/ \E m \in Names : Lapse(m)
           \/ StartRelease \/ Boot \/ UNCHANGED vars
  <2>1. /\ pc' = pc /\ name' = name /\ browser' = browser
        /\ records'[n].run = records[n].run
    <3>1. CASE \E h \in Keepers : KeeperStep(h)
      BY <3>1 DEF KeeperStep, StartPass, SkipActive, EndPass, runVars
    <3>2. CASE \E m \in Names : Lapse(m)
      BY <3>2 DEF Lapse, runVars
    <3>3. CASE StartRelease \/ Boot \/ UNCHANGED vars
      BY <3>3 DEF StartRelease, Boot, vars, runVars
    <3> QED
      BY <1>3, <3>1, <3>2, <3>3
  <2> QED
    BY <2>1, OnlyByMoving
<1>4. CASE ReleaseDone \/ Crash
  <2>1. /\ pc' = [r \in Runs |-> IF pc[r] = "new" THEN "new" ELSE "ended"]
        /\ browser' = browser /\ records' = records
    BY <1>4 DEF ReleaseDone, Crash, Exit
  <2>2. PICK r \in Runs : name[r] = n /\ pc[r] = "opened"
    BY <2>1, OnlyByMoving
  <2> QED
    BY <2>1, <2>2 DEF Explained
<1> QED
  BY <1>1, <1>2, <1>3, <1>4

\* A browser is left to nobody, who will never reclaim it, only in the ways that are named:
\* at any number of runs, passes and exits, and whatever fails.
THEOREM OrphansHaveReasons == Spec => OrphansAreExplained
<1>1. Init => DoctorInv
  BY RunsAssumption, NamesAssumption, NameFacts DEF Init, DoctorInv, Probing, NoRecord, NoEntry
<1>2. IInv /\ DoctorInv /\ [Next]_vars => DoctorInv'
  <2> SUFFICES ASSUME IInv, DoctorInv, [Next]_vars PROVE DoctorInv'
    OBVIOUS
  <2>1. ASSUME NEW r \in Runs, RunStep(r) \/ BeginProbe(r) \/ \E n \in Names : BeginRun(r, n)
        PROVE  DoctorInv'
    BY <2>1, RunMoves, BeginMoves, MovedKeeps
  <2>2. ASSUME NEW h \in Passes, PassStep(h) \/ (h \in Keepers /\ KeeperStep(h))
        PROVE  DoctorInv'
    BY <2>2, PassKeeps
  <2> QED
    BY <2>1, <2>2, ProcessKeeps, NextCases, NameFacts
<1>3. IInv /\ DoctorInv /\ [Next]_vars =>
        [\A n \in Names : ~Orphan(n) /\ Orphan(n)' => Explained(n)]_vars
  <2> SUFFICES ASSUME IInv, DoctorInv, Next, NEW n \in Names, ~Orphan(n), Orphan(n)'
               PROVE  Explained(n)
    OBVIOUS
  <2>1. ASSUME NEW r \in Runs, RunStep(r) PROVE Explained(n)
    BY <2>1, RunExplains
  <2> QED
    BY <2>1, OthersExplain, NextCases
<1>4. [\A n \in Names : ~Orphan(n) /\ Orphan(n)' => Explained(n)]_vars =>
        [\A n \in Names : ~Orphan(n) /\ Orphan(n)' =>
           \/ \E r \in Runs : name[r] = n /\ pc[r] = "opened" /\ pc'[r] \in {"begun", "ended"}
           \/ \E r \in Runs : name[r] = n /\ pc[r] = "probeClosed"
           \/ \E h \in Passes : closed[h].name = n /\ kpc[h] = "removing"
           \/ \E r \in Runs : name[r] = n /\ pc[r] = "probing" /\ daemon = "releasing"]_vars
  BY DEF Explained
<1> QED
  BY <1>1, <1>2, <1>3, <1>4, Invariance, PTL DEF Spec, OrphansAreExplained
==============================================================================
