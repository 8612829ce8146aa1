--------------------------- MODULE RunDispatchProofs ---------------------------
(***************************************************************************)
(* Proofs about a call of an operation, for any manifest, scenarios,       *)
(* reports and requests.  The parts of the invariant, in this order: what  *)
(* is deferred and up, which stages are late, what is decided and told,    *)
(* what the adapter's child still owes, and the types of the rest.  Then   *)
(* what a success stands for: what is left at a place in a profile, where  *)
(* the handler is, what has been sent and shown, which scenarios have been *)
(* compared and which stages run.  Each part is inductive alone or with    *)
(* the parts before it.                                                    *)
(***************************************************************************)
EXTENDS RunDispatch, FiniteSetTheorems, SequenceTheorems, NaturalsInduction, WellFoundedInduction, TLAPS

------------------------------------------------------------------------------
(* What is given back                                                      *)

\* The deferred cleanups start with that of the core, which is up as long as there is one;
\* nothing is up that no cleanup gives back.
DefersHold ==
  /\ defers \in Seq(Things) /\ up \subseteq Things
  /\ \A thing \in up : \E i \in DOMAIN defers : defers[i] = thing
  /\ defers # <<>> => "core" \in up
  /\ \A i \in DOMAIN defers : defers[i] = "core" <=> i = 1

\* A handler has deferred nothing before it has a core, and something after.
Underway ==
  /\ phase = "asked" => at = "idle"
  /\ at \in {"idle", "core"} => defers = <<>>
  /\ at \notin {"idle", "core", "unwind"} => defers # <<>>

\* Only the cleanup of an adapter ends its child, and a profile has no adapter.
ChildIsHeld ==
  /\ child # "none" => \E i \in DOMAIN defers : defers[i] = "adapter"
  /\ at \in {"idle", "core", "manifest", "profile", "adapter"} => child = "none"

\* A stage begins with nothing deferred but the core, then comes the server, then the page.
StageOrder ==
  /\ at # "profile" => step = "next" /\ \A i \in DOMAIN defers : defers[i] # "prod"
  /\ at = "manifest" => Len(defers) = 1
  /\ at = "profile" /\ step \in {"next", "command", "build", "held", "ensure"} => Len(defers) = 1
  /\ step = "open" => \A i \in DOMAIN defers : defers[i] # "session"
  /\ \A i \in DOMAIN defers : defers[i] = "prod" => \A j \in 1 .. i - 1 : defers[j] # "session"

CleanupInv == DefersHold /\ Underway /\ ChildIsHeld /\ StageOrder

\* Acquiring something puts its cleanup last.
LEMMA HoldAppends ==
  ASSUME defers \in Seq(Things), NEW thing \in Things, defers' = Append(defers, thing)
  PROVE  /\ defers' \in Seq(Things) /\ Len(defers') = Len(defers) + 1
         /\ \A i \in DOMAIN defers : i \in DOMAIN defers' /\ defers'[i] = defers[i]
         /\ \A i \in DOMAIN defers' : i \in DOMAIN defers \/ i = Len(defers) + 1
         /\ Len(defers) + 1 \in DOMAIN defers' /\ defers'[Len(defers) + 1] = thing
  OBVIOUS

\* A cleanup takes the last one away.
LEMMA CleanUpShortens ==
  ASSUME defers \in Seq(Things), defers # <<>>,
         defers' = SubSeq(defers, 1, Len(defers) - 1)
  PROVE  /\ defers' \in Seq(Things) /\ Len(defers') = Len(defers) - 1
         /\ DOMAIN defers' = 1 .. Len(defers) - 1
         /\ \A i \in DOMAIN defers' : i \in DOMAIN defers /\ defers'[i] = defers[i]
         /\ Deferred = defers[Len(defers)] /\ Len(defers) \in DOMAIN defers
<1>1. Len(defers) \in Nat \ {0} /\ DOMAIN defers = 1 .. Len(defers)
  OBVIOUS
<1>2. /\ defers' \in Seq(Things) /\ Len(defers') = Len(defers) - 1
      /\ \A i \in 1 .. Len(defers) - 1 : defers'[i] = defers[i]
  BY <1>1, SubSeqProperties DEF Things
<1>3. DOMAIN defers' = 1 .. Len(defers) - 1
  BY <1>1, <1>2
<1> QED
  BY <1>1, <1>2, <1>3 DEF Deferred

\* Initially nothing is up.
LEMMA CleanupInit == Init => CleanupInv
  BY DEF Init, HandlerInit, FrameInit, ProfileInit, AdapterInit, CleanupInv, DefersHold,
         Underway, ChildIsHeld, StageOrder, Things

\* Something is held: the parts of the invariant that concern defers and up alone.
LEMMA HoldKeeps ==
  ASSUME DefersHold, NEW thing \in Things, Hold(thing), defers = <<>> <=> thing = "core"
  PROVE  DefersHold'
<1>1. defers' = Append(defers, thing) /\ up' = up \cup {thing}
  BY DEF Hold
<1>2. defers \in Seq(Things)
  BY DEF DefersHold
<1> QED
  BY <1>1, <1>2, HoldAppends DEF DefersHold

\* And something is given back.
LEMMA CleanUpKeeps ==
  ASSUME DefersHold, CleanUp, defers # <<>>
  PROVE  DefersHold'
<1>1. defers' = SubSeq(defers, 1, Len(defers) - 1) /\ up' = up \ {Deferred}
  BY DEF CleanUp
<1>2. defers \in Seq(Things)
  BY DEF DefersHold
<1>3. \A thing \in up' : \E i \in DOMAIN defers' : defers'[i] = thing
  <2> SUFFICES ASSUME NEW thing \in up' PROVE \E i \in DOMAIN defers' : defers'[i] = thing
    OBVIOUS
  <2>1. PICK i \in DOMAIN defers : defers[i] = thing
    BY <1>1 DEF DefersHold
  <2>2. i # Len(defers)
    BY <1>1, <2>1 DEF Deferred
  <2>3. i \in 1 .. Len(defers) - 1
    BY <1>2, <2>1, <2>2
  <2> QED
    BY <1>1, <1>2, <2>1, <2>3, CleanUpShortens
<1>4. defers' # <<>> => "core" \in up'
  <2> SUFFICES ASSUME defers' # <<>> PROVE "core" \in up'
    OBVIOUS
  <2>1. Len(defers) # 1 /\ Len(defers) \in DOMAIN defers
    BY <1>1, <1>2, CleanUpShortens
  <2> QED
    BY <1>1, <2>1 DEF DefersHold, Deferred
<1> QED
  BY <1>1, <1>2, <1>3, <1>4, CleanUpShortens DEF DefersHold

\* The steps of a profile.
LEMMA ProfileKeepsCleanup ==
  ASSUME CleanupInv, InProfile, UNCHANGED phase
  PROVE  CleanupInv'
<1> USE DEF CleanupInv
<1>1. /\ at = "profile" /\ at' = at /\ child' = child /\ phase' = phase
      /\ defers \in Seq(Things) /\ Len(defers) \in Nat /\ DOMAIN defers = 1 .. Len(defers)
      /\ defers # <<>>
  BY DEF InProfile, handlerVars, adapterVars, DefersHold, Underway
<1>2. ASSUME UNCHANGED <<defers, up>>,
             \/ step' \notin {"next", "command", "build", "held", "ensure", "open"}
             \/ /\ step \in {"next", "command", "build", "held", "ensure"}
                /\ step' \in {"next", "command", "build", "held", "ensure"}
             \/ step = step'
      PROVE  CleanupInv'
  BY <1>1, <1>2 DEF DefersHold, Underway, ChildIsHeld, StageOrder
<1>3. CASE EnterNested \/ LeaveNested \/ BeginStage
  BY <1>2, <1>3 DEF EnterNested, LeaveNested, BeginStage
<1>4. CASE RunCommand \/ Build \/ HoldOutput
  BY <1>2, <1>4 DEF RunCommand, Build, HoldOutput, Goto, Decide
<1>5. CASE Click \/ Eval \/ PageErrors \/ ConsoleErrors \/ Sweep
  BY <1>2, <1>5 DEF Click, Eval, PageErrors, ConsoleErrors, Sweep, Goto, Decide
<1>6. CASE EnsureServer
  <2>1. CASE UNCHANGED <<up, defers>> /\ step' = "unwind"
    BY <1>2, <2>1
  <2>2. CASE UNCHANGED <<up, defers>> /\ step' = "open"
    <3>1. Len(defers) = 1 /\ defers[1] = "core"
      BY <1>1, <1>6 DEF EnsureServer, StageOrder, DefersHold
    <3> QED BY <1>1, <2>2, <3>1 DEF DefersHold, Underway, ChildIsHeld, StageOrder
  <2>3. CASE defers' = Append(defers, "prod") /\ up' \in {up, up \cup {"prod"}} /\ step' = "open"
    <3>1. Len(defers) = 1 /\ defers[1] = "core"
      BY <1>1, <1>6 DEF EnsureServer, StageOrder, DefersHold
    <3>2. "prod" \in Things
      BY DEF Things
    <3>3. /\ defers' \in Seq(Things) /\ DOMAIN defers' = 1 .. 2 /\ defers' # <<>>
          /\ defers'[1] = "core" /\ defers'[2] = "prod"
      <4>1. /\ defers' \in Seq(Things) /\ Len(defers') = 2 /\ defers'[2] = "prod"
            /\ 1 \in DOMAIN defers => defers'[1] = defers[1]
        BY <1>1, <2>3, <3>1, <3>2, HoldAppends
      <4>2. DOMAIN defers' = 1 .. 2 /\ 1 \in DOMAIN defers
        BY <1>1, <3>1, <4>1
      <4> QED BY <3>1, <4>1, <4>2
    <3>4. DefersHold'
      <4>1. \A thing \in up : thing = "core"
        BY <1>1, <3>1 DEF DefersHold
      <4>2. "core" \in up
        BY <1>1 DEF DefersHold
      <4>3. \A thing \in up' : thing \in {"core", "prod"}
        BY <2>3, <4>1
      <4>4. 1 \in DOMAIN defers' /\ 2 \in DOMAIN defers'
        BY <3>3
      <4>5. \A i \in DOMAIN defers' : i = 1 \/ i = 2
        BY <3>3
      <4>6. up' \subseteq Things /\ "core" \in up'
        BY <2>3, <4>2, <3>2 DEF DefersHold
      <4> QED BY <3>3, <4>3, <4>4, <4>5, <4>6 DEF DefersHold
    <3>5. StageOrder'
      BY <1>1, <2>3, <3>3 DEF StageOrder
    <3> QED BY <1>1, <3>1, <3>3, <3>4, <3>5 DEF Underway, ChildIsHeld
  <2> QED BY <1>6, <2>1, <2>2, <2>3 DEF EnsureServer, Goto, Decide, Hold
<1>7. CASE OpenBrowser
  <2>1. CASE Decide(FALSE) /\ UNCHANGED <<up, defers>>
    BY <1>2, <2>1 DEF Decide
  <2>2. CASE Hold("session") /\ step' \in {"sweep", "click", "eval"} /\ step = "open"
    <3>1. DefersHold'
      BY <1>1, <2>2, HoldKeeps DEF Things
    <3>2. defers' = Append(defers, "session") /\ "session" \in Things
      BY <2>2 DEF Hold, Things
    <3>3. ChildIsHeld' /\ Underway'
      BY <1>1, <3>2, HoldAppends DEF ChildIsHeld, Underway
    <3>4. StageOrder'
      <4>1. \A i \in DOMAIN defers' : defers'[i] = "prod" => i \in DOMAIN defers /\ defers[i] = "prod"
        BY <1>1, <3>2, HoldAppends
      <4>2. \A i \in DOMAIN defers : \A j \in 1 .. i - 1 : j \in DOMAIN defers /\ defers'[j] = defers[j]
        BY <1>1, <3>2, HoldAppends
      <4> QED BY <1>1, <2>2, <4>1, <4>2 DEF StageOrder
    <3> QED BY <3>1, <3>3, <3>4
  <2> QED BY <1>7, <2>1, <2>2 DEF OpenBrowser, Goto
<1>8. CASE StageCleanUp
  <2>1. /\ CleanUp /\ step = "unwind" /\ step' = step /\ Len(defers) > 1
        /\ defers' = SubSeq(defers, 1, Len(defers) - 1)
    BY <1>8 DEF StageCleanUp, CleanUp, profileVars
  <2>2. DefersHold'
    BY <1>1, <2>1, CleanUpKeeps
  <2>3. DOMAIN defers' = 1 .. Len(defers) - 1 /\ \A i \in DOMAIN defers' : i \in DOMAIN defers /\ defers'[i] = defers[i]
    BY <1>1, <2>1, CleanUpShortens
  <2>4. Underway' /\ ChildIsHeld'
    <3>1. defers' # <<>>
      <4>1. Len(defers') = Len(defers) - 1
        BY <1>1, <2>1, CleanUpShortens
      <4> QED BY <1>1, <2>1, <4>1
    <3>2. child = "none"
      BY <1>1 DEF ChildIsHeld
    <3> QED BY <1>1, <3>1, <3>2 DEF Underway, ChildIsHeld
  <2>5. StageOrder'
    <3>1. \A i \in DOMAIN defers' : \A j \in 1 .. i - 1 : j \in DOMAIN defers'
      BY <1>1, <2>3
    <3> QED BY <1>1, <2>1, <2>3, <3>1 DEF StageOrder
  <2> QED BY <2>2, <2>4, <2>5
<1>9. CASE ReportStage
  <2>1. Len(defers) = 1 /\ UNCHANGED <<defers, up>> /\ step' = "next"
    BY <1>9 DEF ReportStage
  <2> QED BY <1>1, <2>1 DEF DefersHold, Underway, ChildIsHeld, StageOrder
<1> QED
  BY <1>3, <1>4, <1>5, <1>6, <1>7, <1>8, <1>9 DEF InProfile, ProfileStep

\* A step of anyone that leaves the handler where it is.
LEMMA StandingKeepsCleanup ==
  ASSUME CleanupInv, UNCHANGED <<defers, up, step, at>>,
         phase' = phase \/ phase' # "asked", child = "none" => child' = "none"
  PROVE  CleanupInv'
BY DEF CleanupInv, DefersHold, Underway, ChildIsHeld, StageOrder

\* A step of the handler from one place to another that acquires nothing.
LEMMA MovingKeepsCleanup ==
  ASSUME CleanupInv, UNCHANGED <<defers, up, step>>, phase' = phase, phase # "asked",
         child = "none" => child' = "none",
         at \notin {"idle", "core", "profile", "unwind"},
         at' \notin {"idle", "core", "manifest", "profile", "adapter"}
  PROVE  CleanupInv'
BY DEF CleanupInv, DefersHold, Underway, ChildIsHeld, StageOrder

\* A page or an adapter is acquired outside profiles.
LEMMA HoldKeepsCleanup ==
  ASSUME CleanupInv, NEW thing \in {"session", "adapter"}, Hold(thing),
         step' = step, phase' = phase, phase # "asked",
         at \notin {"idle", "core", "profile", "unwind"},
         at' \notin {"idle", "core", "manifest", "profile", "adapter"},
         child' # "none" => child # "none" \/ thing = "adapter"
  PROVE  CleanupInv'
<1> USE DEF CleanupInv
<1>1. /\ defers \in Seq(Things) /\ defers # <<>> /\ thing \in Things
      /\ defers' = Append(defers, thing) /\ thing \notin {"core", "prod"}
  BY DEF DefersHold, Underway, Things, Hold
<1>2. DefersHold'
  BY <1>1, HoldKeeps
<1>3. Underway'
  <2>1. defers' # <<>>
    BY <1>1
  <2> QED BY <2>1 DEF Underway
<1>4. ChildIsHeld'
  BY <1>1, HoldAppends DEF ChildIsHeld
<1>5. StageOrder'
  <2>1. \A i \in DOMAIN defers' : defers'[i] # "prod"
    BY <1>1, HoldAppends DEF StageOrder
  <2>2. step' = "next"
    BY DEF StageOrder
  <2> QED BY <2>1, <2>2 DEF StageOrder
<1> QED
  BY <1>2, <1>3, <1>4, <1>5

\* The first and the last steps of a handler, and those into and out of a profile.
LEMMA CoreKeepsCleanup ==
  ASSUME CleanupInv, NewCore \/ BeginProfile \/ EndProfile, UNCHANGED callVars, phase # "asked"
  PROVE  CleanupInv'
<1> USE DEF CleanupInv
<1>1. phase' = phase
  BY DEF callVars
<1>2. CASE NewCore
  <2>1. /\ at = "core" /\ defers = <<>> /\ up = {} /\ child = "none" /\ step = "next"
        /\ step' = step /\ child' = child
    BY <1>2 DEF NewCore, Step, Fail, Return, Underway, DefersHold, ChildIsHeld, StageOrder,
                profileVars, adapterVars
  <2>2. CASE Hold("core") /\ at' \in {"manifest", "adapter", "ensure"}
    <3>1. DefersHold'
      BY <2>1, <2>2, HoldKeeps DEF Things
    <3>2. Len(defers') = 1 /\ defers' # <<>> /\ DOMAIN defers' = {1} /\ defers'[1] = "core"
      BY <2>1, <2>2 DEF Hold
    <3> QED BY <1>1, <2>1, <2>2, <3>1, <3>2 DEF Underway, ChildIsHeld, StageOrder
  <2>3. CASE UNCHANGED <<up, defers>> /\ at' = "unwind"
    BY <1>1, <2>1, <2>3 DEF DefersHold, Underway, ChildIsHeld, StageOrder
  <2> QED BY <1>2, <2>2, <2>3 DEF NewCore, Step, Fail, Return
<1>3. CASE BeginProfile
  <2>1. /\ at = "manifest" /\ at' \in {"profile", "unwind"} /\ step' = step
        /\ UNCHANGED <<defers, up, child>>
    BY <1>3 DEF BeginProfile, Step, Fail, Return, frameVars, adapterVars
  <2> QED BY <1>1, <2>1 DEF DefersHold, Underway, ChildIsHeld, StageOrder
<1>4. CASE EndProfile
  <2>1. /\ at = "profile" /\ at' = "unwind" /\ step = "next" /\ step' = step
        /\ UNCHANGED <<defers, up, child>>
    BY <1>4 DEF EndProfile, ProfileDone, Return, frameVars, adapterVars
  <2>2. \A i \in DOMAIN defers : defers[i] = "core"
    BY <2>1 DEF DefersHold, StageOrder
  <2> QED BY <1>1, <2>1, <2>2 DEF DefersHold, Underway, ChildIsHeld, StageOrder
<1> QED
  BY <1>2, <1>3, <1>4

\* A deferred cleanup runs after the handler has returned.
LEMMA UnwindKeepsCleanup ==
  ASSUME CleanupInv, Unwind, UNCHANGED callVars, phase # "asked"
  PROVE  CleanupInv'
<1> USE DEF CleanupInv
<1>1. /\ at = "unwind" /\ at' = at /\ step' = step /\ phase' = phase
      /\ defers \in Seq(Things) /\ defers # <<>> /\ CleanUp
      /\ defers' = SubSeq(defers, 1, Len(defers) - 1)
  BY DEF Unwind, CleanUp, callVars, handlerVars, profileVars, DefersHold
<1>2. DefersHold'
  BY <1>1, CleanUpKeeps
<1>3. /\ DOMAIN defers' = 1 .. Len(defers) - 1
      /\ \A i \in DOMAIN defers' : i \in DOMAIN defers /\ defers'[i] = defers[i]
      /\ Deferred = defers[Len(defers)]
  BY <1>1, CleanUpShortens
<1>4. ChildIsHeld'
  <2>1. CASE child' = "none"
    BY <1>1, <2>1 DEF ChildIsHeld
  <2>2. CASE child' # "none"
    <3>1. Deferred # "adapter" /\ child' = child
      BY <2>2 DEF Unwind, CloseChild, adapterVars
    <3>2. PICK i \in DOMAIN defers : defers[i] = "adapter"
      BY <2>2, <3>1 DEF ChildIsHeld
    <3>3. i \in 1 .. Len(defers) - 1
      BY <1>1, <1>3, <3>1, <3>2
    <3> QED BY <1>1, <1>3, <3>2, <3>3 DEF ChildIsHeld
  <2> QED BY <2>1, <2>2
<1>5. StageOrder' /\ Underway'
  BY <1>1, <1>3 DEF StageOrder, Underway
<1> QED
  BY <1>2, <1>4, <1>5

\* Every step of the handler.
LEMMA HandlerKeepsCleanup ==
  ASSUME CleanupInv, HandlerStep, UNCHANGED callVars, phase # "asked"
  PROVE  CleanupInv'
<1>1. phase' = phase
  BY DEF callVars
<1>2. CASE NewCore \/ BeginProfile \/ EndProfile
  BY <1>2, CoreKeepsCleanup
<1>3. CASE InProfile
  BY <1>1, <1>3, ProfileKeepsCleanup
<1>4. CASE Unwind
  BY <1>4, UnwindKeepsCleanup
<1>5. CASE StartAdapter
  <2>1. step' = step /\ at = "adapter"
    BY <1>5 DEF StartAdapter, profileVars, Step, Fail, Return
  <2>2. CASE Hold("adapter") /\ at' \in {"scenario", "list", "ensure"}
    BY <1>1, <2>1, <2>2, HoldKeepsCleanup
  <2>3. CASE at' = "unwind" /\ UNCHANGED <<up, defers, child>>
    BY <1>1, <2>1, <2>3, MovingKeepsCleanup
  <2> QED BY <1>5, <2>2, <2>3 DEF StartAdapter, Step, Fail, Return, adapterVars
<1>6. CASE OpenPage
  <2>1. step' = step /\ at = "open" /\ child' = child
    BY <1>6 DEF OpenPage, profileVars, adapterVars, Step, Fail, Return
  <2>2. CASE Hold("session") /\ at' \in {"scenario", "inBrowser", "page"}
    BY <1>1, <2>1, <2>2, HoldKeepsCleanup
  <2>3. CASE at' = "unwind" /\ UNCHANGED <<up, defers>>
    BY <1>1, <2>1, <2>3, MovingKeepsCleanup
  <2> QED BY <1>6, <2>2, <2>3 DEF OpenPage, Step, Fail, Return
<1>7. CASE AskList \/ GotList \/ AskScenario \/ GotReport
  <2>1. /\ UNCHANGED <<defers, up, step, child>>
        /\ at \in {"list", "listing", "scenario", "headless"}
        /\ at' \in {"listing", "unwind", "ensure", "headless", "scenario", "inBrowser"}
    BY <1>7 DEF AskList, GotList, AskScenario, GotReport, Ask, Taken, Differs, Step, Fail, Return,
                frameVars, profileVars
  <2> QED BY <1>1, <2>1, MovingKeepsCleanup
<1>8. CASE RunInBrowser \/ Compare \/ EndCompare
  <2>1. /\ UNCHANGED <<defers, up, step, child>>
        /\ at \in {"inBrowser", "compare", "scenario"}
        /\ at' \in {"scenario", "unwind", "compare"}
    BY <1>8 DEF RunInBrowser, Compare, EndCompare, Differs, Step, Fail, Return,
                frameVars, profileVars, adapterVars
  <2> QED BY <1>1, <2>1, MovingKeepsCleanup
<1>9. CASE EnsureDevServer \/ SweepCases \/ Shoot \/ UsePage
  <2>1. /\ UNCHANGED <<defers, up, step, child>>
        /\ at \in {"ensure", "page"} /\ at' \in {"open", "unwind"}
    BY <1>9 DEF EnsureDevServer, SweepCases, Shoot, UsePage, Step, Fail, Return,
                frameVars, profileVars, adapterVars
  <2> QED BY <1>1, <2>1, MovingKeepsCleanup
<1>10. CASE ReadStep /\ UNCHANGED <<frameVars, profileVars, handlerVars>>
  <2>1. UNCHANGED <<defers, up, step, at>> /\ (child = "none" => child' = "none")
    BY <1>10 DEF ReadStep, ReadLine, ReadEnd, ReadTimeout, frameVars, profileVars, handlerVars
  <2> QED BY <1>1, <2>1, StandingKeepsCleanup
<1> QED
  BY <1>2, <1>3, <1>4, <1>5, <1>6, <1>7, <1>8, <1>9, <1>10 DEF HandlerStep

\* Every step keeps the invariant.
LEMMA CleanupStep == CleanupInv /\ [Next]_vars => CleanupInv'
<1> SUFFICES ASSUME CleanupInv, [Next]_vars PROVE CleanupInv'
  OBVIOUS
<1>1. CASE Accept
  <2>1. /\ at = "idle" /\ at' = "core" /\ phase' = "running"
        /\ UNCHANGED <<defers, up, step, child>>
    BY <1>1 DEF Accept, CleanupInv, Underway, profileVars, adapterVars
  <2> QED BY <2>1 DEF CleanupInv, DefersHold, Underway, ChildIsHeld, StageOrder
<1>2. CASE Handle
  BY <1>2, HandlerKeepsCleanup DEF Handle
<1>3. CASE Outside
  <2>1. CASE ChildStep /\ UNCHANGED <<frameVars, profileVars, handlerVars>>
    <3>1. /\ UNCHANGED <<defers, up, step, at, phase>>
          /\ child = "none" => child' = "none"
      BY <1>3, <2>1 DEF Outside, ChildStep, ChildAnswers, ChildStrays, ChildExits, frameVars,
                        profileVars, handlerVars, callVars
    <3> QED BY <3>1, StandingKeepsCleanup
  <2>2. CASE at = "profile" /\ LetGo /\ UNCHANGED <<handlerVars, adapterVars>>
    <3>1. /\ UNCHANGED <<defers, up, at, child, phase>>
          /\ at = "profile" /\ step = "held" /\ step' \in {"unwind", "ensure"}
      BY <1>3, <2>2 DEF Outside, LetGo, Decide, Goto, handlerVars, adapterVars, callVars
    <3> QED BY <3>1 DEF CleanupInv, DefersHold, Underway, ChildIsHeld, StageOrder
  <2> QED BY <1>3, <2>1, <2>2 DEF Outside, OutsideStep
<1>4. CASE Reject \/ Finish \/ EndContext \/ Die \/ Caller \/ UNCHANGED vars
  <2>1. /\ UNCHANGED <<defers, up, step, at, child>>
        /\ phase' = phase \/ phase' # "asked"
    BY <1>4 DEF Reject, Finish, EndContext, Die, Caller, Deliver, Reply, StreamEnds, Disconnect, Here,
                vars, frameVars, profileVars, adapterVars, handlerVars, callVars
  <2> QED BY <2>1, StandingKeepsCleanup
<1> QED
  BY <1>1, <1>2, <1>3, <1>4 DEF Next, Daemon

\* The invariant holds always.
LEMMA CleanupAlways == Spec => []CleanupInv
  BY CleanupInit, CleanupStep, PTL DEF Spec

\* A handler gives back all it has acquired before its operation counts as ended, the core
\* last, and a server of a stage outlives the page that shows it (the deferred cleanups of
\* the handlers in ops.go and of the stages in profile.go), whatever fails on the way.
THEOREM CleanupIsOrderly == Spec => []OrderlyCleanup
<1>1. CleanupInv => OrderlyCleanup
  BY DEF CleanupInv, DefersHold, ChildIsHeld, StageOrder, OrderlyCleanup, Returned
<1> QED
  BY <1>1, CleanupAlways, PTL

------------------------------------------------------------------------------
(* Late stages                                                             *)

\* A stage that began late never gets past its first step, and a stage has an outcome only
\* once it is decided.
LateInv ==
  /\ late => ctx = "over" /\ step \in {"command", "build", "ensure", "unwind"}
  /\ outcome => step = "unwind" /\ ~late
  /\ {outcome, late} \subseteq BOOLEAN

\* Every step keeps the invariant.
LEMMA LateStep == LateInv /\ [Next]_vars => LateInv'
<1> SUFFICES ASSUME LateInv, [Next]_vars PROVE LateInv'
  OBVIOUS
<1> USE DEF LateInv
<1>1. ASSUME UNCHANGED <<late, outcome, step>>, ctx' = ctx \/ ctx' = "over" PROVE LateInv'
  BY <1>1
<1>2. ASSUME InProfile PROVE LateInv'
  <2>1. CASE EnterNested \/ LeaveNested \/ StageCleanUp
    BY <2>1 DEF EnterNested, LeaveNested, StageCleanUp, profileVars
  <2>2. CASE BeginStage
    BY <2>2 DEF BeginStage
  <2>3. CASE RunCommand
    <3>1. PICK ok \in BOOLEAN : (ok => ctx = "live") /\ Decide(ok)
      BY <2>3 DEF RunCommand
    <3>2. step' = "unwind" /\ late' = late /\ ctx' = ctx /\ outcome' = ok
      BY <2>3, <3>1 DEF RunCommand, Decide
    <3>3. outcome' = TRUE \/ outcome' = FALSE
      BY <3>2
    <3>4. outcome' = TRUE => ctx = "live"
      BY <3>1, <3>2
    <3> QED BY <3>2, <3>3, <3>4
  <2>4. CASE Build \/ HoldOutput \/ EnsureServer
    <3>1. late' = late /\ ctx' = ctx /\ step \in {"command", "build", "ensure"}
      BY <2>4 DEF Build, HoldOutput, EnsureServer, Goto, Decide
    <3>2. \/ step' = "unwind" /\ outcome' = FALSE
          \/ ctx = "live" /\ outcome' = outcome
      BY <2>4 DEF Build, HoldOutput, EnsureServer, Goto, Decide
    <3>3. CASE step' = "unwind" /\ outcome' = FALSE
      BY <3>1, <3>3
    <3>4. CASE ctx = "live" /\ outcome' = outcome
      <4>1. ~late /\ ~outcome
        BY <3>1, <3>4
      <4> QED BY <3>1, <3>4, <4>1
    <3> QED BY <3>2, <3>3, <3>4
  <2>5. CASE OpenBrowser \/ Click \/ Eval \/ PageErrors \/ ConsoleErrors \/ Sweep
    <3>1. /\ step \in {"open", "click", "eval", "errors", "console", "sweep"}
          /\ late' = late /\ outcome' \in {outcome, TRUE, FALSE}
          /\ step' = "unwind" \/ outcome' = outcome
      BY <2>5 DEF OpenBrowser, Click, Eval, PageErrors, ConsoleErrors, Sweep, Goto, Decide
    <3> QED BY <3>1
  <2>6. CASE ReportStage
    BY <2>6 DEF ReportStage
  <2> QED
    BY <1>2, <2>1, <2>2, <2>3, <2>4, <2>5, <2>6 DEF InProfile, ProfileStep
<1>3. ASSUME HandlerStep, ~InProfile PROVE LateInv'
  <2>1. UNCHANGED <<late, outcome, step, ctx>>
    BY <1>3 DEF HandlerStep, NewCore, BeginProfile, EndProfile, StartAdapter, AskList, GotList,
                AskScenario, GotReport, RunInBrowser, Compare, EndCompare, EnsureDevServer, OpenPage,
                SweepCases, Shoot, UsePage, Unwind, profileVars, frameVars
  <2> QED BY <1>1, <2>1
<1>4. ASSUME OutsideStep PROVE LateInv'
  <2>1. CASE UNCHANGED <<late, outcome, step, ctx>>
    BY <1>1, <2>1
  <2>2. CASE step = "held" /\ late' = late /\ outcome' \in {outcome, TRUE, FALSE}
             /\ (step' = "unwind" \/ outcome' = outcome)
    BY <2>2
  <2> QED
    BY <1>4, <2>1, <2>2 DEF OutsideStep, LetGo, Goto, Decide, profileVars, frameVars
<1>5. CASE Reject \/ Accept \/ Finish \/ EndContext \/ Die \/ Caller \/ UNCHANGED vars
  <2>1. UNCHANGED <<late, outcome, step>> /\ (ctx' = ctx \/ ctx' = "over")
    BY <1>5 DEF Reject, Accept, Finish, EndContext, Die, Caller, Deliver, Reply, StreamEnds, Disconnect,
                Here, vars, frameVars, profileVars
  <2> QED BY <1>1, <2>1
<1> QED
  BY <1>2, <1>3, <1>4, <1>5 DEF Next, Daemon, Handle, Outside

\* A stage that begins after the deadline, or after the caller has left, cannot pass:
\* runStages goes on with the remaining stages, but each of them fails.
THEOREM LateStagesNeverPass == Spec => []LateStagesFail
<1>1. Init => LateInv
  BY DEF Init, HandlerInit, ProfileInit, LateInv
<1>2. LateInv => LateStagesFail
  BY DEF LateInv, LateStagesFail
<1> QED
  BY <1>1, <1>2, LateStep, PTL DEF Spec

------------------------------------------------------------------------------
(* What the caller is told                                                 *)

\* A value is a sequence, of whatever.
HasSeqType(s) == \E S : s \in Seq(S)

\* Nothing but outcomes and artifacts is added to the events.
Sends ==
  /\ HasSeqType(sent')
  /\ \A i \in DOMAIN sent' :
       sent'[i].ev \in {"stage", "artifact"} \/ (i \in DOMAIN sent /\ sent'[i] = sent[i])

\* An event is added at the end.
LEMMA AppendsEvent ==
  ASSUME NEW s, HasSeqType(s), NEW e
  PROVE  /\ HasSeqType(Append(s, e)) /\ DOMAIN Append(s, e) = 1 .. Len(s) + 1
         /\ Len(Append(s, e)) = Len(s) + 1 /\ Len(s) \in Nat /\ DOMAIN s = 1 .. Len(s)
         /\ \A i \in DOMAIN s : Append(s, e)[i] = s[i]
         /\ Append(s, e)[Len(s) + 1] = e
<1> PICK S : s \in Seq(S)
  BY DEF HasSeqType
<1>1. s \in Seq(S \cup {e}) /\ e \in S \cup {e}
  OBVIOUS
<1> DEFINE T == S \cup {e}
<1>2. s \in Seq(T) /\ e \in T
  BY <1>1
<1> HIDE DEF T
<1>3. Append(s, e) \in Seq(T)
  BY <1>2
<1> QED
  BY <1>2, <1>3 DEF HasSeqType

\* An outcome, or an artifact, is emitted.
LEMMA AppendSends ==
  ASSUME HasSeqType(sent), NEW kind \in {"stage", "artifact"}, NEW name, NEW ok,
         sent' = Append(sent, Event(kind, name, ok))
  PROVE  Sends
<1> DEFINE e == Event(kind, name, ok)
<1>1. e.ev = kind
  BY DEF Event
<1>2. sent' = Append(sent, e)
  OBVIOUS
<1> HIDE DEF e
<1>3. /\ HasSeqType(sent') /\ DOMAIN sent' = 1 .. Len(sent) + 1 /\ Len(sent) \in Nat
      /\ DOMAIN sent = 1 .. Len(sent)
      /\ \A i \in DOMAIN sent : sent'[i] = sent[i]
      /\ sent'[Len(sent) + 1] = e
  BY <1>2, AppendsEvent
<1> QED
  BY <1>1, <1>3 DEF Sends

\* All outcomes of a sweep are emitted at once.
LEMMA SweepSends ==
  ASSUME HasSeqType(sent), SweepCases
  PROVE  Sends
<1>1. CASE UNCHANGED sent
  BY <1>1 DEF Sends
<1>2. CASE \E oks \in Swept :
             sent' = sent \o [i \in DOMAIN oks |-> StageEvent(results'[i])]
  <2> PICK oks \in Swept : sent' = sent \o [i \in DOMAIN oks |-> StageEvent(results'[i])]
    BY <1>2
  <2> PICK n \in 0 .. MaxCases : oks \in [1 .. n -> BOOLEAN]
    BY DEF Swept
  <2> DEFINE tail == [i \in DOMAIN oks |-> StageEvent(results'[i])]
             E == { StageEvent(results'[i]) : i \in 1 .. n }
  <2>1. tail \in Seq(E) /\ Len(tail) = n /\ DOMAIN tail = 1 .. n /\ n \in Nat
    <3>1. n \in Nat /\ tail \in [1 .. n -> E]
      OBVIOUS
    <3> HIDE DEF E, tail
    <3>2. tail \in Seq(E)
      BY <3>1
    <3> QED BY <3>1, <3>2
  <2>2. \A i \in 1 .. n : tail[i].ev = "stage"
    BY DEF StageEvent, Event
  <2>3. sent' = sent \o tail
    OBVIOUS
  <2> HIDE DEF tail, E
  <2> PICK S : sent \in Seq(S)
    BY DEF HasSeqType
  <2>4. sent \in Seq(S \cup E) /\ tail \in Seq(S \cup E)
    BY <2>1
  <2>5. sent' \in Seq(S \cup E) /\ Len(sent') = Len(sent) + n
    BY <2>1, <2>3, <2>4
  <2>6. \A i \in 1 .. Len(sent) + n :
          sent'[i] = IF i <= Len(sent) THEN sent[i] ELSE tail[i - Len(sent)]
    BY <2>1, <2>3, <2>4
  <2>7. DOMAIN sent' = 1 .. Len(sent) + n /\ DOMAIN sent = 1 .. Len(sent) /\ Len(sent) \in Nat
    BY <2>4, <2>5
  <2>8. \A i \in DOMAIN sent' : i \notin DOMAIN sent => i - Len(sent) \in 1 .. n /\ ~(i <= Len(sent))
    BY <2>1, <2>7
  <2> QED
    BY <2>2, <2>5, <2>6, <2>7, <2>8 DEF Sends, HasSeqType
<1> QED
  BY <1>1, <1>2 DEF SweepCases

\* What a step of the handler may do to the events, and to its verdict.
LEMMA HandlerSends ==
  ASSUME HasSeqType(sent), HandlerStep \/ OutsideStep
  PROVE  Sends
<1>1. CASE UNCHANGED sent
  BY <1>1 DEF Sends
<1>2. CASE \E name, ok : Report(name, ok)
  BY <1>2, AppendSends DEF Report, StageEvent
<1>3. CASE SweepCases
  BY <1>3, SweepSends
<1>4. CASE Shoot
  <2>1. \/ UNCHANGED sent
        \/ sent' = Append(sent, Event("artifact", <<NoName, NoName>>, TRUE))
    BY <1>4 DEF Shoot
  <2> QED BY <1>1, <2>1, AppendSends
<1>5. ASSUME InProfile PROVE UNCHANGED sent \/ \E name, ok : Report(name, ok)
  BY <1>5 DEF InProfile, ProfileStep, EnterNested, LeaveNested, BeginStage, RunCommand, Build, HoldOutput,
              EnsureServer, OpenBrowser, Click, Eval, PageErrors, ConsoleErrors, Sweep, StageCleanUp, ReportStage
<1>6. ASSUME GotReport \/ RunInBrowser \/ Compare
      PROVE  UNCHANGED sent \/ \E name, ok : Report(name, ok)
  BY <1>6 DEF GotReport, RunInBrowser, Compare, Differs
<1>7. ASSUME HandlerStep, ~InProfile, ~SweepCases, ~Shoot, ~GotReport, ~RunInBrowser, ~Compare
      PROVE  UNCHANGED sent
  BY <1>7 DEF HandlerStep, NewCore, BeginProfile, EndProfile, StartAdapter, AskList, GotList, AskScenario,
              EndCompare, EnsureDevServer, OpenPage, UsePage, Unwind, frameVars
<1>8. ASSUME OutsideStep PROVE UNCHANGED sent
  BY <1>8 DEF OutsideStep, LetGo, frameVars
<1> QED
  BY <1>1, <1>2, <1>3, <1>4, <1>5, <1>6, <1>7, <1>8

\* A handler that has returned has a verdict; what is decided goes with the phase; a done
\* event is the last of a run that has ended, and says what was decided.
PromiseInv ==
  /\ verdict \in {"none", "pass", "fail"}
  /\ at = "unwind" => verdict # "none"
  /\ phase = "asked" => at = "idle"
  /\ phase \in {"asked", "rejected", "running", "ended", "dead"}
  /\ phase \in {"asked", "running", "dead"} => decided = "none"
  /\ phase = "rejected" => decided = "fail"
  /\ phase = "ended" => decided \in {"pass", "fail"}
  /\ read \in Nat
  /\ HasSeqType(sent)
  /\ \A i \in Dones : phase = "ended" /\ i = Len(sent) /\ sent[i].ok = (decided = "pass")

\* Initially nothing is decided or sent.
LEMMA PromiseInit == Init => PromiseInv
<1> SUFFICES ASSUME Init PROVE PromiseInv
  OBVIOUS
<1>1. sent = <<>>
  BY DEF Init, HandlerInit, FrameInit
<1>2. HasSeqType(sent) /\ Dones = {}
  <2>1. sent \in Seq({})
    BY <1>1
  <2> QED BY <1>1, <2>1 DEF HasSeqType, Dones
<1> QED
  BY <1>2 DEF Init, HandlerInit, PromiseInv

\* A verdict is given once the handler returns.
LEMMA HandlerVerdict ==
  ASSUME verdict \in {"none", "pass", "fail"}, at = "unwind" => verdict # "none",
         HandlerStep \/ OutsideStep
  PROVE  verdict' \in {"none", "pass", "fail"} /\ (at' = "unwind" => verdict' # "none")
<1>1. CASE verdict' \in {"pass", "fail"}
  BY <1>1
<1>2. CASE verdict' = verdict /\ at' # "unwind"
  BY <1>2
<1>3. CASE verdict' = verdict /\ at' = at
  BY <1>3
<1>4. ASSUME NewCore \/ BeginProfile \/ InProfile \/ EndProfile \/ StartAdapter \/ AskList \/ GotList
      PROVE  \/ verdict' \in {"pass", "fail"}
             \/ verdict' = verdict /\ (at' # "unwind" \/ at' = at)
  BY <1>4 DEF NewCore, BeginProfile, InProfile, EndProfile, StartAdapter, AskList, GotList,
              handlerVars, Step, Fail, Return
<1>5. ASSUME AskScenario \/ GotReport \/ RunInBrowser \/ Compare \/ EndCompare
      PROVE  \/ verdict' \in {"pass", "fail"}
             \/ verdict' = verdict /\ (at' # "unwind" \/ at' = at)
  BY <1>5 DEF AskScenario, GotReport, RunInBrowser, Compare, EndCompare, Differs, Step, Fail, Return
<1>6. ASSUME EnsureDevServer \/ OpenPage \/ SweepCases \/ Shoot \/ UsePage \/ Unwind
      PROVE  \/ verdict' \in {"pass", "fail"}
             \/ verdict' = verdict /\ (at' # "unwind" \/ at' = at)
  BY <1>6 DEF EnsureDevServer, OpenPage, SweepCases, Shoot, UsePage, Unwind, handlerVars,
              Step, Fail, Return
<1>7. ASSUME OutsideStep \/ (ReadStep /\ UNCHANGED <<frameVars, profileVars, handlerVars>>)
       PROVE  verdict' = verdict /\ at' = at
  BY <1>7 DEF OutsideStep, handlerVars
<1> QED
  BY <1>1, <1>2, <1>3, <1>4, <1>5, <1>6, <1>7 DEF HandlerStep

\* Every step keeps the invariant.
LEMMA PromiseStep == PromiseInv /\ [Next]_vars => PromiseInv'
<1> SUFFICES ASSUME PromiseInv, [Next]_vars PROVE PromiseInv'
  OBVIOUS
<1>1. CASE Reject
  <2>1. /\ phase = "asked" /\ phase' = "rejected" /\ decided' = "fail"
        /\ UNCHANGED <<verdict, at, read, sent>>
    BY <1>1 DEF Reject, handlerVars, frameVars
  <2> QED BY <2>1 DEF PromiseInv, Dones
<1>2. CASE Accept
  <2>1. /\ phase = "asked" /\ phase' = "running" /\ at' = "core"
        /\ UNCHANGED <<verdict, decided, read>>
        /\ \/ UNCHANGED sent
           \/ sent' = Append(sent, Event("start", <<NoName, NoName>>, TRUE))
    BY <1>2 DEF Accept, Emit
  <2>2. Dones = {} /\ HasSeqType(sent)
    BY <2>1 DEF PromiseInv
  <2>3. HasSeqType(sent') /\ Dones' = {}
    <3>1. CASE UNCHANGED sent
      BY <2>2, <3>1 DEF Dones
    <3>2. CASE sent' = Append(sent, Event("start", <<NoName, NoName>>, TRUE))
      <4> DEFINE e == Event("start", <<NoName, NoName>>, TRUE)
      <4>1. e.ev = "start" /\ sent' = Append(sent, e)
        BY <3>2 DEF Event
      <4> HIDE DEF e
      <4>2. /\ HasSeqType(sent') /\ DOMAIN sent' = 1 .. Len(sent) + 1 /\ Len(sent) \in Nat
            /\ DOMAIN sent = 1 .. Len(sent)
            /\ \A i \in DOMAIN sent : sent'[i] = sent[i]
            /\ sent'[Len(sent) + 1] = e
        BY <2>2, <4>1, AppendsEvent
      <4> QED BY <2>2, <4>1, <4>2 DEF Dones
    <3> QED BY <2>1, <3>1, <3>2
  <2> QED BY <2>1, <2>2, <2>3 DEF PromiseInv
<1>3. CASE Handle \/ Outside
  <2>1. phase = "running" /\ (HandlerStep \/ OutsideStep) /\ UNCHANGED <<phase, decided, read>>
    BY <1>3 DEF Handle, Outside, callVars
  <2>2. Sends
    BY <2>1, HandlerSends DEF PromiseInv
  <2>3. Dones = {} /\ Dones' = {}
    BY <2>1, <2>2 DEF PromiseInv, Sends, Dones
  <2>4. verdict' \in {"none", "pass", "fail"} /\ (at' = "unwind" => verdict' # "none")
    BY <2>1, HandlerVerdict DEF PromiseInv
  <2> QED BY <2>1, <2>2, <2>3, <2>4 DEF PromiseInv, Sends
<1>4. CASE Finish
  <2>1. /\ phase = "running" /\ phase' = "ended" /\ decided' \in {"pass", "fail"}
        /\ UNCHANGED <<verdict, at, read>>
        /\ \/ UNCHANGED sent
           \/ sent' = Append(sent, Event("done", <<NoName, NoName>>, decided' = "pass"))
    BY <1>4 DEF Finish, Returned, PromiseInv, handlerVars, Emit
  <2>2. Dones = {} /\ HasSeqType(sent)
    BY <2>1 DEF PromiseInv
  <2>3. HasSeqType(sent') /\ \A i \in Dones' : i = Len(sent') /\ sent'[i].ok = (decided' = "pass")
    <3>1. CASE UNCHANGED sent
      BY <2>2, <3>1 DEF Dones
    <3>2. CASE sent' = Append(sent, Event("done", <<NoName, NoName>>, decided' = "pass"))
      <4>1. /\ HasSeqType(sent') /\ DOMAIN sent' = 1 .. Len(sent) + 1 /\ Len(sent) \in Nat
            /\ DOMAIN sent = 1 .. Len(sent) /\ Len(sent') = Len(sent) + 1
            /\ \A i \in DOMAIN sent : sent'[i] = sent[i]
            /\ sent'[Len(sent) + 1] = Event("done", <<NoName, NoName>>, decided' = "pass")
        BY <2>2, <3>2, AppendsEvent
      <4>2. Event("done", <<NoName, NoName>>, decided' = "pass").ok = (decided' = "pass")
        BY DEF Event
      <4>3. \A i \in Dones' : i = Len(sent')
        BY <2>2, <4>1 DEF Dones
      <4> QED BY <4>1, <4>2, <4>3
    <3> QED BY <2>1, <3>1, <3>2
  <2> QED BY <2>1, <2>3 DEF PromiseInv
<1>5. CASE EndContext
  BY <1>5 DEF EndContext, PromiseInv, Dones, handlerVars, callVars
<1>6. CASE Die
  <2>1. /\ phase \in {"asked", "running"} /\ phase' = "dead"
        /\ UNCHANGED <<verdict, at, decided, read>>
    BY <1>6 DEF Die, handlerVars
  <2> PICK S : sent \in Seq(S)
    BY DEF PromiseInv, HasSeqType
  <2>2. sent' \in Seq(S) /\ \A i \in DOMAIN sent' : i \in DOMAIN sent /\ sent'[i] = sent[i]
    <3>1. CASE sent' = sent
      BY <3>1
    <3>2. ASSUME NEW n \in read .. Len(sent), sent' = SubSeq(sent, 1, n)
          PROVE  sent' \in Seq(S) /\ \A i \in DOMAIN sent' : i \in DOMAIN sent /\ sent'[i] = sent[i]
      <4>1. n \in Nat /\ n <= Len(sent)
        BY DEF PromiseInv
      <4> QED BY <3>2, <4>1
    <3> QED BY <1>6, <3>1, <3>2 DEF Die
  <2>3. Dones = {} /\ Dones' = {}
    BY <2>1, <2>2 DEF PromiseInv, Dones
  <2> QED BY <2>1, <2>2, <2>3 DEF PromiseInv, HasSeqType
<1>7. CASE Caller \/ UNCHANGED vars
  <2>1. /\ UNCHANGED <<verdict, at, phase, decided, sent>>
        /\ read' = read \/ read' = read + 1
    BY <1>7 DEF Caller, Deliver, Reply, StreamEnds, Disconnect, Here, vars, frameVars, handlerVars, callVars
  <2> QED BY <2>1 DEF PromiseInv, Dones
<1> QED
  BY <1>1, <1>2, <1>3, <1>4, <1>5, <1>6, <1>7 DEF Next, Daemon

\* Every step is one that the promise allows, or none that it sees.
LEMMA PromiseRefines == PromiseInv /\ [Next]_vars => [Promise!Next]_<<decided, told>>
<1> SUFFICES ASSUME PromiseInv, [Next]_vars, ~UNCHANGED <<decided, told>> PROVE Promise!Next
  OBVIOUS
<1>1. CASE Reject
  BY <1>1 DEF Reject, PromiseInv, Promise!Next, Promise!Decide, Promise!Verdicts
<1>2. CASE Finish
  <2>1. verdict \in {"pass", "fail"} /\ decided = "none"
    BY <1>2 DEF Finish, Returned, PromiseInv
  <2> QED BY <1>2, <2>1 DEF Finish, Promise!Next, Promise!Decide, Promise!Verdicts
<1>3. CASE Reply
  BY <1>3 DEF Reply, Here, PromiseInv, Promise!Next, Promise!Tell, Promise!Verdicts
<1>4. CASE StreamEnds
  <2>1. told = "nothing" /\ decided' = decided
    BY <1>4 DEF StreamEnds, Here
  <2>2. CASE Dones = {}
    BY <1>4, <2>1, <2>2 DEF StreamEnds, Promise!Next, Promise!Tell
  <2>3. CASE Dones # {}
    <3>1. Dones = {Len(sent)} /\ phase = "ended" /\ decided \in {"pass", "fail"}
          /\ sent[Len(sent)].ok = (decided = "pass")
      BY <2>3 DEF PromiseInv
    <3>2. Len(sent) \in Nat
      BY DEF PromiseInv, HasSeqType
    <3>3. Max(Dones) = Len(sent)
      BY <3>1, <3>2 DEF Max
    <3>4. told' = decided
      BY <1>4, <2>3, <3>1, <3>3 DEF StreamEnds
    <3> QED BY <2>1, <3>1, <3>4 DEF Promise!Next, Promise!Tell, Promise!Verdicts
  <2> QED BY <2>2, <2>3
<1>5. CASE Disconnect
  BY <1>5 DEF Disconnect, Here, Promise!Next, Promise!Tell
<1>6. CASE Accept \/ Handle \/ Outside \/ EndContext \/ Die \/ Deliver \/ UNCHANGED vars
  BY <1>6 DEF Accept, Handle, Outside, EndContext, Die, Deliver, Here, vars, callVars
<1> QED
  BY <1>1, <1>2, <1>3, <1>4, <1>5, <1>6 DEF Next, Daemon, Caller

\* A run implements what its caller is promised (RunPromise): it is decided at most once, the
\* caller is told at most once, and nothing but what was decided or that the outcome is
\* unknown; a stream that is cut short, whatever of it has arrived, is never a success.
THEOREM ImplementsPromise == Spec => KeepsPromise
<1>1. Init => Promise!Init
  BY DEF Init, Promise!Init
<1> QED
  BY <1>1, PromiseInit, PromiseStep, PromiseRefines, PTL DEF Spec, KeepsPromise, Promise!Spec

------------------------------------------------------------------------------
(* Answers                                                                 *)

\* While a call waits and no line was unasked for, the only line that is no junk answers it; and
\* when no call waits, a running child on a usable connection owes nothing.
AnswerInv ==
  /\ calls \in Nat /\ strays \in Nat /\ {broken, reading} \subseteq BOOLEAN
  /\ HasSeqType(asks) /\ HasSeqType(lines)
  /\ broken => ~reading
  /\ child = "none" => asks = <<>> /\ lines = <<>> /\ ~reading
  /\ strays = 0 =>
       /\ AnswersBelong
       /\ reading => \A i \in DOMAIN lines : lines[i].body # Junk => lines[i].to = calls
       /\ reading => \A i \in DOMAIN asks : asks[i].call = calls
       /\ child = "running" /\ reading =>
            (asks = <<>> /\ Len(lines) = 1) \/ (Len(asks) = 1 /\ lines = <<>>)
       /\ child = "running" /\ ~reading /\ ~broken => asks = <<>> /\ lines = <<>>

\* An empty pipe is a sequence.
LEMMA NothingHasSeqType == HasSeqType(<<>>)
  BY DEF HasSeqType

\* A call that is not waiting for a line has failed, over a connection broken already or now.
LEMMA AskInVain ==
  ASSUME NEW what, Ask(what), ~reading'
  PROVE  /\ Failed /\ ~reading /\ UNCHANGED <<child, strays>>
         /\ \/ UNCHANGED <<calls, asks, lines, broken>>
            \/ child # "running" /\ calls' = calls + 1 /\ Break
  BY Zenon DEF Ask

\* A call begins.
LEMMA AskKeepsAnswer ==
  ASSUME AnswerInv, NEW what, Ask(what)
  PROVE  AnswerInv'
<1> USE DEF AnswerInv
<1>1. CASE reading'
  <2>1. /\ ~broken /\ ~reading /\ child = "running" /\ calls' = calls + 1
        /\ asks' = Append(asks, [call |-> calls + 1, what |-> what])
        /\ reading' = TRUE /\ UNCHANGED <<broken, answer, child, lines, strays>>
    BY <1>1 DEF Ask, Failed
  <2>2. strays = 0 => asks = <<>> /\ lines = <<>>
    BY <2>1
  <2>3. HasSeqType(asks') /\ DOMAIN asks' = 1 .. Len(asks) + 1 /\ Len(asks') = Len(asks) + 1
        /\ asks'[Len(asks) + 1] = [call |-> calls + 1, what |-> what]
    BY <2>1, AppendsEvent
  <2>4. strays' = 0 =>
          /\ \A i \in DOMAIN lines' : lines'[i].body # Junk => lines'[i].to = calls'
          /\ \A i \in DOMAIN asks' : asks'[i].call = calls'
          /\ Len(asks') = 1 /\ lines' = <<>>
    BY <2>1, <2>2, <2>3
  <2> QED BY <2>1, <2>3, <2>4 DEF AnswersBelong
<1>2. CASE ~reading'
  <2>1. /\ calls' \in {calls, calls + 1} /\ reading' = FALSE
        /\ ~answer'.ok
        /\ UNCHANGED <<child, strays>> /\ (UNCHANGED <<asks, lines>> \/ (asks' = <<>> /\ lines' = <<>>))
        /\ ~reading /\ (broken' = broken \/ (broken' = TRUE /\ child # "running"))
    <3>1. /\ Failed /\ ~reading /\ UNCHANGED <<child, strays>>
          /\ \/ UNCHANGED <<calls, asks, lines, broken>>
             \/ child # "running" /\ calls' = calls + 1 /\ Break
      BY <1>2, AskInVain, Zenon
    <3> QED BY <3>1 DEF Failed, Break
  <2>7. HasSeqType(asks') /\ HasSeqType(lines')
    BY <2>1, NothingHasSeqType
  <2>2. AnswersBelong'
    BY <2>1 DEF AnswersBelong
  <2>3. strays' = 0 /\ child' = "running" /\ ~broken' => asks' = <<>> /\ lines' = <<>>
    <3> SUFFICES ASSUME strays' = 0, child' = "running", ~broken' PROVE asks' = <<>> /\ lines' = <<>>
      OBVIOUS
    <3>1. broken' = broken
      BY <2>1
    <3>2. ~broken
      BY <3>1
    <3> QED BY <2>1, <3>2
  <2>4. calls' \in Nat
    BY <2>1
  <2>6. reading' \in BOOLEAN
    BY <2>1, Zenon
  <2>5. broken' \in BOOLEAN
    <3>1. CASE broken' = broken
      BY <3>1
    <3>2. CASE broken' = TRUE
      BY <3>2
    <3> QED BY <2>1, <3>1, <3>2
  <2> QED BY <1>2, <2>1, <2>2, <2>3, <2>4, <2>5, <2>6, <2>7
<1> QED
  BY <1>1, <1>2

\* A call ends.
LEMMA ReadKeepsAnswer ==
  ASSUME AnswerInv, ReadStep
  PROVE  AnswerInv'
<1> USE DEF AnswerInv
<1>1. CASE ReadLine
  <2>1. /\ reading /\ lines # <<>> /\ reading' = FALSE /\ lines' = Tail(lines)
        /\ answer'.call = calls /\ answer'.line = Head(lines) /\ answer'.ok = (Head(lines).body # Junk)
        /\ UNCHANGED <<child, asks, calls, broken, strays>>
    BY <1>1 DEF ReadLine
  <2> PICK S : lines \in Seq(S)
    BY DEF HasSeqType
  <2>2. lines' \in Seq(S) /\ Len(lines') = Len(lines) - 1 /\ Head(lines) = lines[1] /\ 1 \in DOMAIN lines
    BY <2>1
  <2>3. strays' = 0 => AnswersBelong'
    BY <2>1, <2>2 DEF AnswersBelong
  <2>4. strays' = 0 /\ child' = "running" => asks' = <<>> /\ lines' = <<>>
    BY <2>1, <2>2
  <2> QED BY <2>1, <2>2, <2>3, <2>4 DEF HasSeqType
<1>2. CASE ReadEnd \/ ReadTimeout
  <2>1. /\ calls' = calls /\ reading' = FALSE /\ broken' = TRUE /\ ~answer'.ok
        /\ asks' = <<>> /\ lines' = <<>> /\ strays' = strays
    BY <1>2 DEF ReadEnd, ReadTimeout, Failed, Break
  <2> QED BY <2>1, NothingHasSeqType DEF AnswersBelong
<1> QED
  BY <1>1, <1>2 DEF ReadStep

\* The child answers, prints what nobody asked for, or exits.
LEMMA ChildKeepsAnswer ==
  ASSUME AnswerInv, ChildStep
  PROVE  AnswerInv'
<1> USE DEF AnswerInv
<1>1. CASE ChildAnswers
  <2> PICK body : lines' = Append(lines, Line(Head(asks).call, body))
    BY <1>1 DEF ChildAnswers
  <2>1. /\ child = "running" /\ asks # <<>> /\ asks' = Tail(asks)
        /\ UNCHANGED <<child, calls, broken, reading, answer, strays>>
    BY <1>1 DEF ChildAnswers
  <2> DEFINE line == Line(Head(asks).call, body)
  <2>2. line.to = Head(asks).call
    BY DEF Line
  <2>3. lines' = Append(lines, line)
    OBVIOUS
  <2> HIDE DEF line
  <2>4. /\ HasSeqType(lines') /\ Len(lines') = Len(lines) + 1 /\ DOMAIN lines' = 1 .. Len(lines) + 1
        /\ lines'[Len(lines) + 1] = line
    BY <2>3, AppendsEvent
  <2> PICK S : asks \in Seq(S)
    BY DEF HasSeqType
  <2>5. asks' \in Seq(S) /\ Len(asks') = Len(asks) - 1 /\ Head(asks) = asks[1] /\ 1 \in DOMAIN asks
    BY <2>1
  <2>6. CASE strays = 0
    <3>1. ~reading => broken
      BY <2>1, <2>6
    <3>2. reading => Len(asks) = 1 /\ lines = <<>>
      BY <2>1, <2>6
    <3>3. reading => Len(lines') = 1 /\ asks' = <<>> /\ DOMAIN lines' = {1} /\ lines'[1] = line
      BY <2>4, <2>5, <3>2
    <3>4. reading => line.to = calls
      BY <2>2, <2>5, <2>6
    <3> QED BY <2>1, <2>4, <2>5, <2>6, <3>1, <3>3, <3>4 DEF AnswersBelong, HasSeqType
  <2>7. CASE strays # 0
    BY <2>1, <2>4, <2>5, <2>7 DEF HasSeqType
  <2> QED BY <2>6, <2>7
<1>2. CASE ChildStrays
  <2>1. /\ strays' = strays + 1 /\ child = "running"
        /\ UNCHANGED <<child, asks, calls, broken, reading, answer>>
        /\ \E line : lines' = Append(lines, line)
    BY <1>2 DEF ChildStrays
  <2>2. HasSeqType(lines')
    BY <2>1, AppendsEvent
  <2> QED BY <2>1, <2>2
<1>3. CASE ChildExits
  <2>1. /\ child' = "exited"
        /\ UNCHANGED <<asks, calls, broken, reading, answer, strays>>
        /\ lines' = lines \/ lines' = Append(lines, Line(0, Junk))
    BY <1>3 DEF ChildExits
  <2>2. HasSeqType(lines') /\ \A i \in DOMAIN lines' : (i \in DOMAIN lines /\ lines'[i] = lines[i]) \/ lines'[i].body = Junk
    <3>1. CASE lines' = Append(lines, Line(0, Junk))
      <4> DEFINE line == Line(0, Junk)
      <4>1. line.body = Junk /\ lines' = Append(lines, line)
        BY <3>1 DEF Line
      <4> HIDE DEF line
      <4>2. /\ HasSeqType(lines') /\ DOMAIN lines' = 1 .. Len(lines) + 1 /\ lines'[Len(lines) + 1] = line
            /\ \A i \in DOMAIN lines : lines'[i] = lines[i]
            /\ Len(lines) \in Nat /\ DOMAIN lines = 1 .. Len(lines)
        BY <4>1, AppendsEvent
      <4> QED BY <4>1, <4>2
    <3> QED BY <2>1, <3>1
  <2> QED BY <2>1, <2>2 DEF AnswersBelong
<1> QED
  BY <1>1, <1>2, <1>3 DEF ChildStep

\* Every step of the handler.
LEMMA HandlerKeepsAnswer ==
  ASSUME AnswerInv, CleanupInv, HandlerStep
  PROVE  AnswerInv'
<1>1. ASSUME UNCHANGED adapterVars PROVE AnswerInv'
  BY <1>1 DEF adapterVars, AnswerInv, AnswersBelong
<1>2. ASSUME Taken PROVE AnswerInv'
  BY <1>2 DEF Taken, NoAnswer, AnswerInv, AnswersBelong
<1>3. CASE StartAdapter
  <2>1. at = "adapter" /\ (StartChild \/ UNCHANGED adapterVars)
    BY <1>3 DEF StartAdapter, Step, Fail, Return
  <2>2. child = "none"
    BY <2>1 DEF CleanupInv, ChildIsHeld
  <2> QED BY <1>1, <2>1, <2>2 DEF StartChild, AnswerInv, AnswersBelong
<1>4. CASE AskList \/ AskScenario
  BY <1>4, AskKeepsAnswer DEF AskList, AskScenario
<1>5. CASE GotList \/ GotReport
  BY <1>2, <1>5 DEF GotList, GotReport
<1>6. CASE Unwind
  <2>1. CASE CloseChild
    <3>1. HasSeqType(<<>>)
      <4>1. <<>> \in Seq({})
        OBVIOUS
      <4> QED BY <4>1 DEF HasSeqType
    <3> QED BY <2>1, <3>1 DEF CloseChild, NoAnswer, AnswerInv, AnswersBelong
  <2> QED BY <1>1, <1>6, <2>1 DEF Unwind
<1>7. CASE ReadStep
  BY <1>7, ReadKeepsAnswer
<1>8. CASE NewCore \/ BeginProfile \/ InProfile \/ EndProfile \/ RunInBrowser \/ Compare \/ EndCompare
  BY <1>1, <1>8 DEF NewCore, BeginProfile, InProfile, EndProfile, RunInBrowser, Compare, EndCompare
<1>9. CASE EnsureDevServer \/ OpenPage \/ SweepCases \/ Shoot \/ UsePage
  BY <1>1, <1>9 DEF EnsureDevServer, OpenPage, SweepCases, Shoot, UsePage
<1> QED
  BY <1>3, <1>4, <1>5, <1>6, <1>7, <1>8, <1>9 DEF HandlerStep

\* Every step keeps the invariant.
LEMMA AnswerStep == AnswerInv /\ CleanupInv /\ [Next]_vars => AnswerInv'
<1> SUFFICES ASSUME AnswerInv, CleanupInv, [Next]_vars PROVE AnswerInv'
  OBVIOUS
<1>1. ASSUME UNCHANGED adapterVars PROVE AnswerInv'
  BY <1>1 DEF adapterVars, AnswerInv, AnswersBelong
<1>2. CASE Handle
  BY <1>2, HandlerKeepsAnswer DEF Handle
<1>3. CASE Outside
  BY <1>1, <1>3, ChildKeepsAnswer DEF Outside, OutsideStep
<1>4. CASE Reject \/ Accept \/ Finish \/ EndContext \/ Die \/ Caller \/ UNCHANGED vars
  BY <1>1, <1>4 DEF Reject, Accept, Finish, EndContext, Die, Caller, Deliver, Reply, StreamEnds,
                    Disconnect, Here, vars
<1> QED
  BY <1>2, <1>3, <1>4 DEF Next, Daemon

\* A result that an adapter call returns answers that very call, although adapter.go never
\* compares the numbers: a call that gives up breaks the connection, so that no later call
\* can take its late answer.
THEOREM AnswersBelongToCalls == Spec => []AnswersBelong
<1>1. Init => AnswerInv
  <2> SUFFICES ASSUME Init PROVE AnswerInv
    OBVIOUS
  <2>1. /\ child = "none" /\ asks = <<>> /\ lines = <<>> /\ calls = 0 /\ strays = 0
        /\ broken = FALSE /\ reading = FALSE /\ ~answer.ok
    BY DEF Init, HandlerInit, AdapterInit, NoAnswer
  <2>2. HasSeqType(<<>>)
    <3>1. <<>> \in Seq({})
      OBVIOUS
    <3> QED BY <3>1 DEF HasSeqType
  <2> QED BY <2>1, <2>2 DEF AnswerInv, AnswersBelong
<1>2. AnswerInv => AnswersBelong
  BY DEF AnswerInv, AnswersBelong
<1> QED
  BY <1>1, <1>2, AnswerStep, CleanupAlways, PTL DEF Spec

------------------------------------------------------------------------------
(* Comparisons                                                             *)

\* The verdict on a name, if no two checks have the same.
LEMMA VerdictIsUnique ==
  ASSUME NEW checks, HasSeqType(checks), NamesAreUnique(checks)
  PROVE  /\ \A i \in DOMAIN checks : Verdict(checks, checks[i].name) = {checks[i].ok}
         /\ \A name : Verdict(checks, name) # {} => \E i \in DOMAIN checks : checks[i].name = name
<1>0. PICK S : checks \in Seq(S)
  BY DEF HasSeqType
<1>1. \A i \in DOMAIN checks : i \in Nat
  BY <1>0
<1>2. ASSUME NEW i \in DOMAIN checks
      PROVE  Verdict(checks, checks[i].name) = {checks[i].ok}
  <2>1. { j \in DOMAIN checks : checks[j].name = checks[i].name } = {i}
    BY DEF NamesAreUnique
  <2>2. { j \in {i} : \A k \in {i} : k <= j } = {i}
    BY <1>1
  <2> QED BY <2>1, <2>2 DEF Verdict
<1>3. ASSUME NEW name, Verdict(checks, name) # {}
      PROVE  \E i \in DOMAIN checks : checks[i].name = name
  BY <1>3 DEF Verdict
<1> QED
  BY <1>2, <1>3

\* The positions of a list of checks, as a finite set.
LEMMA Positions ==
  ASSUME NEW s, HasSeqType(s)
  PROVE  /\ DOMAIN s = 1 .. Len(s) /\ Len(s) \in Nat
         /\ IsFiniteSet(DOMAIN s) /\ Cardinality(DOMAIN s) = Len(s)
<1>1. DOMAIN s = 1 .. Len(s) /\ Len(s) \in Nat
  BY DEF HasSeqType
<1>2. \A n \in Nat : IsFiniteSet(1 .. n) /\ Cardinality(1 .. n) = n
  BY FS_Interval
<1> QED
  BY <1>1, <1>2

\* The names of the second list are all among those of the first.
NamesAmong(a, b) == \A i \in DOMAIN b : \E j \in DOMAIN a : a[j].name = b[i].name

\* A map from one list to the other that keeps names.
KeepsNames(f, a, b) ==
  f \in Injection(DOMAIN b, DOMAIN a) /\ \A i \in DOMAIN b : a[f[i]].name = b[i].name

\* Then each of its checks has one of its own there.
LEMMA NamesInject ==
  ASSUME NEW a, NEW b, NamesAreUnique(b), NamesAmong(a, b)
  PROVE  \E f : KeepsNames(f, a, b)
<1> DEFINE f == [i \in DOMAIN b |-> CHOOSE j \in DOMAIN a : a[j].name = b[i].name]
<1>1. \A i \in DOMAIN b : f[i] \in DOMAIN a /\ a[f[i]].name = b[i].name
  BY DEF NamesAmong
<1>2. f \in [DOMAIN b -> DOMAIN a]
  BY <1>1
<1> HIDE DEF f
<1>3. \A i, j \in DOMAIN b : f[i] = f[j] => i = j
  BY <1>1 DEF NamesAreUnique
<1>4. KeepsNames(f, a, b)
  BY <1>1, <1>2, <1>3 DEF Injection, IsInjective, KeepsNames
<1> QED
  BY <1>4

\* So there are not more of them, and if there are as many, then they are all of that list.
LEMMA NamesCover ==
  ASSUME NEW a, HasSeqType(a), NEW b, HasSeqType(b), NamesAreUnique(b), NamesAmong(a, b)
  PROVE  Len(b) <= Len(a) /\ (Len(a) = Len(b) => NamesAmong(b, a))
<1> PICK f : KeepsNames(f, a, b)
  BY NamesInject
<1>1. Len(b) <= Len(a)
  BY Positions, FS_Injection DEF KeepsNames
<1>2. ASSUME Len(a) = Len(b), NEW j \in DOMAIN a
      PROVE  \E i \in DOMAIN b : b[i].name = a[j].name
  <2>1. IsFiniteSet(DOMAIN a) /\ Cardinality(DOMAIN b) = Cardinality(DOMAIN a)
    BY <1>2, Positions
  <2>2. f \in Surjection(DOMAIN b, DOMAIN a)
    BY <2>1, FS_Injection DEF KeepsNames
  <2>3. PICK i \in DOMAIN b : f[i] = j
    BY <2>2 DEF Surjection
  <2> QED BY <2>3 DEF KeepsNames
<1> QED
  BY <1>1, <1>2 DEF NamesAmong

\* Two lists of checks are equal, in the sense of scenario.go, exactly if the same checks
\* have come out the same way.
LEMMA ChecksEqualMeans ==
  ASSUME NEW a, HasSeqType(a), NamesAreUnique(a), NEW b, HasSeqType(b), NamesAreUnique(b)
  PROVE  ChecksEqual(a, b) <=> Outcomes(a) = Outcomes(b)
<1>1. ASSUME NEW s, NEW e
      PROVE  e \in Outcomes(s) <=> \E i \in DOMAIN s : e = <<s[i].name, s[i].ok>>
  BY DEF Outcomes
<1>2. ASSUME ChecksEqual(a, b) PROVE Outcomes(a) = Outcomes(b)
  <2>1. \A i \in DOMAIN b : \E j \in DOMAIN a : a[j].name = b[i].name /\ a[j].ok = b[i].ok
    <3> SUFFICES ASSUME NEW i \in DOMAIN b
                 PROVE  \E j \in DOMAIN a : a[j].name = b[i].name /\ a[j].ok = b[i].ok
      OBVIOUS
    <3>1. Verdict(a, b[i].name) = {b[i].ok}
      BY <1>2 DEF ChecksEqual
    <3>2. PICK j \in DOMAIN a : a[j].name = b[i].name
      BY <3>1, VerdictIsUnique
    <3>3. {a[j].ok} = {b[i].ok}
      BY <3>1, <3>2, VerdictIsUnique
    <3> QED BY <3>2, <3>3
  <2>2. NamesAmong(b, a)
    <3>1. NamesAmong(a, b)
      BY <2>1 DEF NamesAmong
    <3>2. Len(a) = Len(b)
      BY <1>2 DEF ChecksEqual
    <3> QED BY <3>1, <3>2, NamesCover
  <2>3. \A j \in DOMAIN a : \E i \in DOMAIN b : a[j].name = b[i].name /\ a[j].ok = b[i].ok
    BY <2>1, <2>2 DEF NamesAreUnique, NamesAmong
  <2>4. \A e : e \in Outcomes(a) <=> e \in Outcomes(b)
    BY <1>1, <2>1, <2>3
  <2> QED BY <2>4 DEF Outcomes
<1>3. ASSUME Outcomes(a) = Outcomes(b) PROVE ChecksEqual(a, b)
  <2>1. ASSUME NEW i \in DOMAIN b
        PROVE  \E j \in DOMAIN a : a[j].name = b[i].name /\ a[j].ok = b[i].ok
    <3>1. <<b[i].name, b[i].ok>> \in Outcomes(a)
      BY <1>1, <1>3
    <3> QED BY <1>1, <3>1
  <2>2. ASSUME NEW j \in DOMAIN a
        PROVE  \E i \in DOMAIN b : b[i].name = a[j].name
    <3>1. <<a[j].name, a[j].ok>> \in Outcomes(b)
      BY <1>1, <1>3
    <3> QED BY <1>1, <3>1
  <2>3. Len(a) = Len(b)
    <3>1. NamesAmong(a, b) /\ NamesAmong(b, a)
      BY <2>1, <2>2 DEF NamesAmong
    <3>2. Len(b) <= Len(a) /\ Len(a) <= Len(b)
      BY <3>1, NamesCover
    <3> QED BY <3>2, Positions
  <2>4. ASSUME NEW i \in DOMAIN b PROVE Verdict(a, b[i].name) = {b[i].ok}
    BY <2>1, VerdictIsUnique
  <2> QED BY <2>3, <2>4 DEF ChecksEqual
<1> QED
  BY <1>2, <1>3

\* A comparison passes exactly if digest, verdict and every check agree (scenario.go: Match),
\* for reports of any length, provided that no report has two checks of one name.
LEMMA MatchMeansAgreement ==
  ASSUME NEW a, HasSeqType(a.checks), NamesAreUnique(a.checks),
         NEW b, HasSeqType(b.checks), NamesAreUnique(b.checks)
  PROVE  Match(a, b) <=> Agree(a, b)
<1>1. ChecksEqual(a.checks, b.checks) <=> Outcomes(a.checks) = Outcomes(b.checks)
  BY ChecksEqualMeans
<1>2. Passed(a) \in BOOLEAN /\ Passed(b) \in BOOLEAN
  BY DEF Passed
<1>3. (Passed(a) = Passed(b)) <=> (Passed(a) <=> Passed(b))
  BY <1>2
<1> QED
  BY <1>1, <1>3 DEF Match, Agree

\* A check of the browser's report has come out as the last one of its name in the other: all
\* that a match says when names repeat (scenario.go: checksEqual).
LEMMA MatchCovers ==
  ASSUME NEW a, NEW b, Match(a, b)
  PROVE  Covers(a, b)
<1>1. ASSUME NEW i \in DOMAIN b.checks
      PROVE  <<b.checks[i].name, b.checks[i].ok>> \in Outcomes(a.checks)
  <2>1. b.checks[i].ok \in Verdict(a.checks, b.checks[i].name)
    BY DEF Match, ChecksEqual
  <2>2. PICK j \in DOMAIN a.checks :
          a.checks[j].name = b.checks[i].name /\ a.checks[j].ok = b.checks[i].ok
    BY <2>1 DEF Verdict
  <2> QED BY <2>2 DEF Outcomes
<1>2. Outcomes(b.checks) \subseteq Outcomes(a.checks)
  BY <1>1 DEF Outcomes
<1>3. Passed(a) = Passed(b) => (Passed(a) <=> Passed(b))
  OBVIOUS
<1> QED
  BY <1>2, <1>3 DEF Match, Covers

------------------------------------------------------------------------------
(* Types                                                                   *)

\* A frame is at a stage of its profile, or past the last.
InBounds(frame) == frame.at \in 1 .. Len(Profiles[frame.profile]) + 1

\* The innermost frame has a next stage while a stage is under way.
FramesInv ==
  /\ request \in Requests
  /\ frames \in Seq(Frames) /\ \A i \in DOMAIN frames : InBounds(frames[i])
  /\ step \in Steps
  /\ at = "profile" => frames # <<>>
  /\ step # "next" => frames # <<>> /\ ~Exhausted

\* The current stage, and the frames once it is behind.
LEMMA FramesFacts ==
  ASSUME FramesInv, frames # <<>>
  PROVE  /\ Len(frames) \in DOMAIN frames /\ Len(frames) \in Nat \ {0} /\ Top \in Frames /\ InBounds(Top)
         /\ ~Exhausted => /\ Top.at \in DOMAIN Profiles[Top.profile]
                          /\ Current.mode \in Modes /\ Current.name \in StageNames
                          /\ Current.mode = "uses" => Current.uses \in DOMAIN Profiles
                          /\ Advanced \in Seq(Frames) /\ Len(Advanced) = Len(frames)
                          /\ \A i \in DOMAIN Advanced : InBounds(Advanced[i])
<1>1. Len(frames) \in DOMAIN frames /\ Len(frames) \in Nat \ {0} /\ DOMAIN frames = 1 .. Len(frames)
  BY DEF FramesInv
<1>2. Top \in Frames /\ InBounds(Top)
  BY <1>1 DEF FramesInv, Top
<1>3. ASSUME ~Exhausted
      PROVE  /\ Top.at \in DOMAIN Profiles[Top.profile]
             /\ Current.mode \in Modes /\ Current.name \in StageNames
             /\ Current.mode = "uses" => Current.uses \in DOMAIN Profiles
             /\ Advanced \in Seq(Frames) /\ Len(Advanced) = Len(frames)
             /\ \A i \in DOMAIN Advanced : InBounds(Advanced[i])
  <2>1. /\ Top.profile \in DOMAIN Profiles /\ Top.at \in Nat
        /\ Top.at \in 1 .. Len(Profiles[Top.profile]) + 1 /\ ~(Top.at > Len(Profiles[Top.profile]))
    BY <1>2, <1>3 DEF Frames, InBounds, Exhausted
  <2>2. /\ DOMAIN Profiles[Top.profile] = 1 .. Len(Profiles[Top.profile])
        /\ Len(Profiles[Top.profile]) \in Nat
    BY <2>1, ProfilesAssumption
  <2>3. Top.at \in DOMAIN Profiles[Top.profile] /\ Top.at + 1 \in 1 .. Len(Profiles[Top.profile]) + 1
    BY <2>1, <2>2
  <2>4. /\ Current.mode \in Modes /\ (Current.mode = "uses" => Current.uses \in DOMAIN Profiles)
    BY <2>1, <2>3, ProfilesAssumption DEF Current
  <2>5. Current.name \in StageNames
    BY <2>1, <2>3 DEF Current, StageNames
  <2> DEFINE next == [Top EXCEPT !.at = @ + 1]
  <2>6. next \in Frames /\ next.profile = Top.profile /\ next.at = Top.at + 1
    BY <1>2 DEF Frames
  <2>7. InBounds(next)
    BY <2>3, <2>6 DEF InBounds
  <2>8. Advanced = [frames EXCEPT ![Len(frames)] = next]
    BY DEF Advanced, Top
  <2> HIDE DEF next
  <2>9. /\ Advanced \in Seq(Frames) /\ Len(Advanced) = Len(frames)
        /\ \A i \in DOMAIN Advanced : i \in DOMAIN frames /\ (Advanced[i] = frames[i] \/ Advanced[i] = next)
    BY <1>1, <2>6, <2>8 DEF FramesInv
  <2> QED BY <2>3, <2>4, <2>5, <2>7, <2>9 DEF FramesInv
<1> QED
  BY <1>1, <1>2, <1>3

\* The steps of a profile.
LEMMA ProfileKeepsFrames ==
  ASSUME FramesInv, InProfile
  PROVE  FramesInv'
<1> USE DEF FramesInv
<1>1. frames # <<>> /\ at' = "profile" /\ request' = request
  BY DEF InProfile, handlerVars
<1>2. ASSUME frames' = frames, step' \in Steps, step # "next" PROVE FramesInv'
  BY <1>1, <1>2 DEF Exhausted, Top
<1>3. CASE EnterNested
  <2>1. /\ frames' = Append(Advanced, Frame(Current.uses, Current.name)) /\ step' = "next"
        /\ ~Exhausted /\ Current.mode = "uses"
    BY <1>3 DEF EnterNested
  <2> DEFINE f == Frame(Current.uses, Current.name)
  <2>2. f \in Frames /\ InBounds(f)
    <3>1. Current.uses \in DOMAIN Profiles /\ Current.name \in StageNames
      BY <1>1, <2>1, FramesFacts
    <3>2. Len(Profiles[Current.uses]) \in Nat
      BY <3>1, ProfilesAssumption
    <3> QED BY <3>1, <3>2 DEF Frame, Frames, InBounds
  <2>3. frames' = Append(Advanced, f)
    BY <2>1
  <2> HIDE DEF f
  <2>4. Advanced \in Seq(Frames) /\ \A i \in DOMAIN Advanced : InBounds(Advanced[i])
    BY <1>1, <2>1, FramesFacts
  <2>5. /\ frames' \in Seq(Frames) /\ frames' # <<>>
        /\ \A i \in DOMAIN frames' : (i \in DOMAIN Advanced /\ frames'[i] = Advanced[i]) \/ frames'[i] = f
    <3>1. frames' \in Seq(Frames) /\ Len(frames') = Len(Advanced) + 1 /\ Len(Advanced) \in Nat
      BY <2>2, <2>3, <2>4
    <3>2. \A i \in 1 .. Len(Advanced) : i \in DOMAIN Advanced /\ frames'[i] = Advanced[i]
      BY <2>2, <2>3, <2>4
    <3>3. frames'[Len(Advanced) + 1] = f
      BY <2>2, <2>3, <2>4
    <3>4. DOMAIN frames' = 1 .. Len(Advanced) + 1 /\ frames' # <<>>
      BY <3>1
    <3>5. \A i \in DOMAIN frames' : i \in 1 .. Len(Advanced) \/ i = Len(Advanced) + 1
      BY <3>1, <3>4
    <3> QED BY <3>1, <3>2, <3>3, <3>4, <3>5
  <2> QED BY <1>1, <2>1, <2>2, <2>4, <2>5 DEF Steps
<1>4. CASE LeaveNested
  <2>1. frames' = SubSeq(frames, 1, Len(frames) - 1) /\ step' = "next" /\ Len(frames) > 1
    BY <1>4 DEF LeaveNested
  <2>2. /\ frames' \in Seq(Frames) /\ Len(frames') = Len(frames) - 1
        /\ \A i \in 1 .. Len(frames) - 1 : frames'[i] = frames[i] /\ i \in DOMAIN frames
    BY <2>1
  <2>3. frames' # <<>> /\ DOMAIN frames' = 1 .. Len(frames) - 1
    <3>1. Len(frames) \in Nat
      BY <1>1, FramesFacts
    <3>2. Len(frames') # 0
      BY <2>1, <2>2, <3>1
    <3> QED BY <2>2, <3>2
  <2> QED BY <1>1, <2>1, <2>2, <2>3 DEF Steps
<1>5. CASE BeginStage
  <2>1. frames' = frames /\ step' \in Steps /\ ~Exhausted
    BY <1>5 DEF BeginStage, Steps
  <2> QED BY <1>1, <2>1 DEF Exhausted, Top
<1>6. CASE RunCommand \/ Build \/ HoldOutput \/ EnsureServer \/ OpenBrowser
  <2>1. frames' = frames /\ step' \in Steps /\ step # "next"
    BY <1>6 DEF RunCommand, Build, HoldOutput, EnsureServer, OpenBrowser, Goto, Decide, Steps
  <2> QED BY <1>2, <2>1
<1>7. CASE Click \/ Eval \/ PageErrors \/ ConsoleErrors \/ Sweep \/ StageCleanUp
  <2>1. frames' = frames /\ step' \in Steps /\ step # "next"
    BY <1>7 DEF Click, Eval, PageErrors, ConsoleErrors, Sweep, StageCleanUp, Goto, Decide, Steps, profileVars
  <2> QED BY <1>2, <2>1
<1>8. CASE ReportStage
  <2>1. frames' = Advanced /\ step' = "next" /\ ~Exhausted
    BY <1>8 DEF ReportStage
  <2>2. /\ Advanced \in Seq(Frames) /\ Len(Advanced) = Len(frames) /\ Len(frames) # 0
        /\ \A i \in DOMAIN Advanced : InBounds(Advanced[i])
    BY <1>1, <2>1, FramesFacts
  <2>3. frames' # <<>>
    BY <2>1, <2>2
  <2> QED BY <1>1, <2>1, <2>2, <2>3 DEF Steps
<1> QED
  BY <1>3, <1>4, <1>5, <1>6, <1>7, <1>8 DEF InProfile, ProfileStep

\* Every step.
LEMMA FramesStep == FramesInv /\ CleanupInv /\ [Next]_vars => FramesInv'
<1> SUFFICES ASSUME FramesInv, CleanupInv, [Next]_vars PROVE FramesInv'
  OBVIOUS
<1>1. ASSUME UNCHANGED <<frames, step, request>>, at' # "profile" \/ at' = at PROVE FramesInv'
  BY <1>1 DEF FramesInv, Exhausted, Top
<1>2. CASE InProfile
  BY <1>2, ProfileKeepsFrames
<1>3. CASE BeginProfile
  <2>1. step' = step /\ request' = request /\ step = "next"
    BY <1>3 DEF BeginProfile, Step, Fail, Return, CleanupInv, StageOrder
  <2>2. CASE UNCHANGED frames /\ at' = "unwind"
    BY <1>1, <2>1, <2>2
  <2>3. CASE frames' = <<Frame(request.profile, NoName)>> /\ request.profile # NoName
    <3>1. request.profile \in DOMAIN Profiles
      BY <2>3, CallAssumption DEF FramesInv, Request
    <3>2. Len(Profiles[request.profile]) \in Nat
      BY <3>1, ProfilesAssumption
    <3> DEFINE f == Frame(request.profile, NoName)
    <3>3. f \in Frames /\ InBounds(f) /\ frames' = <<f>>
      BY <2>3, <3>1, <3>2 DEF Frame, Frames, InBounds
    <3> HIDE DEF f
    <3> QED BY <2>1, <3>3 DEF FramesInv
  <2> QED BY <1>3, <2>2, <2>3 DEF BeginProfile, Step, Fail, Return
<1>4. CASE EndProfile
  <2>1. frames' = <<>> /\ at' = "unwind" /\ step' = "next" /\ request' = request
    BY <1>4 DEF EndProfile, ProfileDone, Return
  <2> QED BY <2>1 DEF FramesInv, Steps
<1>5. ASSUME HandlerStep, ~InProfile, ~BeginProfile, ~EndProfile
      PROVE  UNCHANGED <<frames, step, request>> /\ (at' # "profile" \/ at' = at)
  BY <1>5 DEF HandlerStep, NewCore, StartAdapter, AskList, GotList, AskScenario, GotReport, RunInBrowser,
              Compare, EndCompare, EnsureDevServer, OpenPage, SweepCases, Shoot, UsePage, Unwind, Differs,
              Step, Fail, Return, profileVars, handlerVars
<1>6. CASE OutsideStep
  <2>1. CASE UNCHANGED <<profileVars, handlerVars>>
    BY <1>1, <2>1 DEF profileVars, handlerVars
  <2>2. CASE LetGo /\ UNCHANGED handlerVars
    <3>1. /\ UNCHANGED <<frames, request, at>> /\ step = "held" /\ step' \in {"unwind", "ensure"}
      BY <2>2 DEF LetGo, Goto, Decide, handlerVars
    <3> QED BY <3>1 DEF FramesInv, Exhausted, Top, Steps
  <2> QED BY <1>6, <2>1, <2>2 DEF OutsideStep
<1>7. CASE Reject \/ Accept \/ Finish \/ EndContext \/ Die \/ Caller \/ UNCHANGED vars
  <2>1. UNCHANGED <<frames, step, request>> /\ (at' # "profile" \/ at' = at)
    BY <1>7 DEF Reject, Accept, Finish, EndContext, Die, Caller, Deliver, Reply, StreamEnds, Disconnect,
                Here, vars, profileVars, handlerVars
  <2> QED BY <1>1, <2>1
<1> QED
  BY <1>1, <1>2, <1>3, <1>4, <1>5, <1>6, <1>7 DEF Next, Daemon, Handle, Outside

------------------------------------------------------------------------------
\* What the conversation with the child is made of.
LinesInv ==
  /\ child \in {"none", "running", "exited", "killed"}
  /\ \A i \in DOMAIN asks : asks[i].what \in {"list", "run"} /\ asks[i].call \in 1 .. calls
  /\ \A i \in DOMAIN lines : lines[i].to \in 0 .. calls /\ lines[i].body \in Bodies
  /\ answer.line.body \in Bodies
  /\ strays \in 0 .. MaxStray

\* A line is added, or the one there is taken.
LEMMA LinesAppend ==
  ASSUME AnswerInv, LinesInv, NEW line, line.to \in 0 .. calls, line.body \in Bodies,
         lines' = Append(lines, line), calls' = calls
  PROVE  \A i \in DOMAIN lines' : lines'[i].to \in 0 .. calls' /\ lines'[i].body \in Bodies
<1>1. /\ DOMAIN lines' = 1 .. Len(lines) + 1 /\ lines'[Len(lines) + 1] = line
      /\ \A i \in DOMAIN lines : lines'[i] = lines[i]
      /\ Len(lines) \in Nat /\ DOMAIN lines = 1 .. Len(lines)
  BY AppendsEvent DEF AnswerInv
<1> QED
  BY <1>1 DEF LinesInv

\* Every step keeps it.
LEMMA LinesStep == LinesInv /\ AnswerInv /\ [Next]_vars => LinesInv'
<1> SUFFICES ASSUME LinesInv, AnswerInv, [Next]_vars PROVE LinesInv'
  OBVIOUS
<1>0. Junk \in Bodies /\ Listing \in Bodies /\ \A r \in Reports : Reported(r) \in Bodies
  BY DEF Bodies
<1>1. ASSUME UNCHANGED adapterVars PROVE LinesInv'
  BY <1>1 DEF adapterVars, LinesInv
<1>2. ASSUME Taken \/ StartChild PROVE LinesInv'
  BY <1>0, <1>2 DEF Taken, StartChild, NoAnswer, Line, LinesInv
<1>3. ASSUME CloseChild PROVE LinesInv'
  BY <1>0, <1>3 DEF CloseChild, NoAnswer, Line, LinesInv
<1>4. ASSUME NEW what \in {"list", "run"}, Ask(what) PROVE LinesInv'
  <2>1. CASE reading'
    <3>1. /\ calls' = calls + 1 /\ UNCHANGED <<answer, child, lines, strays>>
          /\ asks' = Append(asks, [call |-> calls + 1, what |-> what])
      BY <1>4, <2>1 DEF Ask, Failed
    <3> DEFINE ask == [call |-> calls + 1, what |-> what]
    <3>2. ask.call = calls + 1 /\ ask.what = what /\ asks' = Append(asks, ask)
      BY <3>1
    <3> HIDE DEF ask
    <3>3. /\ DOMAIN asks' = 1 .. Len(asks) + 1 /\ asks'[Len(asks) + 1] = ask
          /\ \A i \in DOMAIN asks : asks'[i] = asks[i]
          /\ Len(asks) \in Nat /\ DOMAIN asks = 1 .. Len(asks) /\ calls \in Nat
      BY <3>2, AppendsEvent DEF AnswerInv
    <3>4. \A i \in DOMAIN asks' : asks'[i].what \in {"list", "run"} /\ asks'[i].call \in 1 .. calls'
      BY <3>1, <3>2, <3>3 DEF LinesInv
    <3> QED BY <3>1, <3>3, <3>4 DEF LinesInv
  <2>2. CASE ~reading'
    <3>1. /\ calls' \in {calls, calls + 1} /\ UNCHANGED <<child, strays>>
          /\ UNCHANGED <<asks, lines>> \/ (asks' = <<>> /\ lines' = <<>>)
          /\ answer'.line.body = Junk
      <4>1. /\ Failed /\ ~reading /\ UNCHANGED <<child, strays>>
            /\ \/ UNCHANGED <<calls, asks, lines, broken>>
               \/ child # "running" /\ calls' = calls + 1 /\ Break
        BY <1>4, <2>2, AskInVain, Zenon
      <4> QED BY <4>1 DEF Failed, Break, Line
    <3> QED BY <1>0, <3>1 DEF LinesInv, AnswerInv
  <2> QED BY <2>1, <2>2
<1>5. ASSUME ReadStep PROVE LinesInv'
  <2>1. CASE ReadLine
    <3>1. /\ lines # <<>> /\ lines' = Tail(lines) /\ answer'.line = Head(lines)
          /\ UNCHANGED <<child, asks, calls, strays>>
      BY <2>1 DEF ReadLine
    <3> PICK S : lines \in Seq(S)
      BY DEF AnswerInv, HasSeqType
    <3>2. /\ Head(lines) = lines[1] /\ 1 \in DOMAIN lines
          /\ \A i \in DOMAIN lines' : i + 1 \in DOMAIN lines /\ lines'[i] = lines[i + 1]
      BY <3>1
    <3> QED BY <3>1, <3>2 DEF LinesInv
  <2>2. CASE ReadEnd \/ ReadTimeout
    <3>1. /\ UNCHANGED <<calls, strays>> /\ answer'.line.body = Junk
          /\ asks' = <<>> /\ lines' = <<>>
          /\ child' = child \/ child' = "killed"
      BY <2>2 DEF ReadEnd, ReadTimeout, Failed, Break, Line
    <3> QED BY <1>0, <3>1 DEF LinesInv
  <2> QED BY <1>5, <2>1, <2>2 DEF ReadStep
<1>6. ASSUME ChildStep PROVE LinesInv'
  <2>1. CASE ChildAnswers
    <3>1. /\ asks # <<>> /\ asks' = Tail(asks) /\ UNCHANGED <<child, calls, answer, strays>>
      BY <2>1 DEF ChildAnswers
    <3> PICK S : asks \in Seq(S)
      BY DEF AnswerInv, HasSeqType
    <3>2. /\ Head(asks) = asks[1] /\ 1 \in DOMAIN asks
          /\ \A i \in DOMAIN asks' : i + 1 \in DOMAIN asks /\ asks'[i] = asks[i + 1]
      BY <3>1
    <3> PICK body \in Bodies : lines' = Append(lines, Line(Head(asks).call, body))
      BY <1>0, <2>1 DEF ChildAnswers
    <3> DEFINE line == Line(Head(asks).call, body)
    <3>3. line.to \in 0 .. calls /\ line.body \in Bodies /\ lines' = Append(lines, line)
      BY <3>2 DEF Line, LinesInv, AnswerInv
    <3> HIDE DEF line
    <3>4. \A i \in DOMAIN lines' : lines'[i].to \in 0 .. calls' /\ lines'[i].body \in Bodies
      BY <3>1, <3>3, LinesAppend
    <3> QED BY <3>1, <3>2, <3>4 DEF LinesInv
  <2>2. CASE ChildStrays
    <3>1. /\ strays' = strays + 1 /\ strays < MaxStray
          /\ UNCHANGED <<child, asks, calls, answer>>
      BY <2>2 DEF ChildStrays
    <3> PICK body \in Bodies : lines' = Append(lines, Line(0, body))
      BY <1>0, <2>2 DEF ChildStrays
    <3> DEFINE line == Line(0, body)
    <3>2. line.to \in 0 .. calls /\ line.body \in Bodies /\ lines' = Append(lines, line)
      BY DEF Line, AnswerInv
    <3> HIDE DEF line
    <3>3. \A i \in DOMAIN lines' : lines'[i].to \in 0 .. calls' /\ lines'[i].body \in Bodies
      BY <3>1, <3>2, LinesAppend
    <3> QED BY <3>1, <3>3, AdapterAssumption DEF LinesInv
  <2>3. CASE ChildExits
    <3>1. child' = "exited" /\ UNCHANGED <<asks, calls, answer, strays>>
          /\ (lines' = lines \/ lines' = Append(lines, Line(0, Junk)))
      BY <2>3 DEF ChildExits
    <3>2. CASE lines' = Append(lines, Line(0, Junk))
      <4> DEFINE line == Line(0, Junk)
      <4>1. line.to \in 0 .. calls /\ line.body \in Bodies /\ lines' = Append(lines, line)
        BY <1>0, <3>2 DEF Line, AnswerInv
      <4> HIDE DEF line
      <4>2. \A i \in DOMAIN lines' : lines'[i].to \in 0 .. calls' /\ lines'[i].body \in Bodies
        BY <3>1, <4>1, LinesAppend
      <4> QED BY <3>1, <4>2 DEF LinesInv
    <3> QED BY <3>1, <3>2 DEF LinesInv
  <2> QED BY <1>6, <2>1, <2>2, <2>3 DEF ChildStep
<1>7. ASSUME HandlerStep PROVE LinesInv'
  <2>1. ASSUME NewCore \/ BeginProfile \/ InProfile \/ EndProfile \/ RunInBrowser \/ Compare \/ EndCompare
               \/ EnsureDevServer \/ OpenPage \/ SweepCases \/ Shoot \/ UsePage
        PROVE  UNCHANGED adapterVars
    BY <2>1 DEF NewCore, BeginProfile, InProfile, EndProfile, RunInBrowser, Compare, EndCompare,
                EnsureDevServer, OpenPage, SweepCases, Shoot, UsePage
  <2>2. ASSUME StartAdapter \/ Unwind PROVE StartChild \/ CloseChild \/ UNCHANGED adapterVars
    BY <2>2 DEF StartAdapter, Unwind
  <2>3. ASSUME AskList \/ AskScenario PROVE Ask("list") \/ Ask("run")
    BY <2>3 DEF AskList, AskScenario
  <2>4. ASSUME GotList \/ GotReport PROVE Taken
    BY <2>4 DEF GotList, GotReport
  <2> QED BY <1>1, <1>2, <1>3, <1>4, <1>5, <1>7, <2>1, <2>2, <2>3, <2>4 DEF HandlerStep
<1>8. CASE Reject \/ Accept \/ Finish \/ EndContext \/ Die \/ Caller \/ UNCHANGED vars
  BY <1>1, <1>8 DEF Reject, Accept, Finish, EndContext, Die, Caller, Deliver, Reply, StreamEnds,
                    Disconnect, Here, vars
<1> QED
  BY <1>1, <1>6, <1>7, <1>8 DEF Next, Daemon, Handle, Outside, OutsideStep

------------------------------------------------------------------------------
\* What the handler has at hand: scenarios still to be run, reports, outcomes.
HandInv ==
  /\ request \in Requests /\ pending \in Seq(Scenarios)
  /\ at \in {"headless", "inBrowser"} /\ Asked("scenario.compare") => pending # <<>>
  /\ at = "compare" => pending # <<>>
  /\ {headless, inBrowser} \subseteq Reports \cup {EmptyReport}
  /\ HasSeqType(results) /\ \A i \in DOMAIN results : results[i].ok \in BOOLEAN

\* An outcome is recorded.
LEMMA ReportKeepsResults ==
  ASSUME HandInv, NEW name, NEW ok \in BOOLEAN, Report(name, ok)
  PROVE  /\ HasSeqType(results') /\ \A i \in DOMAIN results' : results'[i].ok \in BOOLEAN
         /\ results' # <<>> /\ Last(results').ok = ok
<1> DEFINE result == [name |-> name, ok |-> ok]
<1>1. result.ok = ok /\ results' = Append(results, result)
  BY DEF Report
<1> HIDE DEF result
<1>2. /\ HasSeqType(results') /\ DOMAIN results' = 1 .. Len(results) + 1 /\ Len(results') = Len(results) + 1
      /\ Len(results) \in Nat /\ DOMAIN results = 1 .. Len(results)
      /\ \A i \in DOMAIN results : results'[i] = results[i]
      /\ results'[Len(results) + 1] = result
  BY <1>1, AppendsEvent DEF HandInv
<1>3. \A i \in DOMAIN results' : i \in DOMAIN results \/ i = Len(results) + 1
  BY <1>2
<1>4. results' # <<>>
  BY <1>2
<1>5. Last(results') = result
  BY <1>2 DEF Last
<1> QED
  BY <1>1, <1>2, <1>3, <1>4, <1>5 DEF HandInv

\* A scenario is done with, for better or worse.
LEMMA NextScenarioKeepsHand ==
  ASSUME HandInv, pending # <<>>, pending' = Tail(pending), NoReports, UNCHANGED request,
         at' = "scenario", NEW name, NEW ok \in BOOLEAN, Report(name, ok)
  PROVE  HandInv'
<1>1. HasSeqType(results') /\ \A i \in DOMAIN results' : results'[i].ok \in BOOLEAN
  BY ReportKeepsResults
<1>2. pending' \in Seq(Scenarios)
  BY DEF HandInv
<1> QED
  BY <1>1, <1>2 DEF HandInv, NoReports

\* The steps that take a report, or none.
LEMMA ReportsKeepHand ==
  ASSUME HandInv, LinesInv, GotReport \/ RunInBrowser \/ Compare
  PROVE  HandInv'
<1>1. ASSUME NEW from, NEW ok \in BOOLEAN, Return(from, ok), UNCHANGED results PROVE HandInv'
  <2>1. pending' = <<>> /\ at' = "unwind" /\ NoReports /\ request' = request
    BY <1>1 DEF Return
  <2> QED BY <1>1, <2>1 DEF HandInv, NoReports
<1>2. ASSUME NEW from \in {"headless", "inBrowser"}, Differs(from), Asked("scenario.compare")
      PROVE  HandInv'
  <2>1. /\ pending # <<>> /\ pending' = Tail(pending) /\ NoReports /\ request' = request /\ at' = "scenario"
        /\ Report(<<NoName, Head(pending)>>, FALSE)
    BY <1>2 DEF Differs, Step, HandInv
  <2> QED BY <2>1, NextScenarioKeepsHand
<1>3. CASE GotReport
  <2>1. CASE ~answer.ok /\ Asked("scenario.compare") /\ Differs("headless")
    BY <1>2, <2>1
  <2>2. CASE Fail("headless") /\ UNCHANGED results
    BY <1>1, <2>2 DEF Fail
  <2>3. CASE /\ Asked("scenario.compare") /\ Step("headless", "inBrowser")
             /\ headless' = AsReport(answer.line.body) /\ UNCHANGED <<pending, inBrowser, results>>
    <3>1. AsReport(answer.line.body) \in Reports \cup {EmptyReport}
      <4>1. \A r : Reported(r) = [kind |-> "report", report |-> r]
        BY DEF Reported
      <4>2. answer.line.body \in {Listing, Junk} \cup { Reported(r) : r \in Reports }
        BY DEF LinesInv, Bodies
      <4> QED BY <4>1, <4>2 DEF AsReport, Listing, Junk
    <3> QED BY <2>3, <3>1 DEF HandInv, Step, Asked
  <2>4. CASE Return("headless", Passed(AsReport(answer.line.body))) /\ UNCHANGED results
    <3>1. Passed(AsReport(answer.line.body)) \in BOOLEAN
      BY DEF Passed
    <3> QED BY <1>1, <2>4, <3>1
  <2> QED BY <1>3, <2>1, <2>2, <2>3, <2>4 DEF GotReport
<1>4. CASE RunInBrowser
  <2>1. CASE Asked("scenario.compare") /\ Differs("inBrowser")
    BY <1>2, <2>1
  <2>2. CASE Fail("inBrowser") /\ UNCHANGED results
    BY <1>1, <2>2 DEF Fail
  <2>3. CASE /\ Asked("scenario.compare") /\ Step("inBrowser", "compare")
             /\ inBrowser' \in Reports /\ UNCHANGED <<pending, headless, results>>
    BY <2>3 DEF HandInv, Step, Asked
  <2>4. CASE (\E report \in Reports : Return("inBrowser", Passed(report))) /\ UNCHANGED results
    <3> PICK report \in Reports : Return("inBrowser", Passed(report))
      BY <2>4
    <3>1. Passed(report) \in BOOLEAN
      BY DEF Passed
    <3> QED BY <1>1, <2>4, <3>1
  <2> QED BY <1>4, <2>1, <2>2, <2>3, <2>4 DEF RunInBrowser
<1>5. CASE Compare
  <2>1. /\ pending # <<>> /\ pending' = Tail(pending) /\ NoReports /\ request' = request /\ at' = "scenario"
        /\ Report(<<NoName, Head(pending)>>, Match(headless, inBrowser))
    BY <1>5 DEF Compare, Step, HandInv
  <2>2. Match(headless, inBrowser) \in BOOLEAN
    BY DEF Match
  <2> QED BY <2>1, <2>2, NextScenarioKeepsHand
<1> QED
  BY <1>3, <1>4, <1>5

\* All cases of a sweep are recorded at once.
LEMMA SweepKeepsHand ==
  ASSUME HandInv, SweepCases
  PROVE  HandInv'
<1>1. pending' = <<>> /\ at' = "unwind" /\ NoReports /\ request' = request
  BY DEF SweepCases, Fail, Return
<1>2. HasSeqType(results') /\ \A i \in DOMAIN results' : results'[i].ok \in BOOLEAN
  <2>1. CASE UNCHANGED results
    BY <2>1 DEF HandInv
  <2>2. CASE \E oks \in Swept : results' = [i \in DOMAIN oks |-> [name |-> <<NoName, i>>, ok |-> oks[i]]]
    <3> PICK oks \in Swept : results' = [i \in DOMAIN oks |-> [name |-> <<NoName, i>>, ok |-> oks[i]]]
      BY <2>2
    <3> PICK n \in 0 .. MaxCases : oks \in [1 .. n -> BOOLEAN]
      BY DEF Swept
    <3> DEFINE R == { [name |-> <<NoName, i>>, ok |-> oks[i]] : i \in 1 .. n }
    <3>1. results' \in [1 .. n -> R] /\ n \in Nat
      OBVIOUS
    <3>2. \A i \in 1 .. n : results'[i].ok = oks[i] /\ oks[i] \in BOOLEAN
      OBVIOUS
    <3> HIDE DEF R
    <3>3. results' \in Seq(R)
      BY <3>1
    <3> QED BY <3>1, <3>2, <3>3 DEF HasSeqType
  <2> QED BY <2>1, <2>2 DEF SweepCases
<1> QED
  BY <1>1, <1>2 DEF HandInv, NoReports

\* Every step.
LEMMA HandStep == HandInv /\ LinesInv /\ LateInv /\ [Next]_vars => HandInv'
<1> SUFFICES ASSUME HandInv, LinesInv, LateInv, [Next]_vars PROVE HandInv'
  OBVIOUS
<1>1. ASSUME UNCHANGED <<request, pending, headless, inBrowser, results>>,
             at' = at \/ at' \notin {"headless", "inBrowser", "compare"}
      PROVE  HandInv'
  BY <1>1 DEF HandInv, Asked
<1>2. ASSUME NEW from, NEW ok, Return(from, ok), UNCHANGED results PROVE HandInv'
  <2>1. pending' = <<>> /\ at' = "unwind" /\ NoReports /\ request' = request
    BY <1>2 DEF Return
  <2> QED BY <1>2, <2>1 DEF HandInv, NoReports
<1>3. CASE NewCore
  <2>1. CASE Fail("core")
    BY <1>2, <1>3, <2>1 DEF NewCore, Fail
  <2>2. CASE /\ pending' = request.ids /\ SameReports /\ request' = request /\ UNCHANGED results
             /\ at' \in {"manifest", "adapter", "ensure"}
    <3>1. request.ids \in Seq(Scenarios)
      BY CallAssumption DEF HandInv, Request
    <3> QED BY <2>2, <3>1 DEF HandInv, SameReports
  <2> QED BY <1>3, <2>1, <2>2 DEF NewCore, Step
<1>4. CASE BeginProfile \/ EndProfile
  <2>1. UNCHANGED results
    BY <1>4 DEF BeginProfile, EndProfile, frameVars
  <2>2. \/ \E ok : Return("manifest", ok) \/ Return("profile", ok)
        \/ /\ UNCHANGED <<request, pending, headless, inBrowser>> /\ at' = "profile"
    BY <1>4 DEF BeginProfile, EndProfile, Fail, Step, SameReports
  <2> QED BY <1>1, <1>2, <2>1, <2>2
<1>5. CASE InProfile
  <2>1. UNCHANGED <<request, at, pending, headless, inBrowser>>
    BY <1>5 DEF InProfile, handlerVars
  <2>2. CASE UNCHANGED results
    BY <1>1, <2>1, <2>2
  <2>3. CASE \E name : Report(name, outcome)
    <3> PICK name : Report(name, outcome)
      BY <2>3
    <3>1. HasSeqType(results') /\ \A i \in DOMAIN results' : results'[i].ok \in BOOLEAN
      BY ReportKeepsResults DEF LateInv
    <3> QED BY <2>1, <3>1 DEF HandInv, Asked
  <2> QED
    BY <1>5, <2>2, <2>3 DEF InProfile, ProfileStep, EnterNested, LeaveNested, BeginStage, RunCommand, Build,
        HoldOutput, EnsureServer, OpenBrowser, Click, Eval, PageErrors, ConsoleErrors, Sweep, StageCleanUp, ReportStage
<1>6. CASE GotReport \/ RunInBrowser \/ Compare
  BY <1>6, ReportsKeepHand
<1>7. CASE SweepCases
  BY <1>7, SweepKeepsHand
<1>8. CASE GotList
  <2>1. UNCHANGED results
    BY <1>8 DEF GotList, frameVars
  <2>2. CASE \E ok : Return("listing", ok)
    BY <1>2, <2>1, <2>2
  <2>3. CASE Step("listing", "ensure") /\ pending' = AsCatalogue(answer.line.body) /\ SameReports
    <3>1. AsCatalogue(answer.line.body) \in Seq(Scenarios)
      BY AdapterAssumption DEF AsCatalogue
    <3> QED BY <2>1, <2>3, <3>1 DEF HandInv, Step, SameReports
  <2> QED BY <1>8, <2>2, <2>3 DEF GotList, Fail
<1>9. CASE AskScenario
  BY <1>9 DEF AskScenario, Step, HandInv, frameVars
<1>10. CASE AskList \/ Unwind \/ (ReadStep /\ UNCHANGED <<frameVars, profileVars, handlerVars>>)
  BY <1>1, <1>10 DEF AskList, Unwind, Step, frameVars, handlerVars
<1>11. CASE StartAdapter \/ EndCompare \/ EnsureDevServer \/ Shoot \/ UsePage
  <2>1. UNCHANGED results
    BY <1>11 DEF StartAdapter, EndCompare, EnsureDevServer, Shoot, UsePage, frameVars
  <2>2. \/ \E from, ok : Return(from, ok)
        \/ /\ UNCHANGED <<request, pending, headless, inBrowser>>
           /\ at' \in {"scenario", "list", "ensure", "open"}
    BY <1>11 DEF StartAdapter, EndCompare, EnsureDevServer, Shoot, UsePage, Fail, Step, SameReports
  <2> QED BY <1>1, <1>2, <2>1, <2>2
<1>12. CASE OpenPage
  <2>1. UNCHANGED results
    BY <1>12 DEF OpenPage
  <2>2. \/ \E from, ok : Return(from, ok)
        \/ /\ UNCHANGED <<request, pending, headless, inBrowser>>
           /\ at' \in {"scenario", "page"} \/ (at' = "inBrowser" /\ Asked("scenario.run"))
    BY <1>12 DEF OpenPage, Fail, Step, SameReports
  <2> QED BY <1>1, <1>2, <2>1, <2>2 DEF HandInv, Asked
<1>13. CASE OutsideStep
  BY <1>1, <1>13 DEF OutsideStep, LetGo, frameVars, handlerVars
<1>14. CASE Reject \/ Accept \/ Finish \/ EndContext \/ Die \/ Caller \/ UNCHANGED vars
  BY <1>1, <1>14 DEF Reject, Accept, Finish, EndContext, Die, Caller, Deliver, Reply, StreamEnds, Disconnect,
                Here, vars, frameVars, handlerVars
<1> QED
  BY <1>3, <1>4, <1>5, <1>6, <1>7, <1>8, <1>9, <1>10, <1>11, <1>12, <1>13, <1>14
     DEF Next, Daemon, Handle, Outside, HandlerStep

------------------------------------------------------------------------------
\* No more than three cleanups are ever deferred: the core's, a server's or an adapter's, and
\* a page's.
DepthInv ==
  /\ Len(defers) \in 0 .. 3
  /\ at = "adapter" => Len(defers) = 1
  /\ at \in {"list", "listing", "ensure", "open"} => Len(defers) \in 0 .. 2
  /\ at = "profile" /\ step = "open" => Len(defers) \in 0 .. 2

\* Every step.
LEMMA DepthStep == DepthInv /\ CleanupInv /\ [Next]_vars => DepthInv'
<1> SUFFICES ASSUME DepthInv, CleanupInv, [Next]_vars PROVE DepthInv'
  OBVIOUS
<1> USE DEF DepthInv
<1>0. defers \in Seq(Things) /\ Len(defers) \in Nat
  BY DEF CleanupInv, DefersHold
<1>1. ASSUME UNCHANGED <<defers, step>>,
             \/ at' = at
             \/ at' \notin {"adapter", "list", "listing", "ensure", "open", "profile"}
             \/ at \in {"list", "listing", "ensure", "open"} /\ at' # "adapter" /\ at' # "profile"
             \/ at = "manifest"
      PROVE  DepthInv'
  <2>1. at = "manifest" => Len(defers) = 1
    BY DEF CleanupInv, StageOrder
  <2> QED BY <1>0, <1>1, <2>1
<1>2. ASSUME NEW thing \in Things, defers' = Append(defers, thing)
      PROVE  /\ Len(defers) = 0 => Len(defers') = 1
             /\ Len(defers) = 1 => Len(defers') = 2
             /\ Len(defers) \in 0 .. 2 => Len(defers') \in 0 .. 3
  <2>1. Len(defers') = Len(defers) + 1
    BY <1>0, <1>2, HoldAppends
  <2>2. \A n \in 0 .. 2 : n + 1 \in 0 .. 3
    OBVIOUS
  <2>3. Len(defers) \in 0 .. 2 => Len(defers') \in 0 .. 3
    BY <2>1, <2>2
  <2>4. 0 + 1 = 1 /\ 1 + 1 = 2
    OBVIOUS
  <2> QED BY <2>1, <2>3, <2>4
<1>3. CASE InProfile
  <2>1. at = "profile" /\ at' = at
    BY <1>3 DEF InProfile, handlerVars
  <2>2. CASE UNCHANGED defers /\ step' # "open"
    BY <2>1, <2>2
  <2>3. CASE UNCHANGED <<defers, step>>
    BY <2>1, <2>3
  <2>4. CASE EnsureServer
    <3>1. Len(defers) = 1
      BY <2>1, <2>4 DEF EnsureServer, CleanupInv, StageOrder
    <3>2. defers' = defers \/ defers' = Append(defers, "prod")
      BY <2>4 DEF EnsureServer, Hold
    <3> QED BY <1>2, <2>1, <3>1, <3>2 DEF Things
  <2>5. CASE OpenBrowser
    <3>1. step = "open" /\ step' # "open" /\ (defers' = defers \/ defers' = Append(defers, "session"))
      BY <2>5 DEF OpenBrowser, Hold, Goto, Decide
    <3>2. Len(defers) \in 0 .. 2
      BY <2>1, <3>1
    <3>3. Len(defers') \in 0 .. 3
      BY <1>2, <3>1, <3>2 DEF Things
    <3> QED BY <2>1, <3>1, <3>3
  <2>6. CASE StageCleanUp
    <3>1. /\ step = "unwind" /\ step' = step /\ defers # <<>>
          /\ defers' = SubSeq(defers, 1, Len(defers) - 1)
      BY <1>0, <2>6 DEF StageCleanUp, CleanUp, profileVars
    <3>2. Len(defers') = Len(defers) - 1
      BY <1>0, <3>1, CleanUpShortens
    <3> QED BY <1>0, <2>1, <3>1, <3>2
  <2>7. CASE EnterNested \/ LeaveNested \/ BeginStage \/ ReportStage
    BY <2>2, <2>3, <2>7 DEF EnterNested, LeaveNested, BeginStage, ReportStage
  <2>8. CASE RunCommand \/ Build \/ HoldOutput \/ Click \/ Eval \/ PageErrors \/ ConsoleErrors \/ Sweep
    BY <2>2, <2>8 DEF RunCommand, Build, HoldOutput, Click, Eval, PageErrors, ConsoleErrors, Sweep, Goto, Decide
  <2> QED
    BY <1>3, <2>4, <2>5, <2>6, <2>7, <2>8 DEF InProfile, ProfileStep
<1>4. CASE NewCore
  <2>1. Len(defers) = 0 /\ at = "core" /\ step' = step
    BY <1>0, <1>4 DEF NewCore, Step, Fail, Return, CleanupInv, Underway, profileVars
  <2>2. CASE defers' = Append(defers, "core") /\ at' # "profile"
    <3>1. Len(defers') = 1
      BY <1>2, <2>1, <2>2 DEF Things
    <3> QED BY <2>2, <3>1
  <2>3. CASE defers' = defers /\ at' = "unwind"
    BY <2>1, <2>3
  <2> QED BY <1>4, <2>2, <2>3 DEF NewCore, Hold, Step, Fail, Return
<1>5. CASE StartAdapter
  <2>1. Len(defers) = 1 /\ step' = step /\ step = "next" /\ at' # "adapter"
    BY <1>5 DEF StartAdapter, Step, Fail, Return, profileVars, CleanupInv, StageOrder
  <2>2. defers' = Append(defers, "adapter") \/ defers' = defers
    BY <1>5 DEF StartAdapter, Hold
  <2>3. "adapter" \in Things
    BY DEF Things
  <2>4. Len(defers') \in {1, 2}
    BY <1>2, <2>1, <2>2, <2>3
  <2> QED BY <2>1, <2>4
<1>6. CASE OpenPage
  <2>1. Len(defers) \in 0 .. 2 /\ at' \in {"scenario", "inBrowser", "page", "unwind"}
    BY <1>6 DEF OpenPage, Step, Fail, Return
  <2>2. defers' = Append(defers, "session") \/ defers' = defers
    BY <1>6 DEF OpenPage, Hold
  <2>3. Len(defers') \in 0 .. 3
    BY <1>2, <2>1, <2>2 DEF Things
  <2> QED BY <2>1, <2>3
<1>7. CASE Unwind
  <2>1. at' = "unwind" /\ defers # <<>> /\ defers' = SubSeq(defers, 1, Len(defers) - 1)
    BY <1>7 DEF Unwind, CleanUp, handlerVars
  <2>2. Len(defers') = Len(defers) - 1
    BY <1>0, <2>1, CleanUpShortens
  <2> QED BY <1>0, <2>1, <2>2
<1>8. CASE BeginProfile \/ EndProfile
  <2>1. /\ UNCHANGED <<defers, step>>
        /\ at = "manifest" \/ at' = "unwind"
    BY <1>8 DEF BeginProfile, EndProfile, Step, Fail, Return, frameVars
  <2> QED BY <1>1, <2>1
<1>9. CASE AskList \/ GotList \/ AskScenario \/ GotReport
  <2>1. /\ UNCHANGED <<defers, step>>
        /\ \/ at' \in {"headless", "unwind", "scenario", "inBrowser"}
           \/ at = "list" /\ at' = "listing"
           \/ at = "listing" /\ at' = "ensure"
    BY <1>9 DEF AskList, GotList, AskScenario, GotReport, Differs, Step, Fail, Return, frameVars, profileVars
  <2> QED BY <1>1, <2>1
<1>10. CASE RunInBrowser \/ Compare \/ EndCompare \/ EnsureDevServer \/ SweepCases \/ Shoot \/ UsePage
  <2>1. /\ UNCHANGED <<defers, step>>
        /\ \/ at' \in {"scenario", "unwind", "compare"}
           \/ at = "ensure" /\ at' = "open"
    BY <1>10 DEF RunInBrowser, Compare, EndCompare, EnsureDevServer, SweepCases, Shoot, UsePage, Differs,
                 Step, Fail, Return, frameVars, profileVars
  <2> QED BY <1>1, <2>1
<1>11. CASE ReadStep /\ UNCHANGED <<frameVars, profileVars, handlerVars>>
  BY <1>1, <1>11 DEF frameVars, profileVars, handlerVars
<1>12. CASE OutsideStep
  <2>1. UNCHANGED <<defers, at>> /\ (step' = step \/ step' \in {"unwind", "ensure"})
    BY <1>12 DEF OutsideStep, LetGo, Goto, Decide, frameVars, profileVars, handlerVars
  <2> QED BY <2>1
<1>13. CASE Reject \/ Accept \/ Finish \/ EndContext \/ Die \/ Caller \/ UNCHANGED vars
  <2>1. /\ UNCHANGED <<defers, step>> /\ (at' = at \/ at' = "core")
    BY <1>13 DEF Reject, Accept, Finish, EndContext, Die, Caller, Deliver, Reply, StreamEnds, Disconnect,
                Here, vars, frameVars, profileVars, handlerVars
  <2> QED BY <1>1, <2>1
<1> QED
  BY <1>3, <1>4, <1>5, <1>6, <1>7, <1>8, <1>9, <1>10, <1>11, <1>12, <1>13
     DEF Next, Daemon, Handle, Outside, HandlerStep

\* What is sent and told.
ToldInv ==
  /\ transport \in Transports /\ told \in {"nothing", "pass", "fail", "error"}
  /\ \A i \in DOMAIN sent : sent[i].ev \in {"start", "stage", "artifact", "done"}
  /\ ctx \in {"live", "over"}

\* An event of the dispatch itself.
LEMMA EmitKeepsEvents ==
  ASSUME ToldInv, HasSeqType(sent), NEW kind \in {"start", "done"}, NEW ok, Emit(kind, ok)
  PROVE  \A i \in DOMAIN sent' : sent'[i].ev \in {"start", "stage", "artifact", "done"}
<1> DEFINE e == Event(kind, <<NoName, NoName>>, ok)
<1>1. e.ev = kind /\ (sent' = sent \/ sent' = Append(sent, e))
  BY DEF Emit, Event
<1> HIDE DEF e
<1>2. CASE sent' = Append(sent, e)
  <2>1. /\ DOMAIN sent' = 1 .. Len(sent) + 1 /\ sent'[Len(sent) + 1] = e
        /\ \A i \in DOMAIN sent : sent'[i] = sent[i]
        /\ Len(sent) \in Nat /\ DOMAIN sent = 1 .. Len(sent)
    BY <1>2, AppendsEvent
  <2>2. \A i \in DOMAIN sent' : i \in DOMAIN sent \/ i = Len(sent) + 1
    BY <2>1
  <2> QED BY <1>1, <2>1, <2>2 DEF ToldInv
<1> QED
  BY <1>1, <1>2 DEF ToldInv

\* Every step.
LEMMA ToldStep == ToldInv /\ PromiseInv /\ [Next]_vars => ToldInv'
<1> SUFFICES ASSUME ToldInv, PromiseInv, [Next]_vars PROVE ToldInv'
  OBVIOUS
<1>1. CASE Accept \/ Finish
  <2>1. UNCHANGED <<transport, told, ctx>>
    BY <1>1 DEF Accept, Finish
  <2>2. \E ok : Emit("start", ok) \/ Emit("done", ok)
    BY <1>1 DEF Accept, Finish
  <2> QED BY <2>1, <2>2, EmitKeepsEvents DEF ToldInv, PromiseInv
<1>2. CASE Handle \/ Outside
  <2>1. UNCHANGED <<transport, told>> /\ (HandlerStep \/ OutsideStep)
    BY <1>2 DEF Handle, Outside, callVars
  <2>2. Sends
    BY <2>1, HandlerSends DEF PromiseInv
  <2>3. ctx' = ctx
    BY <2>1 DEF HandlerStep, OutsideStep, NewCore, BeginProfile, InProfile, EndProfile, StartAdapter, AskList,
           GotList, AskScenario, GotReport, RunInBrowser, Compare, EndCompare, EnsureDevServer, OpenPage, SweepCases,
           Shoot, UsePage, Unwind, LetGo, frameVars, ProfileStep, EnterNested, LeaveNested, BeginStage,
           RunCommand, Build, HoldOutput, EnsureServer, OpenBrowser, Click, Eval, PageErrors, ConsoleErrors,
           Sweep, StageCleanUp, ReportStage
  <2> QED BY <2>1, <2>2, <2>3 DEF ToldInv, Sends
<1>3. CASE Die
  <2>1. UNCHANGED <<transport, told, ctx>>
    BY <1>3 DEF Die
  <2> PICK S : sent \in Seq(S)
    BY DEF PromiseInv, HasSeqType
  <2>2. \A i \in DOMAIN sent' : i \in DOMAIN sent /\ sent'[i] = sent[i]
    <3>1. CASE sent' = sent
      BY <3>1
    <3>2. ASSUME NEW n \in read .. Len(sent), sent' = SubSeq(sent, 1, n)
          PROVE  \A i \in DOMAIN sent' : i \in DOMAIN sent /\ sent'[i] = sent[i]
      <4>1. n \in Nat /\ n <= Len(sent)
        BY DEF PromiseInv
      <4> QED BY <3>2, <4>1
    <3> QED BY <1>3, <3>1, <3>2 DEF Die
  <2> QED BY <2>1, <2>2 DEF ToldInv
<1>4. CASE Reject \/ EndContext \/ UNCHANGED vars \/ Deliver \/ Disconnect
  BY <1>4 DEF Reject, EndContext, Deliver, Disconnect, Here, vars, frameVars, callVars, ToldInv
<1>5. CASE Reply \/ StreamEnds
  <2>1. UNCHANGED <<transport, sent, ctx>> /\ told' \in {"pass", "fail", "error"}
    BY <1>5 DEF Reply, StreamEnds, Here, frameVars, PromiseInv
  <2> QED BY <2>1 DEF ToldInv
<1> QED
  BY <1>1, <1>2, <1>3, <1>4, <1>5 DEF Next, Daemon, Caller

\* All that holds always, together.
CallInv ==
  CleanupInv /\ LateInv /\ PromiseInv /\ AnswerInv /\ FramesInv /\ LinesInv /\ HandInv /\ DepthInv /\ ToldInv

\* What holds always keeps holding.
LEMMA CallStep == CallInv /\ [Next]_vars => CallInv'
  BY CleanupStep, LateStep, PromiseStep, AnswerStep, FramesStep, LinesStep, HandStep, DepthStep, ToldStep
     DEF CallInv

\* It holds at first, and so always.
LEMMA CallAlways == Spec => []CallInv
<1>1. Init => FramesInv /\ LinesInv /\ HandInv /\ DepthInv /\ ToldInv /\ LateInv /\ AnswerInv
  <2> SUFFICES ASSUME Init PROVE FramesInv /\ LinesInv /\ HandInv /\ DepthInv /\ ToldInv /\ LateInv /\ AnswerInv
    OBVIOUS
  <2>1. PICK req \in Requests : HandlerInit(req)
    BY DEF Init
  <2>2. HasSeqType(<<>>)
    <3>1. <<>> \in Seq({})
      OBVIOUS
    <3> QED BY <3>1 DEF HasSeqType
  <2>3. FramesInv
    BY <2>1 DEF HandlerInit, ProfileInit, FramesInv, Steps
  <2>4. AnswerInv
    <3>1. /\ child = "none" /\ asks = <<>> /\ lines = <<>> /\ calls = 0 /\ strays = 0
          /\ broken = FALSE /\ reading = FALSE /\ ~answer.ok
      BY <2>1 DEF HandlerInit, AdapterInit, NoAnswer
    <3> QED BY <2>2, <3>1 DEF AnswerInv, AnswersBelong
  <2>5. LinesInv
    BY <2>1, AdapterAssumption DEF HandlerInit, AdapterInit, NoAnswer, Line, LinesInv, Bodies
  <2>6. HandInv
    BY <2>1, <2>2 DEF HandlerInit, FrameInit, HandInv
  <2>7. DepthInv /\ LateInv
    <3>1. defers = <<>> /\ at = "idle" /\ ~late /\ ~outcome /\ {outcome, late} \subseteq BOOLEAN
      BY <2>1 DEF HandlerInit, FrameInit, ProfileInit
    <3>2. DepthInv
      BY <3>1 DEF DepthInv
    <3>3. LateInv
      BY <3>1 DEF LateInv
    <3> QED BY <3>2, <3>3
  <2>8. ToldInv
    BY <2>1 DEF Init, HandlerInit, FrameInit, ToldInv
  <2> QED BY <2>3, <2>4, <2>5, <2>6, <2>7, <2>8
<1> QED
  BY <1>1, CallStep, CleanupInit, PromiseInit, PTL DEF Spec, CallInv

\* The variables of a call have the types they are meant to have: what the handlers in ops.go
\* hold, record and emit, how deep a profile is nested, and what the adapter's child prints.
THEOREM TypeCorrect == Spec => []TypeOK
<1>1. CallInv => TypeOK
  <2> SUFFICES ASSUME CallInv PROVE TypeOK
    OBVIOUS
  <2>1. defers \in BoundedSeq(Things, 3)
    <3>1. defers \in Seq(Things)
      BY DEF CallInv, CleanupInv, DefersHold
    <3>2. Len(defers) \in 0 .. 3
      BY DEF CallInv, DepthInv
    <3>3. defers \in [1 .. Len(defers) -> Things]
      BY <3>1
    <3> QED BY <3>2, <3>3 DEF BoundedSeq, SeqOf
  <2>2. /\ \A i \in DOMAIN frames :
             /\ frames[i].profile \in DOMAIN Profiles
             /\ frames[i].at \in 1 .. Len(Profiles[frames[i].profile]) + 1
        /\ step \in Steps
    <3>1. /\ \A i \in DOMAIN frames : InBounds(frames[i])
          /\ frames \in Seq(Frames) /\ step \in Steps
      BY DEF CallInv, FramesInv
    <3>2. \A i \in DOMAIN frames : frames[i] \in Frames
      BY <3>1
    <3>3. \A frame \in Frames : frame.profile \in DOMAIN Profiles
      BY DEF Frames
    <3> QED BY <3>1, <3>2, <3>3 DEF InBounds
  <2>3. /\ \A i \in DOMAIN results : results[i].ok \in BOOLEAN
        /\ request \in Requests /\ \A i \in DOMAIN pending : pending[i] \in Scenarios
        /\ {headless, inBrowser} \subseteq Reports \cup {EmptyReport}
    BY DEF CallInv, HandInv
  <2>4. /\ {outcome, late} \subseteq BOOLEAN /\ {broken, reading} \subseteq BOOLEAN
    BY DEF CallInv, LateInv, AnswerInv
  <2>5. /\ child \in {"none", "running", "exited", "killed"}
        /\ \A i \in DOMAIN asks : asks[i].what \in {"list", "run"} /\ asks[i].call \in 1 .. calls
        /\ \A i \in DOMAIN lines : lines[i].to \in 0 .. calls /\ lines[i].body \in Bodies
        /\ strays \in 0 .. MaxStray
    BY DEF CallInv, LinesInv
  <2>6. /\ verdict \in {"none", "pass", "fail"} /\ decided \in {"none", "pass", "fail"}
        /\ phase \in {"asked", "rejected", "running", "ended", "dead"} /\ read \in Nat
    BY DEF CallInv, PromiseInv
  <2>7. /\ transport \in Transports /\ told \in {"nothing", "pass", "fail", "error"}
        /\ \A i \in DOMAIN sent : sent[i].ev \in {"start", "stage", "artifact", "done"}
        /\ ctx \in {"live", "over"} /\ up \subseteq Things
    BY DEF CallInv, ToldInv, CleanupInv, DefersHold
  <2> QED BY <2>1, <2>2, <2>3, <2>4, <2>5, <2>6, <2>7 DEF TypeOK
<1> QED
  BY <1>1, CallAlways, PTL

------------------------------------------------------------------------------
\* Whenever a comparison is made, it passes exactly if the two reports agree, provided that
\* no report has two checks of one name; if one has, it may pass only if the headless report
\* covers the other (scenario.go: Match, CompareAll).
THEOREM ComparisonsMeanAgreement == Spec => MatchIsAgreement
<1> DEFINE Compared ==
      at = "compare" /\ Len(results') > Len(results) =>
        /\ Last(results').ok => Covers(headless, inBrowser)
        /\ NamesAreUnique(headless.checks) /\ NamesAreUnique(inBrowser.checks)
             => (Last(results').ok <=> Agree(headless, inBrowser))
<1>1. CallInv /\ [Next]_vars => [Compared]_vars
  <2> SUFFICES ASSUME CallInv, Next, at = "compare", Len(results') > Len(results)
               PROVE  Compared
    BY DEF Compared
  <2>1. results' # results
    <3>1. Len(results) \in Nat
      BY DEF CallInv, HandInv, HasSeqType
    <3> QED BY <3>1
  <2>2. Compare
    <3>1. HandlerStep \/ OutsideStep
      BY <2>1 DEF Next, Daemon, Caller, Reject, Accept, Finish, EndContext, Die, Handle, Outside,
                  Deliver, Reply, StreamEnds, Disconnect, Here, frameVars
    <3>2. ~OutsideStep
      BY <2>1 DEF OutsideStep, LetGo, frameVars
    <3> QED
      BY <2>1, <3>1, <3>2 DEF HandlerStep, NewCore, BeginProfile, InProfile, EndProfile, StartAdapter, AskList,
           GotList, AskScenario, GotReport, RunInBrowser, EndCompare, EnsureDevServer, OpenPage,
           SweepCases, Shoot, UsePage, Unwind, Differs, Step, Fail, Return, frameVars
  <2>3. Last(results').ok = Match(headless, inBrowser)
    <3>1. Match(headless, inBrowser) \in BOOLEAN
      BY DEF Match
    <3>2. Report(<<NoName, Head(pending)>>, Match(headless, inBrowser))
      BY <2>2 DEF Compare
    <3> QED BY <3>1, <3>2, ReportKeepsResults DEF CallInv
  <2>4. HasSeqType(headless.checks) /\ HasSeqType(inBrowser.checks)
    BY ReportsAssumption DEF CallInv, HandInv, HasSeqType
  <2>5. NamesAreUnique(headless.checks) /\ NamesAreUnique(inBrowser.checks)
          => (Match(headless, inBrowser) <=> Agree(headless, inBrowser))
    BY <2>4, MatchMeansAgreement
  <2>6. Match(headless, inBrowser) => Covers(headless, inBrowser)
    BY MatchCovers
  <2> QED BY <2>3, <2>5, <2>6 DEF Compared
<1> QED
  BY <1>1, CallAlways, PTL DEF Spec, MatchIsAgreement

------------------------------------------------------------------------------
(* What is left of a profile                                               *)

\* A place in a profile: whether it is past the end, the stage there, the place after it, and
\* the beginning of the profile that the stage refers to.
Over(f) == f.at > Len(Profiles[f.profile])
StageAt(f) == Profiles[f.profile][f.at]
Onward(f) == [f EXCEPT !.at = @ + 1]
Inside(f) == Frame(StageAt(f).uses, StageAt(f).name)
Uses(f) == StageAt(f).mode = "uses"

\* Any set of numbers has a smallest.
LEMMA Smallest ==
  ASSUME NEW T, T \subseteq Nat, T # {}
  PROVE  \E n \in T : \A m \in T : n <= m
<1> DEFINE R == { ss \in Nat \X Nat : ss[1] < ss[2] }
<1>1. IsWellFoundedOn(R, Nat)
  BY NatLessThanWellFounded DEF OpToRel
<1>2. PICK n \in T : \A m \in T : ~ (<<m, n>> \in R)
  <2> HIDE DEF R
  <2> QED BY <1>1, WFMin
<1>3. \A m \in T : ~(m < n)
  BY <1>2
<1> QED
  BY <1>3

\* A profile leads into no cycle exactly if none of those it refers to does.
LEMMA GroundedMeans ==
  ASSUME NEW p \in DOMAIN Profiles
  PROVE  p \in Grounded <=> Refers(p) \subseteq Grounded
<1>0. Refers(p) \subseteq DOMAIN Profiles
  BY ProfilesAssumption DEF Refers
<1>1. ASSUME p \in Grounded, NEW r \in Refers(p) PROVE r \in Grounded
  <2> SUFFICES ASSUME NEW S \in SUBSET DOMAIN Profiles, r \in S
               PROVE  \E q \in S : Refers(q) \cap S = {}
    BY <1>0 DEF Grounded
  <2>1. PICK q \in S \cup {p} : Refers(q) \cap (S \cup {p}) = {}
    BY <1>1 DEF Grounded
  <2>2. q # p
    BY <2>1, <1>1
  <2> QED BY <2>1, <2>2
<1>2. ASSUME Refers(p) \subseteq Grounded PROVE p \in Grounded
  <2> SUFFICES ASSUME NEW S \in SUBSET DOMAIN Profiles, p \in S
               PROVE  \E q \in S : Refers(q) \cap S = {}
    BY DEF Grounded
  <2>1. CASE Refers(p) \cap S = {}
    BY <2>1
  <2>2. ASSUME NEW r \in Refers(p), r \in S PROVE \E q \in S : Refers(q) \cap S = {}
    BY <1>2, <2>2 DEF Grounded
  <2> QED BY <2>1, <2>2
<1> QED
  BY <1>1, <1>2

\* From a place in a profile the run ends exactly if it does from the next one, and in the
\* profile referred to if there is one.
LEMMA EndingMeans ==
  ASSUME NEW f \in Frames, ~Over(f)
  PROVE  /\ f.at \in DOMAIN Profiles[f.profile]
         /\ Onward(f) \in Frames
         /\ Uses(f) => Inside(f) \in Frames
         /\ f \in Ending <=> Onward(f) \in Ending /\ (Uses(f) => Inside(f) \in Ending)
<1> DEFINE p == f.profile
<1>1. p \in DOMAIN Profiles /\ DOMAIN Profiles[p] = 1 .. Len(Profiles[p]) /\ Len(Profiles[p]) \in Nat
      /\ f.at \in Nat \ {0} /\ f.via \in {NoName} \cup StageNames
  BY ProfilesAssumption DEF Frames
<1>2. f.at \in DOMAIN Profiles[p]
  BY <1>1 DEF Over
<1>3. Onward(f) \in Frames /\ Onward(f).profile = p /\ Onward(f).at = f.at + 1
  BY <1>1 DEF Onward, Frames
<1>4. StageAt(f).name \in StageNames
  BY <1>1, <1>2 DEF StageNames, StageAt
<1>5. ASSUME Uses(f)
      PROVE  /\ StageAt(f).uses \in DOMAIN Profiles
             /\ Inside(f) \in Frames /\ Inside(f).profile = StageAt(f).uses /\ Inside(f).at = 1
  <2>1. StageAt(f).uses \in DOMAIN Profiles
    BY <1>1, <1>2, <1>5, ProfilesAssumption DEF StageAt, Uses
  <2> QED BY <1>4, <2>1 DEF Inside, Frame, Frames
<1>6. ASSUME Uses(f) PROVE Inside(f) \in Ending <=> StageAt(f).uses \in Grounded
  <2> DEFINE q == StageAt(f).uses
  <2>1. /\ q \in DOMAIN Profiles /\ DOMAIN Profiles[q] = 1 .. Len(Profiles[q]) /\ Len(Profiles[q]) \in Nat
        /\ Inside(f) \in Frames /\ Inside(f).profile = q /\ Inside(f).at = 1
    BY <1>5, <1>6, ProfilesAssumption
  <2>2. q \in Grounded <=> Refers(q) \subseteq Grounded
    BY <2>1, GroundedMeans
  <2> HIDE DEF q
  <2>3. Inside(f) \in Ending <=> \A i \in 1 .. Len(Profiles[q]) : Profiles[q][i].mode = "uses" => Profiles[q][i].uses \in Grounded
    BY <2>1 DEF Ending
  <2>4. Refers(q) \subseteq Grounded <=> \A i \in 1 .. Len(Profiles[q]) : Profiles[q][i].mode = "uses" => Profiles[q][i].uses \in Grounded
    BY <2>1 DEF Refers
  <2> QED BY <2>2, <2>3, <2>4 DEF q
<1>7. f \in Ending <=> \A i \in f.at .. Len(Profiles[p]) : Profiles[p][i].mode = "uses" => Profiles[p][i].uses \in Grounded
  BY DEF Ending
<1>8. Onward(f) \in Ending <=> \A i \in f.at + 1 .. Len(Profiles[p]) : Profiles[p][i].mode = "uses" => Profiles[p][i].uses \in Grounded
  BY <1>3 DEF Ending
<1>9. f.at .. Len(Profiles[p]) = {f.at} \cup (f.at + 1 .. Len(Profiles[p]))
  BY <1>1, <1>2
<1>10. f \in Ending <=> Onward(f) \in Ending /\ (Uses(f) => StageAt(f).uses \in Grounded)
  BY <1>7, <1>8, <1>9 DEF Uses, StageAt
<1> QED
  BY <1>2, <1>3, <1>5, <1>6, <1>10

\* What holds at a place as soon as it holds at the next one and inside holds everywhere.
LEMMA EndingInduction ==
  ASSUME NEW C,
         \A f \in Ending : Over(f) \/ (Onward(f) \in C /\ (Uses(f) => Inside(f) \in C)) => f \in C
  PROVE  Ending \subseteq C
<1> DEFINE Bad == Ending \ C
           Togo(f) == Len(Profiles[f.profile]) + 1 - f.at
<1>1. ASSUME NEW f \in Bad
      PROVE  \E g \in Bad : g.profile = f.profile /\ Uses(g) /\ ~Over(g) /\ Inside(g) \in Bad
  <2> DEFINE In == { g \in Bad : g.profile = f.profile }
             T == { Togo(g) : g \in In }
  <2>0. Len(Profiles[f.profile]) \in Nat
    BY ProfilesAssumption DEF Ending, Frames
  <2>1. \A g \in In : Togo(g) \in Nat \ {0} /\ ~Over(g) /\ g \in Frames /\ g.at \in Nat
    <3> SUFFICES ASSUME NEW g \in In PROVE Togo(g) \in Nat \ {0} /\ ~Over(g) /\ g \in Frames /\ g.at \in Nat
      OBVIOUS
    <3>1. g \in Ending /\ g \in Frames /\ g.at \in Nat /\ g.profile = f.profile
      BY DEF Ending, Frames
    <3>2. ~Over(g)
      BY <3>1
    <3> QED BY <2>0, <3>1, <3>2 DEF Over
  <2>2. PICK n \in T : \A m \in T : n <= m
    <3>1. T \subseteq Nat
      BY <2>1
    <3>2. T # {}
      <4>1. f \in In
        OBVIOUS
      <4> QED BY <4>1
    <3> HIDE DEF T
    <3> QED BY <3>1, <3>2, Smallest
  <2>3. PICK g \in In : Togo(g) = n
    OBVIOUS
  <2>4. Onward(g).profile = f.profile /\ Onward(g).at = g.at + 1 /\ Onward(g) \in Frames
    <3>1. g \in Frames /\ g.profile = f.profile
      BY <2>1
    <3> QED BY <3>1 DEF Onward, Frames
  <2>5. Onward(g) \notin Bad
    <3> SUFFICES ASSUME Onward(g) \in Bad PROVE FALSE
      OBVIOUS
    <3>1. Onward(g) \in In
      BY <2>4
    <3>2. Togo(g) <= Togo(Onward(g))
      <4>1. Togo(Onward(g)) \in T
        BY <3>1
      <4> QED BY <2>2, <2>3, <4>1
    <3>3. Togo(Onward(g)) = Togo(g) - 1
      <4>1. g.profile = f.profile /\ g.at \in Nat
        BY <2>1, <2>3
      <4> QED BY <2>0, <2>4, <4>1
    <3> QED BY <2>1, <2>3, <3>2, <3>3
  <2>6. Onward(g) \in Ending /\ (Uses(g) => Inside(g) \in Ending)
    BY <2>1, EndingMeans
  <2> QED
    BY <2>1, <2>5, <2>6
<1>2. SUFFICES ASSUME NEW f \in Bad PROVE FALSE
  OBVIOUS
<1> DEFINE S == { q \in DOMAIN Profiles : \E g \in Bad : g.profile = q }
<1>3. ASSUME NEW g \in Bad, Uses(g), ~Over(g), Inside(g) \in Bad
      PROVE  /\ StageAt(g).uses \in S /\ StageAt(g).uses \in Refers(g.profile)
             /\ g.profile \in DOMAIN Profiles /\ StageAt(g).uses \in Grounded
  <2>1. g \in Frames /\ g.profile \in DOMAIN Profiles /\ g.at \in DOMAIN Profiles[g.profile]
    BY <1>3, EndingMeans DEF Ending, Frames
  <2>2. Inside(g).profile = StageAt(g).uses /\ Inside(g) \in Frames
    BY <1>3 DEF Inside, Frame, Ending
  <2>3. StageAt(g).uses \in DOMAIN Profiles
    BY <2>2 DEF Frames
  <2>4. StageAt(g).uses \in Refers(g.profile)
    BY <1>3, <2>1 DEF Refers, StageAt, Uses
  <2>5. StageAt(g).uses \in Grounded
    <3>1. g.at \in g.at .. Len(Profiles[g.profile])
      BY <1>3, <2>1, ProfilesAssumption DEF Over
    <3> QED BY <1>3, <3>1 DEF Ending, Uses, StageAt
  <2> QED BY <1>3, <2>1, <2>2, <2>3, <2>4, <2>5
<1>4. PICK g \in Bad : Uses(g) /\ ~Over(g) /\ Inside(g) \in Bad
  BY <1>1, <1>2
<1>5. PICK q \in S : Refers(q) \cap S = {}
  <2>1. StageAt(g).uses \in S /\ StageAt(g).uses \in Grounded
    BY <1>3, <1>4
  <2> HIDE DEF S
  <2>2. S \subseteq DOMAIN Profiles
    BY DEF S
  <2> QED BY <2>1, <2>2 DEF Grounded
<1>6. PICK h \in Bad : h.profile = q
  OBVIOUS
<1>7. PICK i \in Bad : i.profile = q /\ Uses(i) /\ ~Over(i) /\ Inside(i) \in Bad
  BY <1>1, <1>6
<1> QED
  BY <1>3, <1>5, <1>7

\* The names that outcomes of a profile have; that of the stage at a place, for itself; and
\* sequences of names put together.
Names == ({NoName} \cup StageNames) \X StageNames
NameLists == Seq(Names)
NameAt(f) == <<<<f.via, StageAt(f).name>>>>
Joined(s, t) == s \o t

\* What is left at a place, if L is what is left at the next ones, or may be, if R is a relation.
LeftStep(L, f) ==
  IF Over(f) THEN <<>> ELSE Joined(IF Uses(f) THEN L[Inside(f)] ELSE NameAt(f), L[Onward(f)])
Relations == [Ending -> SUBSET NameLists]
Follows(R, f, list) ==
  \/ Over(f) /\ list = <<>>
  \/ /\ ~Over(f)
     /\ \E t \in R[Onward(f)] :
          \/ ~Uses(f) /\ list = Joined(NameAt(f), t)
          \/ Uses(f) /\ \E s \in R[Inside(f)] : list = Joined(s, t)
Closed(R) == \A f \in Ending : \A list \in NameLists : Follows(R, f, list) => list \in R[f]
Least == [f \in Ending |-> { list \in NameLists : \A R \in Relations : Closed(R) => list \in R[f] }]

\* Lists of names are lists of names.
LEMMA NameListsType ==
  /\ <<>> \in NameLists
  /\ \A s, t \in NameLists : Joined(s, t) \in NameLists
  /\ \A f \in Ending : ~Over(f) =>
       NameAt(f) \in NameLists /\ Onward(f) \in Ending /\ (Uses(f) => Inside(f) \in Ending)
<1>1. <<>> \in NameLists /\ \A s, t \in NameLists : Joined(s, t) \in NameLists
  BY DEF NameLists, Joined
<1>2. ASSUME NEW f \in Ending, ~Over(f)
      PROVE  NameAt(f) \in NameLists /\ Onward(f) \in Ending /\ (Uses(f) => Inside(f) \in Ending)
  <2>1. f \in Frames /\ f.at \in DOMAIN Profiles[f.profile] /\ Onward(f) \in Ending /\ (Uses(f) => Inside(f) \in Ending)
    BY <1>2, EndingMeans DEF Ending
  <2>2. <<f.via, StageAt(f).name>> \in Names
    BY <2>1 DEF Names, StageNames, StageAt, Frames
  <2>3. NameAt(f) \in NameLists
    BY <2>2 DEF NameAt, NameLists
  <2> QED BY <2>1, <2>3
<1> QED
  BY <1>1, <1>2

\* What follows is a list of names, and more follows from more.
LEMMA FollowsMore ==
  ASSUME NEW R \in Relations, NEW f \in Ending, NEW list, Follows(R, f, list)
  PROVE  /\ list \in NameLists
         /\ \A Q \in Relations : (\A g \in Ending : R[g] \subseteq Q[g]) => Follows(Q, f, list)
<1>1. CASE Over(f)
  BY <1>1, NameListsType DEF Follows
<1>2. CASE ~Over(f)
  <2>1. Onward(f) \in Ending /\ (Uses(f) => Inside(f) \in Ending) /\ NameAt(f) \in NameLists
    BY <1>2, NameListsType
  <2>2. list \in NameLists
    BY <1>2, <2>1, NameListsType DEF Follows, Relations
  <2> QED BY <1>2, <2>1, <2>2 DEF Follows
<1> QED
  BY <1>1, <1>2

\* The least relation contains exactly what follows from it.
LEMMA LeastIsExact ==
  /\ Least \in Relations
  /\ \A f \in Ending : \A list : list \in Least[f] <=> Follows(Least, f, list)
<1>1. Least \in Relations
  BY DEF Least, Relations
<1>2. ASSUME NEW R \in Relations, Closed(R), NEW f \in Ending PROVE Least[f] \subseteq R[f]
  BY <1>2 DEF Least
<1>3. ASSUME NEW f \in Ending, NEW list, Follows(Least, f, list) PROVE list \in Least[f]
  <2>1. list \in NameLists
    BY <1>1, <1>3, FollowsMore
  <2>2. ASSUME NEW R \in Relations, Closed(R) PROVE list \in R[f]
    <3>1. \A g \in Ending : Least[g] \subseteq R[g]
      BY <1>2, <2>2
    <3>2. Follows(R, f, list)
      BY <1>1, <1>3, <3>1, FollowsMore
    <3> QED BY <2>1, <2>2, <3>2 DEF Closed
  <2> QED BY <2>1, <2>2 DEF Least
<1> DEFINE R == [f \in Ending |-> { list \in NameLists : Follows(Least, f, list) }]
<1>4. R \in Relations
  BY DEF Relations
<1>5. \A f \in Ending : \A list : list \in R[f] <=> Follows(Least, f, list)
  BY <1>1, FollowsMore
<1> HIDE DEF R
<1>6. Closed(R)
  <2> SUFFICES ASSUME NEW f \in Ending, NEW list, Follows(R, f, list) PROVE list \in R[f]
    BY DEF Closed
  <2>1. \A g \in Ending : R[g] \subseteq Least[g]
    BY <1>3, <1>5
  <2>2. Follows(Least, f, list)
    BY <1>1, <1>4, <2>1, FollowsMore
  <2> QED BY <1>5, <2>2
<1>7. \A f \in Ending : Least[f] \subseteq R[f]
  BY <1>2, <1>4, <1>6
<1> QED
  BY <1>1, <1>3, <1>5, <1>7

\* And at each place it contains one list.
LEMMA LeastIsOne == \A f \in Ending : \E s \in NameLists : Least[f] = {s}
<1> DEFINE C == { f \in Ending : \E s \in NameLists : Least[f] = {s} }
<1>1. ASSUME NEW f \in Ending, Over(f) \/ (Onward(f) \in C /\ (Uses(f) => Inside(f) \in C))
      PROVE  f \in C
  <2> SUFFICES \E s \in NameLists : \A list : Follows(Least, f, list) <=> list = s
    BY LeastIsExact
  <2>1. CASE Over(f)
    BY <2>1, NameListsType DEF Follows
  <2>2. CASE ~Over(f)
    <3>1. PICK t \in NameLists : Least[Onward(f)] = {t}
      BY <1>1, <2>2
    <3>2. CASE Uses(f)
      <4>1. PICK s \in NameLists : Least[Inside(f)] = {s}
        BY <1>1, <2>2, <3>2
      <4> QED BY <2>2, <3>1, <3>2, <4>1, NameListsType DEF Follows
    <3>3. CASE ~Uses(f)
      BY <2>2, <3>1, <3>3, NameListsType DEF Follows
    <3> QED BY <3>2, <3>3
  <2> QED BY <2>1, <2>2
<1> HIDE DEF C
<1>2. Ending \subseteq C
  BY <1>1, EndingInduction
<1> QED
  BY <1>2 DEF C

\* What is left at a place is what its definition says: there is such a function.
LEMMA LeftMeans ==
  \A f \in Ending : Left[f] \in NameLists /\ Left[f] = LeftStep(Left, f)
<1>1. Left = CHOOSE L : L = [f \in Ending |-> LeftStep(L, f)]
  BY DEF Left, LeftStep, Over, Uses, StageAt, Inside, Onward, NameAt, Joined
<1> DEFINE L == [f \in Ending |-> CHOOSE s : s \in Least[f]]
<1>2. \A f \in Ending : L[f] \in NameLists /\ \A list : list \in Least[f] <=> list = L[f]
  BY LeastIsOne
<1>3. \A f \in Ending : L[f] = LeftStep(L, f)
  <2> SUFFICES ASSUME NEW f \in Ending PROVE L[f] = LeftStep(L, f)
    OBVIOUS
  <2> HIDE DEF L
  <2>1. Follows(Least, f, L[f])
    BY <1>2, LeastIsExact
  <2>2. CASE Over(f)
    BY <2>1, <2>2 DEF Follows, LeftStep
  <2>3. CASE ~Over(f)
    <3>1. Onward(f) \in Ending /\ (Uses(f) => Inside(f) \in Ending)
      BY <2>3, NameListsType
    <3> QED BY <1>2, <2>1, <2>3, <3>1 DEF Follows, LeftStep
  <2> QED BY <2>2, <2>3
<1>4. L = [f \in Ending |-> LeftStep(L, f)]
  BY <1>3
<1> HIDE DEF L
<1>5. Left = [f \in Ending |-> LeftStep(Left, f)]
  BY <1>1, <1>4
<1> DEFINE C == { f \in Ending : Left[f] \in NameLists }
<1>6. ASSUME NEW f \in Ending, Over(f) \/ (Onward(f) \in C /\ (Uses(f) => Inside(f) \in C))
      PROVE  f \in C
  <2>1. Left[f] = LeftStep(Left, f)
    BY <1>5
  <2>2. CASE Over(f)
    BY <2>1, <2>2, NameListsType DEF LeftStep
  <2>3. CASE ~Over(f)
    BY <1>6, <2>1, <2>3, NameListsType DEF LeftStep
  <2> QED BY <2>2, <2>3
<1> HIDE DEF C
<1>7. Ending \subseteq C
  BY <1>6, EndingInduction
<1> QED
  BY <1>5, <1>7 DEF C

------------------------------------------------------------------------------
(* Where the handler is, and what it has recorded                          *)

\* An outcome has a name and says whether it is well.
IsOutcome(r) == r = [name |-> r.name, ok |-> r.ok]

\* Where the handler of which operation can be, and what it has recorded by then.
PlaceInv ==
  /\ at \in {"idle", "core", "manifest"} => results = <<>>
  /\ at \in {"manifest", "profile"} => Asked("profile.run")
  /\ Asked("profile.run") => at \in {"idle", "core", "manifest", "profile", "unwind"}
  /\ Asked("visual.shot") => at \in {"idle", "core", "ensure", "open", "page", "unwind"} /\ results = <<>>
  /\ at = "compare" => Asked("scenario.compare")
  /\ results # <<>> => at \in {"profile", "unwind"} \/ Asked("scenario.compare")
  /\ verdict # "none" => at = "unwind"
  /\ \A i \in DOMAIN results : IsOutcome(results[i])

\* An outcome is recorded, and emitted.
LEMMA ReportAdds ==
  ASSUME HasSeqType(results), HasSeqType(sent), NEW name, NEW ok, Report(name, ok)
  PROVE  /\ Len(results) \in Nat /\ DOMAIN results = 1 .. Len(results)
         /\ Len(results') = Len(results) + 1 /\ DOMAIN results' = 1 .. Len(results) + 1
         /\ \A i \in 1 .. Len(results) : results'[i] = results[i]
         /\ results'[Len(results) + 1] = [name |-> name, ok |-> ok]
         /\ \A i \in DOMAIN results' : i \in 1 .. Len(results) \/ i = Len(results) + 1
         /\ IsOutcome(results'[Len(results) + 1])
         /\ Len(sent) \in Nat /\ DOMAIN sent = 1 .. Len(sent)
         /\ Len(sent') = Len(sent) + 1 /\ DOMAIN sent' = 1 .. Len(sent) + 1
         /\ \A i \in 1 .. Len(sent) : sent'[i] = sent[i]
         /\ sent'[Len(sent) + 1] = StageEvent(results'[Len(results) + 1])
         /\ HasSeqType(results') /\ HasSeqType(sent')
<1> DEFINE r == [name |-> name, ok |-> ok]
           e == StageEvent(r)
<1>1. results' = Append(results, r) /\ sent' = Append(sent, e)
  BY DEF Report
<1>2. r = [name |-> name, ok |-> ok]
  OBVIOUS
<1>3. e = StageEvent(r) /\ IsOutcome(r)
  BY DEF IsOutcome
<1> HIDE DEF r, e
<1>4. /\ HasSeqType(results') /\ DOMAIN results' = 1 .. Len(results) + 1
      /\ Len(results') = Len(results) + 1 /\ Len(results) \in Nat /\ DOMAIN results = 1 .. Len(results)
      /\ \A i \in DOMAIN results : results'[i] = results[i]
      /\ results'[Len(results) + 1] = r
  BY <1>1, AppendsEvent
<1>5. /\ HasSeqType(sent') /\ DOMAIN sent' = 1 .. Len(sent) + 1
      /\ Len(sent') = Len(sent) + 1 /\ Len(sent) \in Nat /\ DOMAIN sent = 1 .. Len(sent)
      /\ \A i \in DOMAIN sent : sent'[i] = sent[i]
      /\ sent'[Len(sent) + 1] = e
  BY <1>1, AppendsEvent
<1>6. \A i \in DOMAIN results' : i \in 1 .. Len(results) \/ i = Len(results) + 1
  BY <1>4
<1> QED
  BY <1>2, <1>3, <1>4, <1>5, <1>6

\* Only these steps of a handler record or emit anything.
LEMMA WhoReports ==
  ASSUME HandlerStep \/ OutsideStep, at = "compare" => Asked("scenario.compare")
  PROVE  \/ UNCHANGED <<results, sent>>
         \/ InProfile /\ ReportStage
         \/ /\ Asked("scenario.compare") /\ at' = "scenario" /\ pending' = Tail(pending)
            /\ at \in {"headless", "inBrowser", "compare"} /\ UNCHANGED <<request, verdict>>
            /\ \E ok : Report(<<NoName, Head(pending)>>, ok)
         \/ SweepCases
         \/ Shoot
<1>1. CASE InProfile
  BY <1>1 DEF InProfile, ProfileStep, EnterNested, LeaveNested, BeginStage, RunCommand, Build, HoldOutput,
              EnsureServer, OpenBrowser, Click, Eval, PageErrors, ConsoleErrors, Sweep, StageCleanUp
<1>2. CASE GotReport \/ RunInBrowser \/ Compare
  BY <1>2 DEF GotReport, RunInBrowser, Compare, Differs, Step
<1>3. CASE SweepCases \/ Shoot
  BY <1>3
<1>4. ASSUME HandlerStep, ~InProfile, ~SweepCases, ~Shoot, ~GotReport, ~RunInBrowser, ~Compare
      PROVE  UNCHANGED <<results, sent>>
  BY <1>4 DEF HandlerStep, NewCore, BeginProfile, EndProfile, StartAdapter, AskList, GotList, AskScenario,
              EndCompare, EnsureDevServer, OpenPage, UsePage, Unwind, frameVars
<1>5. CASE OutsideStep
  BY <1>5 DEF OutsideStep, LetGo, frameVars
<1> QED
  BY <1>1, <1>2, <1>3, <1>4, <1>5

\* Lines printed unasked are counted.
LEMMA StraysGrow == [Next]_vars => strays' \in {strays, strays + 1}
<1> SUFFICES ASSUME [Next]_vars PROVE strays' \in {strays, strays + 1}
  OBVIOUS
<1>1. CASE ReadStep \/ ChildStep \/ Taken \/ StartChild \/ CloseChild \/ UNCHANGED adapterVars
  BY <1>1 DEF ReadStep, ReadLine, ReadEnd, ReadTimeout, ChildStep, ChildAnswers, ChildStrays, ChildExits, Taken,
              StartChild, CloseChild, adapterVars
<1>2. ASSUME NEW what, Ask(what) PROVE strays' = strays
  BY <1>2 DEF Ask
<1>3. ASSUME HandlerStep PROVE \/ ReadStep \/ Taken \/ StartChild \/ CloseChild \/ UNCHANGED adapterVars
                               \/ \E what : Ask(what)
  BY <1>3 DEF HandlerStep, NewCore, BeginProfile, InProfile, EndProfile, StartAdapter, AskList, GotList, AskScenario,
              GotReport, RunInBrowser, Compare, EndCompare, EnsureDevServer, OpenPage, SweepCases, Shoot, UsePage, Unwind
<1>4. ASSUME ~HandlerStep PROVE ChildStep \/ UNCHANGED adapterVars
  BY <1>4 DEF Next, Daemon, Handle, Outside, OutsideStep, Reject, Accept, Finish, EndContext, Die, Caller, Deliver,
              Reply, StreamEnds, Disconnect, Here, vars
<1> QED
  BY <1>1, <1>2, <1>3, <1>4

\* Where the handler goes.
LEMMA WhereTo ==
  ASSUME HandlerStep \/ OutsideStep
  PROVE  /\ request' = request
         /\ \/ at' = at /\ verdict' = verdict
            \/ at' = "unwind" /\ verdict' \in {"pass", "fail"}
            \/ /\ verdict' = verdict
               /\ \/ at = "core" /\ at' = "manifest" /\ Asked("profile.run")
                  \/ at = "core" /\ at' = "adapter" /\ UsesAdapter
                  \/ at = "core" /\ at' = "ensure" /\ ~Asked("profile.run")
                  \/ at = "manifest" /\ at' = "profile"
                  \/ at = "adapter" /\ at' \in {"scenario", "list", "ensure"}
                  \/ at = "list" /\ at' = "listing"
                  \/ at = "listing" /\ at' = "ensure"
                  \/ at = "scenario" /\ at' = "headless"
                  \/ at = "headless" /\ at' \in {"scenario", "inBrowser"}
                  \/ at = "inBrowser" /\ at' = "scenario"
                  \/ at = "inBrowser" /\ at' = "compare" /\ Asked("scenario.compare")
                  \/ at = "compare" /\ at' = "scenario"
                  \/ at = "ensure" /\ at' = "open"
                  \/ at = "open" /\ at' = "scenario" /\ Asked("scenario.compare")
                  \/ at = "open" /\ at' = "inBrowser" /\ Asked("scenario.run")
                  \/ at = "open" /\ at' = "page"
<1>1. CASE NewCore \/ BeginProfile \/ InProfile \/ EndProfile
  BY <1>1 DEF NewCore, BeginProfile, InProfile, EndProfile, Step, Fail, Return, handlerVars
<1>2. CASE StartAdapter \/ AskList \/ GotList \/ AskScenario
  BY <1>2 DEF StartAdapter, AskList, GotList, AskScenario, Step, Fail, Return
<1>3. CASE GotReport \/ RunInBrowser \/ Compare \/ EndCompare
  BY <1>3 DEF GotReport, RunInBrowser, Compare, EndCompare, Differs, Step, Fail, Return
<1>4. CASE EnsureDevServer \/ OpenPage
  BY <1>4 DEF EnsureDevServer, OpenPage, Step, Fail, Return
<1>5. CASE SweepCases \/ Shoot \/ UsePage
  BY <1>5 DEF SweepCases, Shoot, UsePage, Fail, Return
<1>6. CASE Unwind \/ OutsideStep \/ (ReadStep /\ UNCHANGED <<frameVars, profileVars, handlerVars>>)
  BY <1>6 DEF Unwind, OutsideStep, handlerVars
<1> QED
  BY <1>1, <1>2, <1>3, <1>4, <1>5, <1>6 DEF HandlerStep

\* Two sequences put together.
LEMMA Concats ==
  ASSUME NEW s, HasSeqType(s), NEW t, HasSeqType(t)
  PROVE  /\ HasSeqType(Joined(s, t)) /\ Len(s) \in Nat /\ Len(t) \in Nat /\ Len(Joined(s, t)) = Len(s) + Len(t)
         /\ \A i \in 1 .. Len(s) : Joined(s, t)[i] = s[i]
         /\ \A i \in 1 .. Len(t) : Joined(s, t)[Len(s) + i] = t[i]
<1>1. PICK S : s \in Seq(S)
  BY DEF HasSeqType
<1>2. PICK T : t \in Seq(T)
  BY DEF HasSeqType
<1>3. PICK U : U = S \cup T
  OBVIOUS
<1>4. s \in Seq(U) /\ t \in Seq(U)
  BY <1>1, <1>2, <1>3
<1>5. Joined(s, t) \in Seq(U) /\ Len(s) \in Nat /\ Len(t) \in Nat /\ Len(Joined(s, t)) = Len(s) + Len(t)
  BY <1>4 DEF Joined
<1>6. \A i \in 1 .. Len(s) : Joined(s, t)[i] = s[i]
  BY <1>4 DEF Joined
<1>7. ASSUME NEW i \in 1 .. Len(t) PROVE Joined(s, t)[Len(s) + i] = t[i]
  <2>1. Len(s) + i \in 1 .. Len(s) + Len(t) /\ ~(Len(s) + i <= Len(s)) /\ Len(s) + i - Len(s) = i
    BY <1>5
  <2> QED BY <1>4, <2>1, ConcatProperties DEF Joined
<1> QED
  BY <1>5, <1>6, <1>7 DEF HasSeqType

\* A handler that has returned stays where it is.
LEMMA LeavesOnce ==
  ASSUME HandlerStep \/ OutsideStep, at = "unwind"
  PROVE  at' = at /\ verdict' = verdict
<1>1. ~(NewCore \/ BeginProfile \/ InProfile \/ EndProfile \/ StartAdapter \/ AskList \/ GotList \/ AskScenario)
  BY DEF NewCore, BeginProfile, InProfile, EndProfile, StartAdapter, AskList, GotList, AskScenario, Step, Fail, Return
<1>2. ~(GotReport \/ RunInBrowser \/ Compare \/ EndCompare)
  BY DEF GotReport, RunInBrowser, Compare, EndCompare, Differs, Step, Fail, Return
<1>3. ~(EnsureDevServer \/ OpenPage \/ SweepCases \/ Shoot \/ UsePage)
  BY DEF EnsureDevServer, OpenPage, SweepCases, Shoot, UsePage, Step, Fail, Return
<1>4. CASE Unwind \/ OutsideStep \/ (ReadStep /\ UNCHANGED <<frameVars, profileVars, handlerVars>>)
  BY <1>4 DEF Unwind, OutsideStep, handlerVars
<1> QED
  BY <1>1, <1>2, <1>3, <1>4 DEF HandlerStep

\* The cases of a sweep are recorded as they are emitted.
LEMMA SweepReports ==
  ASSUME HasSeqType(sent), SweepCases
  PROVE  /\ Asked("visual.sweep") /\ at = "page" /\ at' = "unwind"
         /\ \/ UNCHANGED <<results, sent>> /\ verdict' = "fail"
            \/ \E n \in Nat :
                 /\ HasSeqType(results') /\ Len(results') = n /\ DOMAIN results' = 1 .. n
                 /\ \A i \in 1 .. n :
                      /\ IsOutcome(results'[i])
                      /\ verdict' = "pass" => results'[i].ok = TRUE
                 /\ HasSeqType(sent') /\ Len(sent') = Len(sent) + n
                 /\ \A i \in 1 .. Len(sent) : sent'[i] = sent[i]
                 /\ \A i \in 1 .. n : sent'[Len(sent) + i] = StageEvent(results'[i])
<1>1. Asked("visual.sweep") /\ at = "page" /\ at' = "unwind"
  BY DEF SweepCases, Fail, Return
<1>2. CASE Fail("page") /\ UNCHANGED <<results, sent>>
  BY <1>1, <1>2 DEF Fail, Return
<1>3. CASE \E oks \in Swept :
          /\ results' = [i \in DOMAIN oks |-> [name |-> <<NoName, i>>, ok |-> oks[i]]]
          /\ sent' = sent \o [i \in DOMAIN oks |-> StageEvent(results'[i])]
          /\ Return("page", \A i \in DOMAIN oks : oks[i])
  <2>1. PICK oks \in Swept :
          /\ results' = [i \in DOMAIN oks |-> [name |-> <<NoName, i>>, ok |-> oks[i]]]
          /\ sent' = sent \o [i \in DOMAIN oks |-> StageEvent(results'[i])]
          /\ Return("page", \A i \in DOMAIN oks : oks[i])
    BY <1>3
  <2>2. PICK n \in 0 .. MaxCases : oks \in [1 .. n -> BOOLEAN]
    BY DEF Swept
  <2>3. n \in Nat /\ DOMAIN oks = 1 .. n
    BY <2>2, CasesAssumption
  <2>4. verdict' = "pass" => \A i \in 1 .. n : oks[i] = TRUE
    <3>1. verdict' = IF \A i \in DOMAIN oks : oks[i] THEN "pass" ELSE "fail"
      BY <2>1 DEF Return
    <3> QED BY <2>2, <2>3, <3>1
  <2>5. \A i \in 1 .. n : results'[i] = [name |-> <<NoName, i>>, ok |-> oks[i]]
    BY <2>1, <2>3
  <2>6. \A i \in 1 .. n : IsOutcome(results'[i]) /\ results'[i].ok = oks[i]
    <3> SUFFICES ASSUME NEW i \in 1 .. n PROVE IsOutcome(results'[i]) /\ results'[i].ok = oks[i]
      OBVIOUS
    <3>1. PICK name : name = <<NoName, i>>
      OBVIOUS
    <3>2. results'[i] = [name |-> name, ok |-> oks[i]]
      BY <2>5, <3>1
    <3> QED BY <3>2 DEF IsOutcome
  <2>7. HasSeqType(results') /\ Len(results') = n /\ DOMAIN results' = 1 .. n
    <3> DEFINE R == { [name |-> <<NoName, i>>, ok |-> oks[i]] : i \in 1 .. n }
    <3>1. results' \in [1 .. n -> R]
      BY <2>1, <2>3
    <3> HIDE DEF R
    <3> QED BY <2>3, <3>1 DEF HasSeqType
  <2> DEFINE tail == [i \in 1 .. n |-> StageEvent(results'[i])]
             E == { StageEvent(results'[i]) : i \in 1 .. n }
  <2>8. sent' = Joined(sent, tail)
    BY <2>1, <2>3 DEF Joined
  <2>9. tail \in [1 .. n -> E] /\ \A i \in 1 .. n : tail[i] = StageEvent(results'[i])
    OBVIOUS
  <2> HIDE DEF tail, E
  <2>10. HasSeqType(tail) /\ Len(tail) = n
    <3>1. tail \in Seq(E) /\ Len(tail) = n
      BY <2>3, <2>9
    <3> QED BY <3>1 DEF HasSeqType
  <2>11. /\ HasSeqType(sent') /\ Len(sent') = Len(sent) + n
         /\ \A i \in 1 .. Len(sent) : sent'[i] = sent[i]
         /\ \A i \in 1 .. n : sent'[Len(sent) + i] = tail[i]
    <3>1. HasSeqType(tail)
      BY <2>10
    <3>2. /\ HasSeqType(Joined(sent, tail)) /\ Len(sent) \in Nat /\ Len(tail) \in Nat
          /\ Len(Joined(sent, tail)) = Len(sent) + Len(tail)
          /\ \A i \in 1 .. Len(sent) : Joined(sent, tail)[i] = sent[i]
          /\ \A i \in 1 .. Len(tail) : Joined(sent, tail)[Len(sent) + i] = tail[i]
      BY <3>1, Concats
    <3> QED BY <2>8, <2>10, <3>2
  <2>12. \A i \in 1 .. n : sent'[Len(sent) + i] = StageEvent(results'[i])
    BY <2>9, <2>11
  <2>13. \A i \in 1 .. n : IsOutcome(results'[i]) /\ (verdict' = "pass" => results'[i].ok = TRUE)
    BY <2>4, <2>6
  <2> QED BY <1>1, <2>3, <2>7, <2>11, <2>12, <2>13
<1> QED
  BY <1>1, <1>2, <1>3 DEF SweepCases

\* Every step.
LEMMA PlaceStep == PlaceInv /\ CallInv /\ [Next]_vars => PlaceInv'
<1> SUFFICES ASSUME PlaceInv, CallInv, [Next]_vars PROVE PlaceInv'
  OBVIOUS
<1>0. HasSeqType(results) /\ HasSeqType(sent)
  BY DEF CallInv, HandInv, PromiseInv
<1>1. CASE HandlerStep \/ OutsideStep
  <2>1. CASE UNCHANGED <<results, sent>>
    BY <1>1, <2>1, WhereTo DEF PlaceInv, Asked, UsesAdapter
  <2>2. CASE InProfile /\ ReportStage
    <3>1. at = "profile" /\ UNCHANGED <<request, at, verdict>>
      BY <2>2 DEF InProfile, handlerVars
    <3>2. Report(<<Top.via, Current.name>>, outcome)
      BY <2>2 DEF ReportStage
    <3>3. \A i \in DOMAIN results' : IsOutcome(results'[i])
      BY <1>0, <3>2, ReportAdds DEF PlaceInv
    <3> QED BY <3>1, <3>3 DEF PlaceInv, Asked
  <2>3. ASSUME Asked("scenario.compare"), at' = "scenario", UNCHANGED <<request, verdict>>,
               at \in {"headless", "inBrowser", "compare"},
               NEW ok, Report(<<NoName, Head(pending)>>, ok)
        PROVE  PlaceInv'
    <3>1. \A i \in DOMAIN results' : IsOutcome(results'[i])
      BY <1>0, <2>3, ReportAdds DEF PlaceInv
    <3> QED BY <2>3, <3>1 DEF PlaceInv, Asked
  <2>4. CASE SweepCases
    <3>1. request' = request
      BY <2>4 DEF SweepCases, Fail, Return
    <3> QED BY <1>0, <2>4, <3>1, SweepReports DEF PlaceInv, Asked
  <2>5. CASE Shoot
    BY <2>5 DEF Shoot, Fail, Return, PlaceInv, Asked
  <2> QED BY <1>1, <2>1, <2>2, <2>3, <2>4, <2>5, WhoReports DEF PlaceInv
<1>2. CASE Accept
  <2>1. at = "idle" /\ at' = "core" /\ UNCHANGED <<results, request, verdict>>
    BY <1>2 DEF Accept, CallInv, PromiseInv
  <2> QED BY <2>1 DEF PlaceInv, Asked
<1>3. CASE Reject \/ Finish \/ EndContext \/ Die \/ Caller \/ UNCHANGED vars
  <2>1. UNCHANGED <<at, results, request, verdict>>
    BY <1>3 DEF Reject, Finish, EndContext, Die, Caller, Deliver, Reply, StreamEnds, Disconnect, Here,
                vars, frameVars, handlerVars
  <2> QED BY <2>1 DEF PlaceInv, Asked
<1> QED
  BY <1>1, <1>2, <1>3 DEF Next, Daemon, Handle, Outside

\* Only these steps of a handler end in success.
LEMMA WhoPasses ==
  ASSUME HandlerStep \/ OutsideStep, verdict' = "pass"
  PROVE  \/ verdict = "pass"
         \/ at = "profile" /\ ProfileDone /\ AllPassed /\ UNCHANGED <<results, strays>>
         \/ at = "scenario" /\ pending = <<>> /\ AllPassed /\ UNCHANGED <<results, strays>>
         \/ Asked("scenario.list") /\ at = "listing" /\ UNCHANGED results
         \/ Asked("scenario.run") /\ at \in {"headless", "inBrowser"} /\ UNCHANGED results
         \/ SweepCases
         \/ Shoot /\ sent' = Append(sent, Picture)
         \/ Asked("page") /\ at = "page" /\ UNCHANGED results
<1>0. /\ "fail" # "pass"
      /\ \A from : Fail(from) => verdict' = "fail"
      /\ \A from, ok : Return(from, ok) => at = from /\ (verdict' = "pass" => ok)
  BY DEF Fail, Return
<1>1. ASSUME NewCore \/ BeginProfile \/ InProfile \/ StartAdapter \/ AskList PROVE verdict = "pass"
  BY <1>0, <1>1 DEF NewCore, BeginProfile, InProfile, StartAdapter, AskList, Step, handlerVars
<1>2. ASSUME AskScenario \/ Compare \/ EnsureDevServer \/ OpenPage \/ Unwind PROVE verdict = "pass"
  BY <1>0, <1>2 DEF AskScenario, Compare, EnsureDevServer, OpenPage, Unwind, Step, handlerVars
<1>3. CASE EndProfile
  BY <1>0, <1>3 DEF EndProfile, frameVars, adapterVars
<1>4. CASE EndCompare
  BY <1>0, <1>4 DEF EndCompare, frameVars, adapterVars
<1>5. CASE GotList
  BY <1>0, <1>5 DEF GotList, Step, frameVars
<1>6. CASE GotReport
  BY <1>0, <1>6 DEF GotReport, Differs, Step
<1>7. CASE RunInBrowser
  BY <1>0, <1>7 DEF RunInBrowser, Differs, Step
<1>8. CASE SweepCases
  BY <1>8
<1>9. CASE Shoot
  BY <1>0, <1>9 DEF Shoot, Picture
<1>10. CASE UsePage
  BY <1>0, <1>10 DEF UsePage, frameVars
<1>11. ASSUME OutsideStep \/ (ReadStep /\ UNCHANGED <<frameVars, profileVars, handlerVars>>)
       PROVE  verdict = "pass"
  BY <1>11 DEF OutsideStep, handlerVars
<1> QED
  BY <1>1, <1>2, <1>3, <1>4, <1>5, <1>6, <1>7, <1>8, <1>9, <1>10, <1>11 DEF HandlerStep

------------------------------------------------------------------------------
(* What has been sent                                                      *)

\* The events before those of the handler, how many of these there are so far, and which.
Offset == IF transport \in Streams THEN 1 ELSE 0
Total == IF Asked("visual.shot") THEN IF verdict = "pass" THEN 1 ELSE 0 ELSE Len(results)
EventOf(i) == IF Asked("visual.shot") THEN Picture ELSE StageEvent(results[i])

\* What has been sent of a run so far.
SentSoFar ==
  /\ \A i \in 1 .. Offset : sent[i].ev = "start"
  /\ \A i \in 1 .. Total : sent[Offset + i] = EventOf(i)

\* Their numbers and kinds.
LEMMA TotalIs ==
  ASSUME CallInv
  PROVE  /\ Offset \in {0, 1} /\ Total \in Nat /\ Len(sent) \in Nat /\ DOMAIN sent = 1 .. Len(sent)
         /\ Len(results) \in Nat /\ DOMAIN results = 1 .. Len(results)
         /\ \A i : EventOf(i).ev \in {"stage", "artifact"}
<1>1. HasSeqType(results) /\ HasSeqType(sent)
  BY DEF CallInv, HandInv, PromiseInv
<1>2. \A i : EventOf(i).ev \in {"stage", "artifact"}
  BY DEF EventOf, Picture, StageEvent, Event
<1> QED
  BY <1>1, <1>2 DEF Offset, Total, HasSeqType

\* A step of the handler adds to the events what it adds to the outcomes.
LEMMA HandlerGrows ==
  ASSUME PlaceInv, CallInv, UNCHANGED transport, SentSoFar, Len(sent) = Offset + Total,
         HandlerStep \/ OutsideStep
  PROVE  /\ SentSoFar' /\ Len(sent') = Offset' + Total' /\ Total <= Total'
         /\ \A i \in 1 .. Total : EventOf(i)' = EventOf(i)
<1>0. /\ Offset' = Offset /\ Offset \in {0, 1} /\ Total \in Nat /\ Len(sent) \in Nat
      /\ HasSeqType(results) /\ HasSeqType(sent) /\ request' = request
      /\ Len(results) \in Nat
  BY TotalIs, WhereTo DEF Offset, CallInv, HandInv, PromiseInv
<1>1. ASSUME NEW name, NEW ok, Report(name, ok), ~Asked("visual.shot")
      PROVE  /\ SentSoFar' /\ Len(sent') = Offset' + Total' /\ Total <= Total'
             /\ \A i \in 1 .. Total : EventOf(i)' = EventOf(i)
  <2>1. /\ Len(results') = Len(results) + 1 /\ \A i \in 1 .. Len(results) : results'[i] = results[i]
        /\ Len(sent') = Len(sent) + 1 /\ \A i \in 1 .. Len(sent) : sent'[i] = sent[i]
        /\ sent'[Len(sent) + 1] = StageEvent(results'[Len(results) + 1])
    BY <1>0, <1>1, ReportAdds
  <2>2. Total = Len(results) /\ Total' = Len(results) + 1 /\ Len(sent) = Offset + Len(results)
    BY <1>0, <1>1, <2>1 DEF Total, Asked
  <2>3. \A i \in 1 .. Total : EventOf(i)' = EventOf(i)
    BY <1>0, <1>1, <2>1, <2>2 DEF EventOf, Asked
  <2>4. \A i \in 1 .. Offset : sent'[i].ev = "start"
    BY <1>0, <2>1, <2>2 DEF SentSoFar
  <2>5. \A i \in 1 .. Len(results) : sent'[Offset + i] = EventOf(i)'
    BY <1>0, <2>1, <2>2, <2>3 DEF SentSoFar
  <2>6. sent'[Offset + (Len(results) + 1)] = StageEvent(results'[Len(results) + 1])
    BY <1>0, <2>1, <2>2
  <2>7. EventOf(Len(results) + 1)' = EventOf(Len(results) + 1)' /\ \A i : EventOf(i)' = StageEvent(results'[i])
    BY <1>0, <1>1 DEF EventOf, Asked, StageEvent
  <2>8. \A i \in 1 .. Len(results) + 1 : i \in 1 .. Len(results) \/ i = Len(results) + 1
    BY <1>0
  <2>9. \A i \in 1 .. Len(results) + 1 : sent'[Offset + i] = EventOf(i)'
    BY <2>5, <2>6, <2>7, <2>8
  <2> QED BY <1>0, <2>1, <2>2, <2>3, <2>4, <2>9 DEF SentSoFar
<1>2. CASE InProfile /\ ReportStage
  BY <1>1, <1>2 DEF PlaceInv, InProfile, ReportStage, Asked
<1>3. CASE Asked("scenario.compare") /\ \E ok : Report(<<NoName, Head(pending)>>, ok)
  BY <1>1, <1>3 DEF Asked
<1>4. CASE SweepCases /\ ~UNCHANGED <<results, sent>>
  <2>1. ~Asked("visual.shot") /\ results = <<>>
    BY <1>4, SweepReports, <1>0 DEF PlaceInv, Asked
  <2>2. Total = 0 /\ Len(sent) = Offset
    BY <1>0, <2>1 DEF Total
  <2>3. PICK n \in Nat :
           /\ Len(results') = n
           /\ Len(sent') = Len(sent) + n
           /\ \A i \in 1 .. Len(sent) : sent'[i] = sent[i]
           /\ \A i \in 1 .. n : sent'[Len(sent) + i] = StageEvent(results'[i])
    BY <1>0, <1>4, SweepReports
  <2>4. Total' = n /\ \A i : EventOf(i)' = StageEvent(results'[i])
    BY <1>0, <2>1, <2>3 DEF Total, EventOf, Asked, StageEvent
  <2>5. \A i \in 1 .. Offset : sent'[i].ev = "start"
    BY <1>0, <2>2, <2>3 DEF SentSoFar
  <2>6. \A i \in 1 .. n : sent'[Offset + i] = EventOf(i)'
    BY <2>2, <2>3, <2>4
  <2>7. Len(sent') = Offset + n
    BY <1>0, <2>2, <2>3
  <2>8. SentSoFar'
    BY <1>0, <2>4, <2>5, <2>6 DEF SentSoFar
  <2>9. Total <= Total' /\ 1 .. Total = {}
    BY <2>2, <2>4
  <2> QED BY <1>0, <2>4, <2>7, <2>8, <2>9
<1>5. CASE Shoot
  <2>1. Asked("visual.shot") /\ at = "page" /\ verdict = "none"
    BY <1>5 DEF Shoot, Fail, Return, PlaceInv, CallInv, PromiseInv
  <2>2. Total = 0 /\ Len(sent) = Offset /\ \A i : EventOf(i)' = Picture
    BY <1>0, <2>1 DEF Total, EventOf, Asked, Picture
  <2>3. CASE UNCHANGED sent /\ verdict' = "fail"
    BY <1>0, <2>1, <2>2, <2>3 DEF Total, SentSoFar, Asked
  <2>4. CASE sent' = Append(sent, Picture) /\ verdict' = "pass"
    <3>1. /\ Len(sent') = Len(sent) + 1 /\ \A i \in DOMAIN sent : sent'[i] = sent[i]
          /\ DOMAIN sent = 1 .. Len(sent) /\ sent'[Len(sent) + 1] = Picture
      BY <1>0, <2>4, AppendsEvent
    <3>2. Total' = 1
      BY <1>0, <2>1, <2>4 DEF Total, Asked
    <3> QED BY <1>0, <2>2, <3>1, <3>2 DEF SentSoFar
  <2> QED BY <1>5, <2>3, <2>4 DEF Shoot, Fail, Return, Picture
<1>6. CASE UNCHANGED <<results, sent>> /\ ~Shoot
  <2>1. Asked("visual.shot") => (verdict' = "pass" <=> verdict = "pass")
    <3>1. ASSUME Asked("visual.shot"), verdict' = "pass" PROVE verdict = "pass"
      BY <1>6, <3>1, WhoPasses DEF PlaceInv, Asked, SweepCases
    <3>2. ASSUME Asked("visual.shot"), verdict = "pass" PROVE verdict' = "pass"
      <4>1. at = "unwind"
        BY <3>2 DEF PlaceInv
      <4>2. at # "unwind" \/ verdict' = verdict
        BY LeavesOnce
      <4> QED BY <3>2, <4>1, <4>2
    <3> QED BY <3>1, <3>2
  <2>2. Total' = Total /\ \A i : EventOf(i)' = EventOf(i)
    BY <1>0, <1>6, <2>1 DEF Total, EventOf, Asked
  <2> QED BY <1>0, <1>6, <2>2 DEF SentSoFar
<1> QED
  BY <1>2, <1>3, <1>4, <1>5, <1>6, WhoReports DEF PlaceInv

\* The events of the dispatch come before and after those of the handler.
SentInv ==
  /\ phase \in {"asked", "rejected"} => sent = <<>>
  /\ phase \in {"running", "ended"} => SentSoFar
  /\ phase = "running" => Len(sent) = Offset + Total
  /\ phase = "ended" =>
       /\ Len(sent) = Offset + Total + Offset
       /\ \A i \in DOMAIN sent : i > Offset + Total => sent[i].ev = "done"

\* Every step.
LEMMA SentStep == SentInv /\ PlaceInv /\ CallInv /\ [Next]_vars => SentInv'
<1> SUFFICES ASSUME SentInv, PlaceInv, CallInv, [Next]_vars PROVE SentInv'
  OBVIOUS
<1>0. /\ Offset \in {0, 1} /\ Total \in Nat /\ Len(sent) \in Nat /\ DOMAIN sent = 1 .. Len(sent)
      /\ HasSeqType(sent)
  BY TotalIs DEF CallInv, PromiseInv
<1>1. CASE Handle \/ Outside
  <2>1. /\ phase = "running" /\ phase' = "running" /\ transport' = transport /\ (HandlerStep \/ OutsideStep)
    BY <1>1 DEF Handle, Outside, callVars
  <2> QED BY <2>1, HandlerGrows DEF SentInv
<1>2. CASE Accept
  <2>1. /\ phase = "asked" /\ phase' = "running" /\ sent = <<>> /\ at = "idle"
        /\ UNCHANGED <<transport, request, results, verdict>> /\ Emit("start", TRUE)
    BY <1>2 DEF Accept, SentInv, CallInv, PromiseInv
  <2>2. results = <<>> /\ verdict = "none"
    BY <2>1 DEF PlaceInv, CallInv, PromiseInv
  <2>3. Total' = 0 /\ Offset' = Offset
    BY <2>1, <2>2 DEF Total, Offset, Asked
  <2>4. CASE transport \notin Streams
    <3>1. sent' = <<>> /\ Offset = 0
      BY <2>1, <2>4 DEF Emit, Offset
    <3> QED BY <2>1, <2>3, <3>1 DEF SentInv, SentSoFar
  <2>5. CASE transport \in Streams
    <3> DEFINE e == Event("start", <<NoName, NoName>>, TRUE)
    <3>1. sent' = Append(sent, e) /\ Offset = 1 /\ e.ev = "start"
      BY <2>1, <2>5 DEF Emit, Offset, Event
    <3> HIDE DEF e
    <3>2. Len(sent') = 1 /\ sent'[1] = e
      BY <2>1, <3>1
    <3> QED BY <2>1, <2>3, <3>1, <3>2 DEF SentInv, SentSoFar
  <2> QED BY <2>4, <2>5
<1>3. CASE Finish
  <2>1. /\ phase = "running" /\ phase' = "ended" /\ SentSoFar /\ Len(sent) = Offset + Total
        /\ UNCHANGED <<transport, request, results, verdict>> /\ Emit("done", decided' = "pass")
    BY <1>3 DEF Finish, SentInv, handlerVars
  <2>2. Total' = Total /\ Offset' = Offset /\ \A i : EventOf(i)' = EventOf(i)
    BY <2>1 DEF Total, Offset, Asked, EventOf
  <2>3. CASE transport \notin Streams
    <3>1. sent' = sent /\ Offset = 0
      BY <2>1, <2>3 DEF Emit, Offset
    <3> QED BY <1>0, <2>1, <2>2, <3>1 DEF SentInv, SentSoFar
  <2>4. CASE transport \in Streams
    <3> DEFINE e == Event("done", <<NoName, NoName>>, decided' = "pass")
    <3>1. sent' = Append(sent, e) /\ Offset = 1 /\ e.ev = "done"
      BY <2>1, <2>4 DEF Emit, Offset, Event
    <3> HIDE DEF e
    <3>2. /\ Len(sent') = Len(sent) + 1 /\ DOMAIN sent' = 1 .. Len(sent) + 1 /\ sent'[Len(sent) + 1] = e
          /\ \A i \in DOMAIN sent : sent'[i] = sent[i]
      BY <1>0, <3>1, AppendsEvent
    <3>3. SentSoFar'
      <4>1. \A i \in 1 .. Offset : i \in 1 .. Len(sent)
        BY <1>0, <2>1
      <4>2. \A i \in 1 .. Total : Offset + i \in 1 .. Len(sent)
        BY <1>0, <2>1
      <4>3. \A i \in 1 .. Len(sent) : sent'[i] = sent[i]
        BY <1>0, <3>2
      <4>4. \A i \in 1 .. Offset : sent'[i].ev = "start"
        BY <2>1, <4>1, <4>3 DEF SentSoFar
      <4>5. \A i \in 1 .. Total : sent'[Offset + i] = EventOf(i)
        BY <2>1, <4>2, <4>3 DEF SentSoFar
      <4> QED BY <2>2, <4>4, <4>5 DEF SentSoFar
    <3>4. \A i \in DOMAIN sent' : i > Offset + Total => sent'[i].ev = "done"
      <4>1. \A i \in 1 .. Len(sent) + 1 : i > Len(sent) => i = Len(sent) + 1
        BY <1>0
      <4> QED BY <2>1, <3>1, <3>2, <4>1
    <3> QED BY <1>0, <2>1, <2>2, <3>1, <3>2, <3>3, <3>4 DEF SentInv
  <2> QED BY <2>3, <2>4
<1>4. CASE Die
  BY <1>4 DEF Die, SentInv
<1>5. CASE Reject
  BY <1>5 DEF Reject, SentInv, frameVars
<1>6. CASE EndContext \/ Caller \/ UNCHANGED vars
  <2>1. UNCHANGED <<sent, phase, transport, request, results, verdict>>
    BY <1>6 DEF EndContext, Caller, Deliver, Reply, StreamEnds, Disconnect, Here,
                vars, frameVars, handlerVars, callVars
  <2>2. Total' = Total /\ Offset' = Offset /\ \A i : EventOf(i)' = EventOf(i)
    BY <2>1 DEF Total, Offset, Asked, EventOf
  <2> QED BY <2>1, <2>2 DEF SentInv, SentSoFar
<1> QED
  BY <1>1, <1>2, <1>3, <1>4, <1>5, <1>6 DEF Next, Daemon

------------------------------------------------------------------------------
(* What has been shown                                                     *)

\* How many events of the handler have reached the caller's side, and which of them the caller
\* has been shown.
Seen == IF read <= Offset THEN 0 ELSE IF read - Offset <= Total THEN read - Offset ELSE Total
Before(gaps, i) == { gap \in gaps : gap < i }
ShownTo(m, gaps) ==
  /\ \A gap \in gaps : gap \in 1 .. m /\ transport \in Mcp /\ gap > 1 /\ EventOf(gap) = EventOf(gap - 1)
  /\ Len(shown) = m - Cardinality(gaps)
  /\ \A i \in 1 .. m : i \notin gaps =>
       /\ i - Cardinality(Before(gaps, i)) \in 1 .. Len(shown)
       /\ shown[i - Cardinality(Before(gaps, i))] = EventOf(i)

ShownInv ==
  phase # "dead" =>
    /\ HasSeqType(shown) /\ read <= Len(sent)
    /\ Seen = 0 => shown = <<>>
    /\ Seen # 0 => shown # <<>> /\ Last(shown) = EventOf(Seen)
    /\ \E gaps : ShownTo(Seen, gaps)

\* An event that repeats the one before may be left out.
LEMMA LeftOut ==
  ASSUME NEW m \in Nat \ {0}, NEW gaps, ShownTo(m, gaps), transport \in Mcp, EventOf(m + 1) = EventOf(m)
  PROVE  ShownTo(m + 1, gaps \cup {m + 1})
<1> DEFINE more == gaps \cup {m + 1}
<1>1. gaps \subseteq 1 .. m /\ IsFiniteSet(gaps) /\ m + 1 \notin gaps
  <2>1. gaps \subseteq 1 .. m /\ m + 1 \notin gaps
    BY DEF ShownTo
  <2>2. IsFiniteSet(1 .. m)
    BY FS_Interval
  <2> QED BY <2>1, <2>2, FS_Subset
<1>2. Cardinality(gaps) \in Nat /\ Cardinality(more) = Cardinality(gaps) + 1
  BY <1>1, FS_CardinalityType, FS_AddElement
<1>3. \A i \in 1 .. m : Before(more, i) = Before(gaps, i)
  BY DEF Before
<1>4. Len(shown) = (m + 1) - Cardinality(more)
  BY <1>2 DEF ShownTo
<1>5. \A gap \in more : gap \in 1 .. m + 1 /\ transport \in Mcp /\ gap > 1 /\ EventOf(gap) = EventOf(gap - 1)
  <2>1. (m + 1) - 1 = m /\ m + 1 > 1
    OBVIOUS
  <2> QED BY <1>1, <2>1 DEF ShownTo
<1>6. \A i \in 1 .. m + 1 : i \notin more => i \in 1 .. m /\ i \notin gaps
  OBVIOUS
<1> HIDE DEF more
<1>7. ShownTo(m + 1, more)
  BY <1>3, <1>4, <1>5, <1>6 DEF ShownTo
<1> QED
  BY <1>7 DEF more

\* Or it is shown, like any other.
LEMMA PutIn ==
  ASSUME NEW m \in Nat, NEW gaps, ShownTo(m, gaps), HasSeqType(shown),
         shown' = Append(shown, EventOf(m + 1)), UNCHANGED transport, \A i : EventOf(i)' = EventOf(i)
  PROVE  ShownTo(m + 1, gaps)'
<1>1. gaps \subseteq 1 .. m /\ IsFiniteSet(gaps) /\ Cardinality(gaps) \in Nat
  <2>1. gaps \subseteq 1 .. m
    BY DEF ShownTo
  <2>2. IsFiniteSet(1 .. m)
    BY FS_Interval
  <2>3. IsFiniteSet(gaps)
    BY <2>1, <2>2, FS_Subset
  <2> QED BY <2>1, <2>3, FS_CardinalityType
<1>2. /\ Len(shown') = Len(shown) + 1 /\ Len(shown) \in Nat
      /\ \A i \in 1 .. Len(shown) : shown'[i] = shown[i]
      /\ shown'[Len(shown) + 1] = EventOf(m + 1)
  BY AppendsEvent
<1>3. Len(shown') = (m + 1) - Cardinality(gaps)
  BY <1>1, <1>2 DEF ShownTo
<1>4. Before(gaps, m + 1) = gaps
  <2>1. \A gap \in gaps : gap < m + 1
    BY <1>1
  <2> QED BY <2>1 DEF Before
<1>5. ASSUME NEW i \in 1 .. m + 1, i \notin gaps
      PROVE  /\ i - Cardinality(Before(gaps, i)) \in 1 .. Len(shown')
             /\ shown'[i - Cardinality(Before(gaps, i))] = EventOf(i)'
  <2>1. CASE i = m + 1
    <3>1. i - Cardinality(Before(gaps, i)) = Len(shown) + 1
      BY <1>1, <1>2, <1>3, <1>4, <2>1
    <3> QED BY <1>2, <2>1, <3>1
  <2>2. CASE i \in 1 .. m
    <3>1. /\ i - Cardinality(Before(gaps, i)) \in 1 .. Len(shown)
          /\ shown[i - Cardinality(Before(gaps, i))] = EventOf(i)
      BY <1>5, <2>2 DEF ShownTo
    <3>2. i - Cardinality(Before(gaps, i)) \in 1 .. Len(shown')
      BY <1>2, <3>1
    <3> QED BY <1>2, <3>1, <3>2
  <2> QED BY <2>1, <2>2
<1>6. \A gap \in gaps : gap \in 1 .. m + 1 /\ (transport \in Mcp)' /\ gap > 1 /\ EventOf(gap)' = EventOf(gap - 1)'
  BY <1>1 DEF ShownTo
<1> QED
  BY <1>3, <1>5, <1>6 DEF ShownTo

\* A step that shows nothing.
LEMMA ShownStays ==
  ASSUME ShownInv, phase # "dead", UNCHANGED <<shown, transport>>, Seen' = Seen, (read <= Len(sent))',
         Seen \in Nat, \A i \in 1 .. Seen : EventOf(i)' = EventOf(i)
  PROVE  ShownInv'
<1>1. PICK gaps : ShownTo(Seen, gaps)
  BY DEF ShownInv
<1>2. ShownTo(Seen, gaps)'
  <2>1. \A gap \in gaps : gap > 1 /\ gap \in 1 .. Seen => gap - 1 \in 1 .. Seen
    OBVIOUS
  <2> QED BY <1>1, <2>1 DEF ShownTo
<1> QED
  BY <1>2 DEF ShownInv

\* Every step.
LEMMA ShownStep == ShownInv /\ SentInv /\ PlaceInv /\ CallInv /\ [Next]_vars => ShownInv'
<1> SUFFICES ASSUME ShownInv, SentInv, PlaceInv, CallInv, [Next]_vars, phase' # "dead" PROVE ShownInv'
  BY DEF ShownInv
<1>0. Offset \in {0, 1} /\ Offset \in Nat /\ Total \in Nat /\ Len(sent) \in Nat /\ read \in Nat
  BY TotalIs DEF CallInv, PromiseInv
<1>01. /\ DOMAIN sent = 1 .. Len(sent) /\ HasSeqType(sent) /\ phase # "dead"
       /\ \A i : EventOf(i).ev \in {"stage", "artifact"}
  <2>1. phase # "dead"
    BY DEF Next, Daemon, Reject, Accept, Handle, Outside, Finish, EndContext, Die, Caller, Deliver, Reply,
           StreamEnds, Disconnect, Here, vars, callVars
  <2> QED BY <2>1, TotalIs DEF CallInv, PromiseInv
<1>00. Seen \in Nat /\ read <= Len(sent)
  BY <1>0, <1>01 DEF Seen, ShownInv
<1>1. CASE Handle \/ Outside
  <2>1. /\ phase = "running" /\ UNCHANGED <<transport, read, shown>> /\ (HandlerStep \/ OutsideStep)
    BY <1>1 DEF Handle, Outside, callVars
  <2>2. /\ Len(sent) = Offset + Total /\ Len(sent') = Offset' + Total' /\ Total <= Total' /\ Offset' = Offset
        /\ \A i \in 1 .. Total : EventOf(i)' = EventOf(i)
    BY <2>1, HandlerGrows DEF SentInv, Offset
  <2>3. Total' \in Nat
    <3>1. HasSeqType(results')
      BY CallStep DEF CallInv, HandInv
    <3> QED BY <3>1 DEF Total, HasSeqType
  <2>4. Seen' = Seen /\ (read <= Len(sent))' /\ Seen <= Total
    <3>0. read - Offset <= Total /\ Offset' \in Nat /\ read \in Nat /\ Total \in Nat /\ Total' \in Nat
      BY <1>0, <1>01, <1>00, <2>2, <2>3
    <3>1. read' <= Len(sent')
      <4>1. read' = read /\ read <= Offset + Total
        BY <1>00, <2>1, <2>2
      <4>2. Len(sent') = Offset + Total' /\ Total <= Total'
        BY <2>2
      <4>3. \A r, o, t, u \in Nat : r <= o + t /\ t <= u => r <= o + u
        OBVIOUS
      <4>4. read <= Offset + Total'
        BY <1>0, <3>0, <4>1, <4>2, <4>3
      <4> QED BY <4>1, <4>2, <4>4
    <3>2. Seen = IF read <= Offset THEN 0 ELSE read - Offset
      BY <3>0 DEF Seen
    <3>3. Seen' = IF read <= Offset THEN 0 ELSE read - Offset
      BY <2>1, <2>2, <3>0 DEF Seen
    <3>4. Seen <= Total
      BY <1>0, <1>01, <3>0, <3>2
    <3> QED BY <3>1, <3>2, <3>3, <3>4
  <2> QED BY <1>0, <1>01, <1>00, <2>1, <2>2, <2>4, ShownStays
<1>2. CASE Accept
  <2>1. phase = "asked" /\ read = 0 /\ UNCHANGED <<read, shown, transport>> /\ phase' = "running"
    BY <1>0, <1>01, <1>00, <1>2 DEF Accept, SentInv
  <2>2. Seen = 0 /\ Seen' = 0
    BY <1>0, <1>01, <2>1 DEF Seen, Offset
  <2>3. (read <= Len(sent))'
    <3>1. HasSeqType(sent')
      BY CallStep DEF CallInv, PromiseInv
    <3> QED BY <2>1, <3>1 DEF HasSeqType
  <2> QED BY <1>0, <1>01, <2>1, <2>2, <2>3, ShownStays
<1>3. CASE Finish \/ EndContext \/ Reject \/ Reply \/ StreamEnds \/ Disconnect \/ UNCHANGED vars
  <2>1. UNCHANGED <<read, shown, transport, request, results, verdict>>
    BY <1>3 DEF Finish, EndContext, Reject, Reply, StreamEnds, Disconnect, Here, vars, frameVars,
                handlerVars, callVars
  <2>2. Seen' = Seen /\ \A i : EventOf(i)' = EventOf(i)
    BY <2>1 DEF Seen, Total, Offset, Asked, EventOf
  <2>3. sent' = sent \/ \E e : sent' = Append(sent, e)
    BY <1>3 DEF Finish, Emit, EndContext, Reject, Reply, StreamEnds, Disconnect, Here, vars, frameVars
  <2>4. (read <= Len(sent))'
    <3>1. Len(sent') = Len(sent) \/ Len(sent') = Len(sent) + 1
      BY <1>0, <1>01, <2>3, AppendsEvent
    <3> QED BY <1>0, <1>01, <1>00, <2>1, <3>1
  <2> QED BY <1>0, <1>01, <1>00, <2>1, <2>2, <2>4, ShownStays
<1>4. CASE Deliver
  <2>1. /\ read < Len(sent) /\ read' = read + 1 /\ shown' \in Shown(sent[read + 1])
        /\ UNCHANGED <<transport, request, results, verdict, sent, phase>>
    BY <1>4 DEF Deliver, Here, frameVars, handlerVars
  <2>2. Offset' = Offset /\ Total' = Total /\ \A i : EventOf(i)' = EventOf(i)
    BY <2>1 DEF Total, Offset, Asked, EventOf
  <2>3. phase \in {"running", "ended"}
    <3>1. Len(sent) # 0
      BY <1>0, <1>01, <2>1
    <3>2. sent # <<>>
      BY <3>1
    <3>3. phase \in {"asked", "rejected", "running", "ended", "dead"}
      BY DEF CallInv, PromiseInv
    <3>4. phase \notin {"asked", "rejected"}
      BY <3>2 DEF SentInv
    <3> QED BY <1>01, <3>3, <3>4
  <2>4. (read <= Len(sent))'
    BY <1>0, <1>01, <2>1
  <2>5. CASE read < Offset
    <3>1. sent[read + 1].ev = "start"
      <4>1. read + 1 \in 1 .. Offset
        BY <1>0, <1>01, <2>5
      <4> QED BY <2>3, <4>1 DEF SentInv, SentSoFar
    <3>2. shown' = shown
      BY <2>1, <3>1 DEF Shown
    <3>3. Seen = 0 /\ Seen' = 0
      BY <1>0, <1>01, <2>1, <2>2, <2>5 DEF Seen
    <3> QED BY <1>0, <1>01, <2>1, <2>2, <2>4, <3>2, <3>3, ShownStays
  <2>6. CASE read >= Offset + Total
    <3>1. sent[read + 1].ev = "done"
      <4>1. phase = "ended" /\ read + 1 \in DOMAIN sent /\ read + 1 > Offset + Total
        <5>1. read + 1 \in DOMAIN sent /\ read + 1 > Offset + Total /\ Len(sent) # Offset + Total
          <6>1. read \in Nat /\ Offset \in Nat /\ Total \in Nat /\ Len(sent) \in Nat
            BY <1>0
          <6>2. read < Len(sent) /\ read >= Offset + Total
            BY <2>1, <2>6
          <6>3. read + 1 \in 1 .. Len(sent)
            BY <6>1, <6>2
          <6>4. read + 1 > Offset + Total /\ Len(sent) # Offset + Total
            BY <6>1, <6>2
          <6> QED BY <1>01, <6>3, <6>4
        <5> QED BY <2>3, <5>1 DEF SentInv
      <4> QED BY <4>1 DEF SentInv
    <3>2. shown' = shown
      BY <2>1, <3>1 DEF Shown
    <3>3. Seen = Total /\ Seen' = Total
      BY <1>0, <1>01, <2>1, <2>2, <2>6 DEF Seen
    <3> QED BY <1>0, <1>01, <1>00, <2>1, <2>2, <2>4, <3>2, <3>3, ShownStays
  <2>7. CASE Offset <= read /\ read < Offset + Total
    <3>0. PICK m \in Nat : m = read - Offset
      BY <1>0, <1>01, <2>7
    <3>1. m \in Nat /\ m + 1 \in 1 .. Total /\ read + 1 = Offset + (m + 1)
      BY <1>0, <1>01, <2>7, <3>0
    <3>2. Seen = m /\ Seen' = m + 1
      BY <1>0, <1>01, <2>1, <2>2, <2>7, <3>0 DEF Seen
    <3>3. sent[read + 1] = EventOf(m + 1)
      BY <2>3, <3>1 DEF SentInv, SentSoFar
    <3>4. PICK gaps : ShownTo(m, gaps)
      BY <1>0, <1>01, <3>2 DEF ShownInv
    <3>5. CASE shown' = Append(shown, EventOf(m + 1))
      <4>1. ShownTo(m + 1, gaps)'
        BY <1>0, <1>01, <2>1, <2>2, <3>1, <3>4, <3>5, PutIn DEF ShownInv
      <4>2. HasSeqType(shown') /\ shown' # <<>> /\ Last(shown') = EventOf(m + 1)
        <5>1. /\ HasSeqType(shown') /\ Len(shown') = Len(shown) + 1 /\ Len(shown) \in Nat
              /\ shown'[Len(shown) + 1] = EventOf(m + 1) /\ DOMAIN shown' = 1 .. Len(shown) + 1
          BY <1>0, <1>01, <3>5, AppendsEvent DEF ShownInv
        <5> QED BY <5>1 DEF Last
      <4>3. EventOf(m + 1)' = EventOf(m + 1) /\ m + 1 # 0
        BY <2>2, <3>1
      <4> QED BY <2>4, <3>2, <4>1, <4>2, <4>3 DEF ShownInv
    <3>6. CASE /\ shown' = shown /\ transport \in Mcp /\ shown # <<>> /\ Last(shown) = EventOf(m + 1)
      <4>1. m # 0 /\ EventOf(m) = EventOf(m + 1)
        BY <1>0, <1>01, <3>2, <3>6 DEF ShownInv
      <4>2. ShownTo(m + 1, gaps \cup {m + 1})
        BY <3>1, <3>4, <3>6, <4>1, LeftOut
      <4>3. ShownTo(m + 1, gaps \cup {m + 1})'
        BY <2>1, <2>2, <3>6, <4>2 DEF ShownTo
      <4>4. EventOf(m + 1)' = EventOf(m + 1) /\ m + 1 # 0
        BY <2>2, <3>1
      <4> QED BY <1>0, <1>01, <2>4, <3>2, <3>6, <4>3, <4>4 DEF ShownInv
    <3> QED BY <1>0, <1>01, <2>1, <3>3, <3>5, <3>6 DEF Shown
  <2> QED BY <1>0, <1>01, <2>5, <2>6, <2>7
<1>5. CASE Die
  BY <1>5 DEF Die
<1> QED
  BY <1>1, <1>2, <1>3, <1>4, <1>5 DEF Next, Daemon, Caller

------------------------------------------------------------------------------
(* What is decided and told                                                *)

\* Success is decided only if the handler has had it, and told only after all events.
DecidedInv ==
  /\ decided = "pass" => verdict = "pass"
  /\ told = "pass" => phase = "ended" /\ decided = "pass" /\ (transport # "simple" => read = Len(sent))

\* Every step.
LEMMA DecidedStep == DecidedInv /\ PlaceInv /\ CallInv /\ [Next]_vars => DecidedInv'
<1> SUFFICES ASSUME DecidedInv, PlaceInv, CallInv, [Next]_vars PROVE DecidedInv'
  OBVIOUS
<1>0. PromiseInv
  BY DEF CallInv
<1>1. CASE Handle \/ Outside
  <2>1. /\ phase = "running" /\ (HandlerStep \/ OutsideStep) /\ UNCHANGED <<decided, told>>
    BY <1>1 DEF Handle, Outside, callVars
  <2>2. verdict = "pass" => verdict' = "pass"
    BY <2>1, LeavesOnce DEF PlaceInv
  <2> QED BY <2>1, <2>2 DEF DecidedInv
<1>2. CASE Accept \/ Reject \/ EndContext \/ Die
  <2>1. phase \in {"asked", "running"} /\ UNCHANGED <<verdict, told>> /\ decided' \in {decided, "fail"}
    BY <1>2 DEF Accept, Reject, EndContext, Die, handlerVars, callVars
  <2> QED BY <2>1 DEF DecidedInv
<1>3. CASE Finish
  BY <1>3 DEF Finish, DecidedInv, handlerVars
<1>4. CASE Deliver \/ Disconnect
  BY <1>4 DEF Deliver, Disconnect, Here, DecidedInv, handlerVars
<1>5. CASE Reply
  BY <1>0, <1>5 DEF Reply, Here, DecidedInv, handlerVars, frameVars, PromiseInv, Streams
<1>6. CASE StreamEnds
  <2>1. /\ told = "nothing" /\ read = Len(sent)
        /\ UNCHANGED <<phase, decided, verdict, read, sent, transport>>
    BY <1>6 DEF StreamEnds, Here, handlerVars, frameVars
  <2>2. CASE Dones = {}
    BY <1>6, <2>1, <2>2 DEF StreamEnds, DecidedInv
  <2>3. CASE Dones # {}
    <3>1. Dones = {Len(sent)} /\ phase = "ended" /\ decided \in {"pass", "fail"}
          /\ sent[Len(sent)].ok = (decided = "pass")
      BY <1>0, <2>3 DEF PromiseInv
    <3>2. Len(sent) \in Nat
      BY <1>0 DEF PromiseInv, HasSeqType
    <3>3. Max(Dones) = Len(sent)
      BY <3>1, <3>2 DEF Max
    <3>4. told' = decided
      BY <1>6, <2>3, <3>1, <3>3 DEF StreamEnds
    <3> QED BY <2>1, <3>1, <3>4 DEF DecidedInv
  <2> QED BY <2>2, <2>3
<1>7. CASE UNCHANGED vars
  BY <1>7 DEF vars, callVars, handlerVars, frameVars, DecidedInv
<1> QED
  BY <1>1, <1>2, <1>3, <1>4, <1>5, <1>6, <1>7 DEF Next, Daemon, Caller

------------------------------------------------------------------------------
(* What the child lists                                                    *)

\* Unless the child prints lines nobody asked for, a call for the list gets the list or nothing.
ListInv ==
  /\ at \in {"idle", "core", "adapter", "list"} => ~answer.ok /\ ~reading
  /\ strays = 0 /\ at = "listing" =>
       /\ answer.ok => answer.line.body = Listing
       /\ reading => /\ \A i \in DOMAIN asks : asks[i].what = "list"
                     /\ \A i \in DOMAIN lines : lines[i].body \in {Listing, Junk}

\* A line that is no listing is not taken for one, and the child answers what it is asked.
LEMMA TalkKeepsList ==
  ASSUME ListInv, CallInv, ReadStep \/ ChildStep, UNCHANGED at
  PROVE  ListInv'
<1>0. /\ HasSeqType(asks) /\ HasSeqType(lines) /\ strays \in Nat
      /\ \A i \in DOMAIN lines : lines[i].body \in Bodies
  BY DEF CallInv, AnswerInv, LinesInv
<1>1. CASE ReadLine
  <2>1. /\ reading /\ lines # <<>> /\ strays' = strays /\ ~reading'
        /\ answer' = [call |-> calls, line |-> Head(lines), ok |-> Head(lines).body # Junk]
    BY <1>1 DEF ReadLine
  <2>2. answer'.ok = (lines[1].body # Junk) /\ answer'.line.body = lines[1].body /\ 1 \in DOMAIN lines
    BY <1>0, <2>1 DEF HasSeqType
  <2> QED BY <2>1, <2>2 DEF ListInv
<1>2. CASE ReadEnd \/ ReadTimeout
  <2>1. reading /\ ~reading' /\ ~answer'.ok /\ strays' = strays
    BY <1>2 DEF ReadEnd, ReadTimeout, Failed
  <2> QED BY <2>1 DEF ListInv
<1>3. CASE ChildAnswers
  <2>1. asks # <<>> /\ asks' = Tail(asks) /\ UNCHANGED <<reading, answer, strays>>
    BY <1>3 DEF ChildAnswers
  <2>2. PICK body : /\ lines' = Append(lines, Line(Head(asks).call, body))
                    /\ Head(asks).what = "list" => body \in {Listing, Junk}
    BY <1>3 DEF ChildAnswers
  <2>3. /\ Head(asks) = asks[1] /\ 1 \in DOMAIN asks
        /\ \A i \in DOMAIN asks' : i + 1 \in DOMAIN asks /\ asks'[i] = asks[i + 1]
    BY <1>0, <2>1 DEF HasSeqType
  <2> DEFINE line == Line(Head(asks).call, body)
  <2>4. line.body = body /\ lines' = Append(lines, line)
    BY <2>2 DEF Line
  <2> HIDE DEF line
  <2>5. \A i \in DOMAIN lines' : (i \in DOMAIN lines /\ lines'[i] = lines[i]) \/ lines'[i] = line
    <3>1. /\ DOMAIN lines' = 1 .. Len(lines) + 1 /\ lines'[Len(lines) + 1] = line
          /\ Len(lines) \in Nat /\ DOMAIN lines = 1 .. Len(lines)
          /\ \A i \in DOMAIN lines : lines'[i] = lines[i]
      BY <1>0, <2>4, AppendsEvent
    <3>2. \A i \in DOMAIN lines' : i \in DOMAIN lines \/ i = Len(lines) + 1
      BY <3>1
    <3> QED BY <3>1, <3>2
  <2> QED BY <2>1, <2>2, <2>3, <2>4, <2>5 DEF ListInv
<1>4. CASE ChildStrays
  <2>1. strays' # 0 /\ UNCHANGED <<answer, reading>>
    BY <1>0, <1>4 DEF ChildStrays
  <2> QED BY <2>1 DEF ListInv
<1>5. CASE ChildExits
  <2>1. UNCHANGED <<answer, reading, asks, strays>> /\ (lines' = lines \/ lines' = Append(lines, Line(0, Junk)))
    BY <1>5 DEF ChildExits
  <2>2. CASE lines' = lines
    BY <2>1, <2>2 DEF ListInv
  <2>3. CASE lines' = Append(lines, Line(0, Junk))
    <3> DEFINE line == Line(0, Junk)
    <3>1. line.body = Junk /\ lines' = Append(lines, line)
      BY <2>3 DEF Line
    <3> HIDE DEF line
    <3>2. /\ DOMAIN lines' = 1 .. Len(lines) + 1 /\ lines'[Len(lines) + 1] = line
          /\ Len(lines) \in Nat /\ DOMAIN lines = 1 .. Len(lines)
          /\ \A i \in DOMAIN lines : lines'[i] = lines[i]
      BY <1>0, <3>1, AppendsEvent
    <3>3. \A i \in DOMAIN lines' : (i \in DOMAIN lines /\ lines'[i] = lines[i]) \/ lines'[i] = line
      <4>1. \A i \in DOMAIN lines' : i \in DOMAIN lines \/ i = Len(lines) + 1
        BY <3>2
      <4> QED BY <3>2, <4>1
    <3> QED BY <2>1, <3>1, <3>3 DEF ListInv
  <2> QED BY <2>1, <2>2, <2>3
<1> QED
  BY <1>1, <1>2, <1>3, <1>4, <1>5 DEF ReadStep, ChildStep

\* Every step.
LEMMA ListStep == ListInv /\ CallInv /\ [Next]_vars => ListInv'
<1> SUFFICES ASSUME ListInv, CallInv, [Next]_vars PROVE ListInv'
  OBVIOUS
<1>1. ASSUME UNCHANGED <<answer, reading, asks, lines, strays, at>> PROVE ListInv'
  BY <1>1 DEF ListInv
<1>2. ASSUME at' \notin {"idle", "core", "adapter", "list", "listing"} PROVE ListInv'
  BY <1>2 DEF ListInv
<1>3. ASSUME at' \in {"core", "adapter", "list"}, at \in {"idle", "core", "adapter"}, UNCHANGED <<answer, reading>>
      PROVE  ListInv'
  BY <1>3 DEF ListInv
<1>4. CASE AskList
  <2>1. at = "list" /\ at' = "listing" /\ Ask("list") /\ ~answer.ok /\ strays' = strays
    BY <1>4 DEF AskList, Step, ListInv, Ask
  <2>2. CASE reading' = FALSE /\ ~answer'.ok
    BY <2>1, <2>2 DEF ListInv
  <2>3. CASE /\ ~broken /\ child = "running" /\ ~reading /\ lines' = lines
             /\ asks' = Append(asks, [call |-> calls + 1, what |-> "list"]) /\ answer' = answer
    <3>1. strays = 0 => asks = <<>> /\ lines = <<>>
      BY <2>3 DEF CallInv, AnswerInv
    <3> DEFINE ask == [call |-> calls + 1, what |-> "list"]
    <3>2. ask.what = "list" /\ asks' = Append(asks, ask)
      BY <2>3
    <3> HIDE DEF ask
    <3>3. strays = 0 => DOMAIN asks' = {1} /\ asks'[1] = ask /\ DOMAIN lines' = {}
      BY <2>3, <3>1, <3>2
    <3>4. strays = 0 => \A i \in DOMAIN asks' : asks'[i].what = "list"
      BY <3>2, <3>3
    <3> QED BY <2>1, <2>3, <3>3, <3>4 DEF ListInv
  <2>4. Failed => reading' = FALSE /\ ~answer'.ok
    BY DEF Failed
  <2>5. \/ Failed
        \/ /\ ~broken /\ child = "running" /\ ~reading /\ lines' = lines
           /\ asks' = Append(asks, [call |-> calls + 1, what |-> "list"]) /\ answer' = answer
    BY <2>1, Zenon DEF Ask
  <2> QED BY <2>2, <2>3, <2>4, <2>5
<1>5. CASE NewCore \/ BeginProfile \/ InProfile \/ EndProfile \/ StartAdapter
  <2>1. /\ UNCHANGED <<answer, reading>> \/ at' = "unwind"
        /\ at = "core" \/ at' # "adapter"
        /\ at = "adapter" \/ at' # "list"
        /\ at' \in {"manifest", "adapter", "ensure", "profile", "scenario", "list", "unwind"}
    BY <1>5 DEF NewCore, BeginProfile, InProfile, EndProfile, StartAdapter, StartChild, Step, Fail, Return,
                adapterVars, handlerVars
  <2> QED BY <1>2, <1>3, <2>1
<1>6. ASSUME GotList \/ AskScenario \/ GotReport \/ RunInBrowser \/ Compare \/ EndCompare
      PROVE  at' \notin {"idle", "core", "adapter", "list", "listing"}
  BY <1>6 DEF GotList, AskScenario, GotReport, RunInBrowser, Compare, EndCompare, Differs, Step, Fail, Return
<1>7. ASSUME EnsureDevServer \/ OpenPage \/ SweepCases \/ Shoot \/ UsePage \/ Unwind
      PROVE  at' \notin {"idle", "core", "adapter", "list", "listing"}
  BY <1>7 DEF EnsureDevServer, OpenPage, SweepCases, Shoot, UsePage, Unwind, Step, Fail, Return, handlerVars
<1>8. CASE (ReadStep \/ ChildStep) /\ UNCHANGED handlerVars
  BY <1>8, TalkKeepsList DEF handlerVars
<1>9. CASE Accept
  BY <1>3, <1>9 DEF Accept, adapterVars, CallInv, PromiseInv
<1>10. CASE /\ UNCHANGED <<handlerVars, adapterVars>>
  BY <1>1, <1>10 DEF handlerVars, adapterVars
<1>11. ASSUME Reject \/ Finish \/ EndContext \/ Die \/ Caller \/ UNCHANGED vars
       PROVE  UNCHANGED <<handlerVars, adapterVars>>
  BY <1>11 DEF Reject, Finish, EndContext, Die, Caller, Deliver, Reply, StreamEnds, Disconnect, Here, vars
<1> QED
  BY <1>2, <1>4, <1>5, <1>6, <1>7, <1>8, <1>9, <1>10, <1>11
     DEF Next, Daemon, Handle, Outside, HandlerStep, OutsideStep

------------------------------------------------------------------------------
(* Scenarios compared                                                      *)

\* The scenarios to compare; and what has been compared and what has not, together.
Wanted == IF request.ids = <<>> THEN Catalogue ELSE request.ids
Toward ==
  /\ Len(results) + Len(pending) = Len(Wanted)
  /\ \A i \in DOMAIN results : results[i].name = <<NoName, Wanted[i]>>
  /\ \A i \in DOMAIN pending : pending[i] = Wanted[Len(results) + i]

\* A comparison goes through the scenarios that are asked for, or that the child lists.
CompareInv ==
  Asked("scenario.compare") =>
    /\ at \in {"adapter", "list", "listing"} => results = <<>> /\ pending = request.ids
    /\ at \in {"list", "listing"} => request.ids = <<>>
    /\ strays = 0 /\ at \in {"ensure", "open"} => results = <<>> /\ pending = Wanted
    /\ strays = 0 /\ at \in {"scenario", "headless", "inBrowser", "compare"} => Toward

\* The scenarios are a sequence.
LEMMA WantedIs == CallInv => Wanted \in Seq(Scenarios) /\ pending \in Seq(Scenarios) /\ HasSeqType(results)
  BY CallAssumption, AdapterAssumption DEF CallInv, HandInv, Wanted, Request

\* The next scenario is done with.
LEMMA NextIsToward ==
  ASSUME CallInv, Toward, pending # <<>>, pending' = Tail(pending), UNCHANGED request,
         NEW ok, Report(<<NoName, Head(pending)>>, ok)
  PROVE  Toward'
<1>1. Wanted \in Seq(Scenarios) /\ pending \in Seq(Scenarios) /\ Wanted' = Wanted
  BY WantedIs DEF Wanted
<1>2. /\ Len(results) \in Nat /\ Len(results') = Len(results) + 1
      /\ \A i \in 1 .. Len(results) : results'[i] = results[i]
      /\ \A i \in DOMAIN results' : i \in 1 .. Len(results) \/ i = Len(results) + 1
      /\ DOMAIN results = 1 .. Len(results)
      /\ results'[Len(results) + 1].name = <<NoName, Head(pending)>>
  <2>1. HasSeqType(results) /\ HasSeqType(sent)
    BY DEF CallInv, HandInv, PromiseInv
  <2>2. PICK name : name = <<NoName, Head(pending)>>
    OBVIOUS
  <2>3. Report(name, ok)
    BY <2>2
  <2>4. /\ Len(results) \in Nat /\ Len(results') = Len(results) + 1
        /\ \A i \in 1 .. Len(results) : results'[i] = results[i]
        /\ \A i \in DOMAIN results' : i \in 1 .. Len(results) \/ i = Len(results) + 1
        /\ DOMAIN results = 1 .. Len(results)
        /\ results'[Len(results) + 1] = [name |-> name, ok |-> ok]
    BY <2>1, <2>3, ReportAdds
  <2>5. results'[Len(results) + 1].name = name
    BY <2>4
  <2> QED BY <2>2, <2>4, <2>5
<1>3. /\ Len(pending) \in Nat \ {0} /\ Head(pending) = pending[1] /\ 1 \in DOMAIN pending
      /\ Len(pending') = Len(pending) - 1
      /\ \A i \in DOMAIN pending' : i \in Nat /\ i + 1 \in DOMAIN pending /\ pending'[i] = pending[i + 1]
  BY <1>1
<1>4. Len(results') + Len(pending') = Len(Wanted')
  <2>1. Len(results) + Len(pending) = Len(Wanted)
    BY DEF Toward
  <2> QED BY <1>1, <1>2, <1>3, <2>1
<1>5. \A i \in DOMAIN results' : results'[i].name = <<NoName, Wanted[i]>>
  <2>1. Head(pending) = Wanted[Len(results) + 1]
    BY <1>3 DEF Toward
  <2>2. \A i \in 1 .. Len(results) : results'[i].name = <<NoName, Wanted[i]>>
    BY <1>2 DEF Toward
  <2> QED BY <1>2, <2>1, <2>2
<1>6. \A i \in DOMAIN pending' : pending'[i] = Wanted[Len(results') + i]
  <2> SUFFICES ASSUME NEW i \in DOMAIN pending' PROVE pending'[i] = Wanted[Len(results') + i]
    OBVIOUS
  <2>1. i \in Nat /\ pending'[i] = pending[i + 1] /\ pending[i + 1] = Wanted[Len(results) + (i + 1)]
    BY <1>3 DEF Toward
  <2>2. Len(results) + (i + 1) = Len(results') + i
    BY <1>2, <2>1
  <2> QED BY <2>1, <2>2
<1> QED
  BY <1>1, <1>4, <1>5, <1>6 DEF Toward

\* Every step.
LEMMA CompareStep == CompareInv /\ ListInv /\ PlaceInv /\ CallInv /\ [Next]_vars => CompareInv'
<1> SUFFICES ASSUME CompareInv, ListInv, PlaceInv, CallInv, [Next]_vars, Asked("scenario.compare")'
             PROVE  CompareInv'
  BY DEF CompareInv
<1>0. strays \in Nat /\ strays' \in Nat /\ (strays' = 0 => strays = 0)
  <2>1. strays \in Nat /\ strays' \in Nat
    BY CallStep DEF CallInv, AnswerInv
  <2>2. strays' = strays \/ strays' = strays + 1
    BY StraysGrow
  <2> QED BY <2>1, <2>2
<1>1. ASSUME at' \in {"idle", "core", "manifest", "profile", "page", "unwind"} PROVE CompareInv'
  BY <1>1 DEF CompareInv
<1>2. ASSUME UNCHANGED <<at, results, pending, request>> PROVE CompareInv'
  <2>1. Asked("scenario.compare") /\ Wanted' = Wanted
    BY <1>2 DEF Asked, Wanted
  <2>2. strays = 0 /\ Toward => Toward'
    BY <1>2, <2>1 DEF Toward
  <2> QED BY <1>0, <1>2, <2>1, <2>2 DEF CompareInv
<1>3. ASSUME Asked("scenario.compare"), UNCHANGED request, pending # <<>>, pending' = Tail(pending), at' = "scenario",
             at \in {"headless", "inBrowser", "compare"}, NEW ok, Report(<<NoName, Head(pending)>>, ok)
      PROVE  CompareInv'
  <2>1. strays = 0 => Toward'
    BY <1>3, NextIsToward DEF CompareInv
  <2> QED BY <1>0, <1>3, <2>1 DEF CompareInv
<1>4. ASSUME HandlerStep PROVE Asked("scenario.compare") /\ UNCHANGED request
  BY <1>4, WhereTo DEF Asked
<1>5. CASE NewCore
  <2>1. Asked("scenario.compare") /\ UNCHANGED <<request, results>>
    BY <1>4, <1>5 DEF HandlerStep, NewCore
  <2>2. CASE /\ at = "core" /\ pending' = request.ids /\ at' = "adapter"
    BY <2>1, <2>2 DEF PlaceInv, CompareInv
  <2>3. CASE at' = "unwind"
    BY <1>1, <2>3
  <2> QED BY <1>5, <2>1, <2>2, <2>3 DEF NewCore, Step, Fail, Return, UsesAdapter, Asked
<1>6. CASE StartAdapter
  <2>1. Asked("scenario.compare") /\ UNCHANGED <<request, results>> /\ at = "adapter"
    BY <1>4, <1>6 DEF HandlerStep, StartAdapter, Step, Fail, Return
  <2>2. CASE /\ at' = (IF request.ids = <<>> THEN "list" ELSE "ensure") /\ pending' = pending
    <3>1. Wanted' = Wanted /\ (request.ids # <<>> => Wanted = request.ids)
      BY <2>1 DEF Wanted
    <3> QED BY <2>1, <2>2, <3>1 DEF CompareInv
  <2>3. CASE at' = "unwind"
    BY <1>1, <2>3
  <2> QED BY <1>6, <2>1, <2>2, <2>3 DEF StartAdapter, Step, Fail, Return, Asked
<1>7. CASE AskList
  <2>1. Asked("scenario.compare") /\ UNCHANGED <<request, results, pending>> /\ at = "list" /\ at' = "listing"
    BY <1>4, <1>7 DEF HandlerStep, AskList, Step, frameVars
  <2> QED BY <2>1 DEF CompareInv
<1>8. CASE GotList
  <2>1. Asked("scenario.compare") /\ UNCHANGED <<request, results, strays>> /\ at = "listing"
    BY <1>4, <1>8 DEF HandlerStep, GotList, Step, Fail, Return, frameVars, Taken
  <2>2. CASE answer.ok /\ at' = "ensure" /\ pending' = AsCatalogue(answer.line.body)
    <3>1. strays = 0 => AsCatalogue(answer.line.body) = Catalogue
      BY <2>1, <2>2 DEF ListInv, AsCatalogue, Listing
    <3>2. results = <<>> /\ Wanted' = Catalogue
      BY <2>1 DEF CompareInv, Wanted
    <3> QED BY <2>1, <2>2, <3>1, <3>2 DEF CompareInv
  <2>3. CASE at' = "unwind"
    BY <1>1, <2>3
  <2> QED BY <1>8, <2>1, <2>2, <2>3 DEF GotList, Step, Fail, Return
<1>9. CASE AskScenario
  <2>1. /\ Asked("scenario.compare") /\ UNCHANGED <<request, results, pending, strays>>
        /\ at = "scenario" /\ at' = "headless"
    BY <1>4, <1>9 DEF HandlerStep, AskScenario, Step, frameVars, Ask
  <2>2. Toward => Toward'
    BY <2>1 DEF Toward, Wanted
  <2> QED BY <2>1, <2>2 DEF CompareInv
<1>10. CASE GotReport \/ RunInBrowser \/ Compare
  <2>1. Asked("scenario.compare") /\ UNCHANGED request /\ at \in {"headless", "inBrowser", "compare"} /\ pending # <<>>
    <3>1. at \in {"headless", "inBrowser", "compare"}
      BY <1>10 DEF GotReport, RunInBrowser, Compare, Differs, Step, Fail, Return
    <3> QED BY <1>4, <1>10, <3>1 DEF HandlerStep, CallInv, HandInv
  <2>2. CASE UNCHANGED <<results, pending>> /\ at' \in {"inBrowser", "compare"}
    <3>1. Toward => Toward'
      BY <2>1, <2>2 DEF Toward, Wanted
    <3> QED BY <1>0, <2>1, <2>2, <3>1 DEF CompareInv
  <2>3. ASSUME NEW from, Differs(from) PROVE CompareInv'
    <3>1. pending' = Tail(pending) /\ at' = "scenario" /\ Report(<<NoName, Head(pending)>>, FALSE)
      BY <2>3 DEF Differs, Step
    <3> QED BY <1>3, <2>1, <3>1
  <2>4. CASE Compare
    <3>1. pending' = Tail(pending) /\ at' = "scenario" /\ Report(<<NoName, Head(pending)>>, Match(headless, inBrowser))
      BY <2>4 DEF Compare, Step
    <3> QED BY <1>3, <2>1, <3>1
  <2> QED BY <1>10, <2>1, <2>2, <2>3, <2>4 DEF GotReport, RunInBrowser, Step, Asked
<1>11. CASE EndCompare \/ UsePage \/ Shoot \/ SweepCases
  <2>1. at' = "unwind"
    BY <1>11 DEF EndCompare, UsePage, Shoot, SweepCases, Fail, Return
  <2> QED BY <1>1, <2>1
<1>12. CASE BeginProfile \/ InProfile \/ EndProfile
  <2>1. at' \in {"profile", "unwind"}
    BY <1>12 DEF BeginProfile, InProfile, EndProfile, Step, Fail, Return, handlerVars
  <2> QED BY <1>1, <2>1
<1>13. CASE EnsureDevServer \/ OpenPage
  <2>1. Asked("scenario.compare") /\ UNCHANGED <<request, results>>
    BY <1>4, <1>13 DEF HandlerStep, EnsureDevServer, OpenPage, frameVars
  <2>2. CASE at = "ensure" /\ at' = "open" /\ pending' = pending
    BY <1>0, <2>1, <2>2 DEF CompareInv, Wanted
  <2>3. CASE at = "open" /\ at' = "scenario" /\ pending' = pending
    <3>1. strays = 0 => results = <<>> /\ pending = Wanted
      BY <2>1, <2>3 DEF CompareInv
    <3>2. Len(<<>>) = 0 /\ DOMAIN <<>> = {} /\ \A i \in DOMAIN Wanted : 0 + i = i
      BY WantedIs
    <3>3. strays = 0 => Toward'
      BY <2>1, <2>3, <3>1, <3>2, WantedIs DEF Toward, Wanted
    <3> QED BY <1>0, <2>1, <2>3, <3>3 DEF CompareInv
  <2>4. CASE at' = "unwind"
    BY <1>1, <2>4
  <2> QED BY <1>13, <2>1, <2>2, <2>3, <2>4 DEF EnsureDevServer, OpenPage, Step, Fail, Return, Asked
<1>14. CASE Unwind \/ OutsideStep \/ (ReadStep /\ UNCHANGED <<frameVars, profileVars, handlerVars>>)
  <2>1. CASE at = "unwind" /\ at' = at
    BY <1>1, <2>1
  <2>2. CASE OutsideStep \/ (ReadStep /\ UNCHANGED <<frameVars, profileVars, handlerVars>>)
    <3>1. CASE UNCHANGED <<frameVars, handlerVars>>
      BY <1>2, <3>1 DEF handlerVars, frameVars
    <3>2. CASE at = "profile" /\ UNCHANGED handlerVars
      BY <1>1, <3>2 DEF handlerVars
    <3> QED BY <2>2, <3>1, <3>2 DEF OutsideStep
  <2> QED BY <1>14, <2>1, <2>2 DEF Unwind, handlerVars
<1>15. CASE Accept
  BY <1>1, <1>15 DEF Accept
<1>16. CASE Reject \/ Finish \/ EndContext \/ Die \/ Caller \/ UNCHANGED vars
  <2>1. UNCHANGED <<at, results, pending, request>>
    BY <1>16 DEF Reject, Finish, EndContext, Die, Caller, Deliver, Reply, StreamEnds, Disconnect, Here, vars,
                 frameVars, handlerVars
  <2> QED BY <1>2, <2>1
<1> QED
  BY <1>5, <1>6, <1>7, <1>8, <1>9, <1>10, <1>11, <1>12, <1>13, <1>14, <1>15, <1>16
     DEF Next, Daemon, Handle, Outside, HandlerStep

------------------------------------------------------------------------------
(* Runs of profiles                                                        *)

\* The names of the outcomes so far, and the place where a run of a profile begins.
NamesSoFar == [i \in DOMAIN results |-> results[i].name]
Beginning == Frame(request.profile, NoName)

\* What is left at the innermost place, then at the one around it, and so on.
Stacked(k) ==
  /\ k \in [0 .. Len(frames) -> NameLists] /\ k[0] = <<>>
  /\ \A j \in 1 .. Len(frames) : k[j] = Joined(Left[frames[j]], k[j - 1])

\* What has been run of a profile and what is left of it are the whole.
ProfileInv ==
  at = "profile" =>
    /\ step # "next" => ~Uses(Top)
    /\ NamesSoFar \in NameLists
    /\ (\A j \in DOMAIN frames : frames[j] \in Ending) =>
         Beginning \in Ending /\ \E k : Stacked(k) /\ Joined(NamesSoFar, k[Len(frames)]) = Left[Beginning]

\* Lists of names put together.
LEMMA JoinedFacts ==
  /\ \A s, t, u \in NameLists : Joined(Joined(s, t), u) = Joined(s, Joined(t, u))
  /\ \A s \in NameLists : Joined(<<>>, s) = s /\ Joined(s, <<>>) = s
  BY ConcatAssociative, ConcatEmptySeq DEF Joined, NameLists

\* The last of some numbers, or one before it.
LEMMA LastOrBefore ==
  ASSUME NEW n \in Nat \ {0}
  PROVE  /\ n \in 1 .. n /\ n \in 1 .. n + 1 /\ n + 1 \in 1 .. n + 1
         /\ \A j \in 1 .. n : j = n \/ (j \in 1 .. n - 1 /\ j \in 1 .. n + 1)
         /\ \A j \in 1 .. n + 1 : j = n + 1 \/ j = n \/ j \in 1 .. n - 1
         /\ \A j \in 1 .. n - 1 : j # n /\ j \in 1 .. n /\ j \in 0 .. n - 1 /\ j - 1 \in 0 .. n - 1
  OBVIOUS

\* The innermost place once its stage is behind.
LEMMA AdvancedIs ==
  ASSUME FramesInv, frames # <<>>, ~Exhausted
  PROVE  /\ Advanced \in Seq(Frames) /\ Len(Advanced) = Len(frames) /\ Len(frames) \in Nat \ {0}
         /\ Advanced[Len(frames)] = Onward(Top)
         /\ \A j \in 1 .. Len(frames) - 1 : Advanced[j] = frames[j] /\ j \in DOMAIN frames
         /\ frames[Len(frames)] = Top /\ Top \in Frames /\ ~Over(Top)
         /\ Current = StageAt(Top) /\ <<Top.via, Current.name>> \in Names
<1>1. /\ Len(frames) \in DOMAIN frames /\ Len(frames) \in Nat \ {0} /\ Top \in Frames
      /\ Current.name \in StageNames /\ Advanced \in Seq(Frames) /\ Len(Advanced) = Len(frames)
  BY FramesFacts
<1>2. Top = frames[Len(frames)] /\ DOMAIN frames = 1 .. Len(frames)
  BY DEF Top, FramesInv
<1>3. Advanced = [frames EXCEPT ![Len(frames)] = Onward(Top)]
  BY DEF Advanced, Top, Onward
<1>4. Advanced[Len(frames)] = Onward(Top) /\ \A j \in 1 .. Len(frames) - 1 : Advanced[j] = frames[j] /\ j \in DOMAIN frames
  <2>1. PICK n \in Nat \ {0} : n = Len(frames)
    BY <1>1
  <2>2. PICK next : next = Onward(Top)
    OBVIOUS
  <2>3. n \in 1 .. n /\ \A j \in 1 .. n - 1 : j # n /\ j \in 1 .. n
    BY <2>1, LastOrBefore
  <2>4. DOMAIN frames = 1 .. n /\ Advanced = [frames EXCEPT ![n] = next]
    BY <1>2, <1>3, <2>1, <2>2
  <2>5. Advanced[n] = next /\ \A j \in 1 .. n - 1 : Advanced[j] = frames[j] /\ j \in DOMAIN frames
    BY <2>3, <2>4
  <2> QED BY <2>1, <2>2, <2>5
<1>5. ~Over(Top) /\ Current = StageAt(Top)
  BY DEF Over, Exhausted, Current, StageAt
<1>6. <<Top.via, Current.name>> \in Names
  BY <1>1 DEF Names, Frames
<1> QED
  BY <1>1, <1>2, <1>4, <1>5, <1>6

\* The name of an outcome is added to those before.
LEMMA NamesGrow ==
  ASSUME HasSeqType(results), HasSeqType(sent), NEW name \in Names, NEW ok, Report(name, ok),
         NamesSoFar \in NameLists
  PROVE  NamesSoFar' \in NameLists /\ NamesSoFar' = Joined(NamesSoFar, <<name>>)
<1>1. /\ Len(results) \in Nat /\ DOMAIN results = 1 .. Len(results) /\ DOMAIN results' = 1 .. Len(results) + 1
      /\ \A i \in 1 .. Len(results) : results'[i] = results[i]
      /\ results'[Len(results) + 1] = [name |-> name, ok |-> ok]
  BY ReportAdds
<1>2. results'[Len(results) + 1].name = name
  BY <1>1
<1>3. /\ NamesSoFar \in Seq(Names) /\ Len(NamesSoFar) = Len(results)
      /\ \A i \in 1 .. Len(results) : NamesSoFar[i] = results[i].name
  BY <1>1 DEF NamesSoFar, NameLists
<1>4. PICK n : n = Append(NamesSoFar, name)
  OBVIOUS
<1>5. /\ n \in Seq(Names) /\ DOMAIN n = 1 .. Len(results) + 1 /\ n[Len(results) + 1] = name
      /\ \A i \in 1 .. Len(results) : n[i] = results[i].name
  BY <1>1, <1>3, <1>4
<1>6. n = [i \in 1 .. Len(results) + 1 |-> n[i]]
  BY <1>5
<1>7. \A i \in 1 .. Len(results) + 1 : results'[i].name = n[i]
  <2>1. \A i \in 1 .. Len(results) + 1 : i \in 1 .. Len(results) \/ i = Len(results) + 1
    BY <1>1
  <2> QED BY <1>1, <1>2, <1>5, <2>1
<1>8. NamesSoFar' = n
  <2>1. NamesSoFar' = [i \in 1 .. Len(results) + 1 |-> results'[i].name]
    BY <1>1 DEF NamesSoFar
  <2> QED BY <1>6, <1>7, <2>1
<1>9. Append(NamesSoFar, name) = NamesSoFar \o <<name>>
  BY <1>3, AppendIsConcat
<1> QED
  BY <1>4, <1>5, <1>8, <1>9 DEF NameLists, Joined

\* From a place past the end of a profile the run ends.
LEMMA OverIsEnding ==
  ASSUME NEW f \in Frames, Over(f)
  PROVE  f \in Ending
<1>1. Len(Profiles[f.profile]) \in Nat /\ f.at \in Nat
  BY ProfilesAssumption DEF Frames
<1>2. f.at .. Len(Profiles[f.profile]) = {}
  BY <1>1 DEF Over
<1> QED
  BY <1>2 DEF Ending

\* The steps of a profile.
LEMMA ProfileKeepsWhole ==
  ASSUME ProfileInv, CallInv, InProfile
  PROVE  ProfileInv'
<1>n. PICK n : n = Len(frames)
  OBVIOUS
<1>0. /\ at = "profile" /\ at' = "profile" /\ Beginning' = Beginning /\ frames # <<>> /\ FramesInv
      /\ HasSeqType(results) /\ HasSeqType(sent) /\ NamesSoFar \in NameLists
      /\ n = Len(frames) /\ n \in Nat \ {0} /\ DOMAIN frames = 1 .. n /\ frames \in Seq(Frames) /\ frames[n] = Top /\ Top \in Frames
  <2>1. /\ at = "profile" /\ at' = "profile" /\ Beginning' = Beginning /\ frames # <<>> /\ FramesInv
        /\ HasSeqType(results) /\ HasSeqType(sent)
    BY DEF InProfile, handlerVars, Beginning, CallInv, FramesInv, HandInv, PromiseInv
  <2>2. frames \in Seq(Frames) /\ frames[n] = Top
    BY <1>n, <2>1 DEF FramesInv, Top
  <2> QED BY <1>n, <2>1, <2>2, FramesFacts DEF ProfileInv
<1>b. /\ n \in 1 .. n /\ n \in 1 .. n + 1 /\ n + 1 \in 1 .. n + 1
      /\ \A j \in 1 .. n : j = n \/ (j \in 1 .. n - 1 /\ j \in 1 .. n + 1)
      /\ \A j \in 1 .. n + 1 : j = n + 1 \/ j = n \/ j \in 1 .. n - 1
      /\ \A j \in 1 .. n - 1 : j # n /\ j \in 1 .. n /\ j \in 0 .. n - 1 /\ j - 1 \in 0 .. n - 1
  <2>1. n \in Nat \ {0}
    BY <1>0
  <2> QED BY <2>1, LastOrBefore
<1>1. ASSUME UNCHANGED <<frames, results>>, step' = "next" \/ step # "next" \/ ~Uses(Top) PROVE ProfileInv'
  BY <1>0, <1>1 DEF ProfileInv, NamesSoFar, Stacked, Top
<1>2. CASE EnterNested
  <2>0. /\ step' = "next" /\ frames' = Append(Advanced, Inside(Top)) /\ NamesSoFar' = NamesSoFar /\ ~Exhausted /\ Uses(Top)
    BY <1>2 DEF EnterNested, NamesSoFar, Inside, Uses, Current, StageAt
  <2>1. /\ Advanced \in Seq(Frames) /\ Len(Advanced) = n /\ Advanced[n] = Onward(Top)
        /\ \A j \in 1 .. n - 1 : Advanced[j] = frames[j] /\ j \in DOMAIN frames
        /\ ~Over(Top)
    BY <1>0, <2>0, AdvancedIs
  <2>2. Inside(Top) \in Frames /\ (Top \in Ending <=> Onward(Top) \in Ending /\ Inside(Top) \in Ending)
    BY <1>0, <2>0, <2>1, EndingMeans
  <2>3. /\ Len(frames') = n + 1 /\ DOMAIN frames' = 1 .. n + 1 /\ frames'[n + 1] = Inside(Top)
        /\ frames'[n] = Onward(Top) /\ \A j \in 1 .. n - 1 : frames'[j] = frames[j]
    BY <1>0, <2>0, <2>1, <2>2
  <2> SUFFICES ASSUME \A j \in DOMAIN frames' : frames'[j] \in Ending
               PROVE  /\ Beginning \in Ending
                      /\ \E k : Stacked(k)' /\ Joined(NamesSoFar, k[Len(frames')]) = Left[Beginning]
    BY <1>0, <2>0 DEF ProfileInv
  <2>4. Top \in Ending /\ Onward(Top) \in Ending /\ Inside(Top) \in Ending
    BY <1>b, <2>2, <2>3
  <2>5. \A j \in DOMAIN frames : frames[j] \in Ending
    <3>1. \A j \in 1 .. n : j = n \/ (j \in 1 .. n - 1 /\ j \in 1 .. n + 1)
      BY <1>b
    <3> QED BY <1>0, <2>3, <2>4, <3>1
  <2>6. PICK k : Stacked(k) /\ Joined(NamesSoFar, k[n]) = Left[Beginning]
    BY <1>0, <2>5 DEF ProfileInv
  <2>7. Beginning \in Ending
    BY <1>0, <2>5 DEF ProfileInv
  <2>8. /\ k \in [0 .. n -> NameLists] /\ k[0] = <<>> /\ k[n] \in NameLists /\ k[n - 1] \in NameLists
        /\ \A j \in 1 .. n : k[j] = Joined(Left[frames[j]], k[j - 1])
    BY <1>0, <2>6 DEF Stacked
  <2>9. Left[Top] = Joined(Left[Inside(Top)], Left[Onward(Top)]) /\ Left[Inside(Top)] \in NameLists
        /\ Left[Onward(Top)] \in NameLists
    BY <2>0, <2>1, <2>4, LeftMeans DEF LeftStep
  <2>10. k[n] = Joined(Left[Top], k[n - 1])
    BY <1>0, <2>8
  <2>11. k[n] = Joined(Left[Inside(Top)], Joined(Left[Onward(Top)], k[n - 1]))
    BY <2>8, <2>9, <2>10, JoinedFacts
  <2>12. PICK t \in NameLists : t = Joined(Left[Onward(Top)], k[n - 1])
    BY <2>8, <2>9, NameListsType
  <2>13. PICK m : m = [j \in 0 .. n + 1 |-> IF j < n THEN k[j] ELSE IF j = n THEN t ELSE k[n]]
    BY Zenon
  <2>14. /\ m \in [0 .. n + 1 -> NameLists] /\ m[0] = <<>> /\ m[n + 1] = k[n] /\ m[n] = t
         /\ \A j \in 0 .. n - 1 : m[j] = k[j]
    BY <1>0, <2>8, <2>12, <2>13
  <2>15. \A j \in 1 .. n + 1 : m[j] = Joined(Left[frames'[j]], m[j - 1])
    <3>1. m[n + 1] = Joined(Left[frames'[n + 1]], m[(n + 1) - 1])
      <4>1. (n + 1) - 1 = n
        BY <1>0
      <4> QED BY <2>3, <2>11, <2>12, <2>14, <4>1
    <3>2. m[n] = Joined(Left[frames'[n]], m[n - 1])
      <4>1. n - 1 \in 0 .. n - 1
        BY <1>0
      <4> QED BY <2>3, <2>12, <2>14, <4>1
    <3>3. ASSUME NEW j \in 1 .. n - 1 PROVE m[j] = Joined(Left[frames'[j]], m[j - 1])
      <4>1. j \in 0 .. n - 1 /\ j - 1 \in 0 .. n - 1 /\ j \in 1 .. n
        BY <1>b
      <4> QED BY <2>3, <2>8, <2>14, <4>1
    <3>4. \A j \in 1 .. n + 1 : j = n + 1 \/ j = n \/ j \in 1 .. n - 1
      BY <1>b
    <3> QED BY <3>1, <3>2, <3>3, <3>4
  <2>16. Stacked(m)'
    BY <2>3, <2>14, <2>15 DEF Stacked
  <2> QED BY <2>3, <2>6, <2>7, <2>14, <2>16
<1>3. CASE LeaveNested
  <2>0. /\ step' = "next" /\ frames' = SubSeq(frames, 1, n - 1) /\ NamesSoFar' = NamesSoFar /\ Over(Top) /\ n > 1
    BY <1>3, <1>n DEF LeaveNested, NamesSoFar, Over, Exhausted
  <2>1. /\ Len(frames') = n - 1 /\ DOMAIN frames' = 1 .. n - 1 /\ \A j \in 1 .. n - 1 : frames'[j] = frames[j]
    BY <1>0, <2>0
  <2>2. Top \in Ending
    BY <1>0, <2>0, OverIsEnding
  <2> SUFFICES ASSUME \A j \in DOMAIN frames' : frames'[j] \in Ending
               PROVE  /\ Beginning \in Ending
                      /\ \E k : Stacked(k)' /\ Joined(NamesSoFar, k[Len(frames')]) = Left[Beginning]
    BY <1>0, <2>0 DEF ProfileInv
  <2>3. \A j \in DOMAIN frames : frames[j] \in Ending
    <3>1. \A j \in 1 .. n : j = n \/ j \in 1 .. n - 1
      BY <1>b
    <3> QED BY <1>0, <2>1, <2>2, <3>1
  <2>4. PICK k : Stacked(k) /\ Joined(NamesSoFar, k[n]) = Left[Beginning]
    BY <1>0, <2>3 DEF ProfileInv
  <2>5. Beginning \in Ending
    BY <1>0, <2>3 DEF ProfileInv
  <2>6. /\ k \in [0 .. n -> NameLists] /\ k[0] = <<>> /\ k[n - 1] \in NameLists
        /\ \A j \in 1 .. n : k[j] = Joined(Left[frames[j]], k[j - 1])
    BY <1>0, <2>4 DEF Stacked
  <2>7. k[n] = k[n - 1]
    <3>1. Left[Top] = <<>>
      BY <2>0, <2>2, LeftMeans DEF LeftStep
    <3>2. k[n] = Joined(Left[Top], k[n - 1])
      BY <1>0, <2>6
    <3> QED BY <2>6, <3>1, <3>2, JoinedFacts
  <2>8. PICK m : m = [j \in 0 .. n - 1 |-> k[j]]
    BY Zenon
  <2>9. m \in [0 .. n - 1 -> NameLists] /\ m[0] = <<>> /\ \A j \in 0 .. n - 1 : m[j] = k[j]
    BY <1>0, <2>6, <2>8
  <2>10. ASSUME NEW j \in 1 .. n - 1 PROVE m[j] = Joined(Left[frames'[j]], m[j - 1])
    <3>1. j \in 0 .. n - 1 /\ j - 1 \in 0 .. n - 1 /\ j \in 1 .. n
      BY <1>b
    <3> QED BY <2>1, <2>6, <2>9, <3>1
  <2>11. Stacked(m)'
    BY <2>1, <2>9, <2>10 DEF Stacked
  <2>12. m[n - 1] = k[n]
    BY <1>0, <2>7, <2>9
  <2> QED BY <2>1, <2>4, <2>5, <2>11, <2>12
<1>4. CASE ReportStage
  <2> DEFINE name == <<Top.via, Current.name>>
  <2>0. /\ step' = "next" /\ frames' = Advanced /\ Report(name, outcome) /\ ~Exhausted /\ ~Uses(Top)
    BY <1>0, <1>4 DEF ReportStage, ProfileInv, FramesInv
  <2>1. /\ Advanced \in Seq(Frames) /\ Len(Advanced) = n /\ Advanced[n] = Onward(Top)
        /\ \A j \in 1 .. n - 1 : Advanced[j] = frames[j] /\ j \in DOMAIN frames
        /\ ~Over(Top) /\ Current = StageAt(Top) /\ name \in Names
    BY <1>0, <2>0, AdvancedIs
  <2>2. /\ Len(frames') = n /\ DOMAIN frames' = 1 .. n /\ frames'[n] = Onward(Top)
        /\ \A j \in 1 .. n - 1 : frames'[j] = frames[j]
    BY <1>0, <2>0, <2>1
  <2>3. Top \in Ending <=> Onward(Top) \in Ending
    BY <1>0, <2>0, <2>1, EndingMeans
  <2>4. NamesSoFar' \in NameLists /\ NamesSoFar' = Joined(NamesSoFar, <<name>>)
    <3> HIDE DEF name
    <3> QED BY <1>0, <2>0, <2>1, NamesGrow
  <2>5. <<name>> = NameAt(Top)
    BY <2>1 DEF NameAt
  <2> HIDE DEF name
  <2> SUFFICES ASSUME \A j \in DOMAIN frames' : frames'[j] \in Ending
               PROVE  /\ Beginning \in Ending
                      /\ \E k : Stacked(k)' /\ Joined(NamesSoFar', k[Len(frames')]) = Left[Beginning]
    BY <1>0, <2>0, <2>4 DEF ProfileInv
  <2>6. Top \in Ending /\ Onward(Top) \in Ending
    BY <1>b, <2>2, <2>3
  <2>7. \A j \in DOMAIN frames : frames[j] \in Ending
    <3>1. \A j \in 1 .. n : j = n \/ j \in 1 .. n - 1
      BY <1>b
    <3> QED BY <1>0, <2>2, <2>6, <3>1
  <2>8. PICK k : Stacked(k) /\ Joined(NamesSoFar, k[n]) = Left[Beginning]
    BY <1>0, <2>7 DEF ProfileInv
  <2>9. Beginning \in Ending
    BY <1>0, <2>7 DEF ProfileInv
  <2>10. /\ k \in [0 .. n -> NameLists] /\ k[0] = <<>> /\ k[n] \in NameLists /\ k[n - 1] \in NameLists
         /\ \A j \in 1 .. n : k[j] = Joined(Left[frames[j]], k[j - 1])
    BY <1>0, <2>8 DEF Stacked
  <2>11. Left[Top] = Joined(NameAt(Top), Left[Onward(Top)]) /\ Left[Onward(Top)] \in NameLists
         /\ NameAt(Top) \in NameLists
    BY <2>0, <2>1, <2>6, LeftMeans, NameListsType DEF LeftStep
  <2>12. PICK t \in NameLists : t = Joined(Left[Onward(Top)], k[n - 1])
    BY <2>10, <2>11, NameListsType
  <2>13. k[n] = Joined(NameAt(Top), t)
    <3>1. k[n] = Joined(Left[Top], k[n - 1])
      BY <1>0, <2>10
    <3> QED BY <2>10, <2>11, <2>12, <3>1, JoinedFacts
  <2>14. Joined(NamesSoFar', t) = Left[Beginning]
    BY <1>0, <2>4, <2>5, <2>8, <2>11, <2>12, <2>13, JoinedFacts
  <2>15. PICK m : m = [j \in 0 .. n |-> IF j < n THEN k[j] ELSE t]
    BY Zenon
  <2>16. /\ m \in [0 .. n -> NameLists] /\ m[0] = <<>> /\ m[n] = t /\ \A j \in 0 .. n - 1 : m[j] = k[j]
    BY <1>0, <2>10, <2>12, <2>15
  <2>17. \A j \in 1 .. n : m[j] = Joined(Left[frames'[j]], m[j - 1])
    <3>1. m[n] = Joined(Left[frames'[n]], m[n - 1])
      <4>1. n - 1 \in 0 .. n - 1
        BY <1>0
      <4> QED BY <2>2, <2>12, <2>16, <4>1
    <3>2. ASSUME NEW j \in 1 .. n - 1 PROVE m[j] = Joined(Left[frames'[j]], m[j - 1])
      <4>1. j \in 0 .. n - 1 /\ j - 1 \in 0 .. n - 1 /\ j \in 1 .. n
        BY <1>b
      <4> QED BY <2>2, <2>10, <2>16, <4>1
    <3>3. \A j \in 1 .. n : j = n \/ j \in 1 .. n - 1
      BY <1>b
    <3> QED BY <3>1, <3>2, <3>3
  <2>18. Stacked(m)'
    BY <2>2, <2>16, <2>17 DEF Stacked
  <2> QED BY <2>2, <2>9, <2>14, <2>16, <2>18
<1>5. CASE BeginStage \/ RunCommand \/ Build \/ HoldOutput \/ EnsureServer \/ OpenBrowser \/ Click \/ Eval
           \/ PageErrors \/ ConsoleErrors \/ Sweep \/ StageCleanUp
  <2>1. UNCHANGED <<frames, results>>
    BY <1>5 DEF BeginStage, RunCommand, Build, HoldOutput, EnsureServer, OpenBrowser, Click, Eval, PageErrors,
          ConsoleErrors, Sweep, StageCleanUp, Goto, Decide, profileVars
  <2>2. step # "next" \/ ~Uses(Top)
    BY <1>5 DEF BeginStage, RunCommand, Build, HoldOutput, EnsureServer, OpenBrowser, Click, Eval, PageErrors,
          ConsoleErrors, Sweep, StageCleanUp, Uses, Current, StageAt
  <2> QED BY <1>1, <2>1, <2>2
<1> QED
  BY <1>0, <1>2, <1>3, <1>4, <1>5 DEF InProfile, ProfileStep

\* A run of a profile begins with the whole of it left.
LEMMA WholeAtFirst ==
  ASSUME PlaceInv, CallInv, BeginProfile, at' = "profile"
  PROVE  ProfileInv'
<1>1. /\ at = "manifest" /\ results' = results /\ step' = step /\ step = "next" /\ Beginning' = Beginning
      /\ frames' = <<Beginning>> /\ results = <<>>
  <2>1. Step("manifest", "profile") /\ frames' = <<Frame(request.profile, NoName)>>
    BY DEF BeginProfile, Fail, Return
  <2>2. UNCHANGED <<results, step>>
    BY DEF BeginProfile, frameVars
  <2>3. at = "manifest" /\ request' = request
    BY <2>1 DEF Step
  <2>4. step = "next"
    BY <2>3 DEF CallInv, CleanupInv, StageOrder
  <2>5. results = <<>>
    BY <2>3 DEF PlaceInv
  <2>6. Beginning' = Beginning
    BY <2>3 DEF Beginning
  <2> QED BY <2>1, <2>2, <2>3, <2>4, <2>5, <2>6 DEF Beginning
<1>2. NamesSoFar' = <<>> /\ <<>> \in NameLists
  BY <1>1, NameListsType DEF NamesSoFar
<1>3. Len(frames') = 1 /\ DOMAIN frames' = 1 .. 1 /\ frames'[1] = Beginning
  BY <1>1
<1> SUFFICES ASSUME \A j \in DOMAIN frames' : frames'[j] \in Ending
             PROVE  /\ Beginning \in Ending
                    /\ \E k : Stacked(k)' /\ Joined(NamesSoFar', k[Len(frames')]) = Left[Beginning]
  BY <1>1, <1>2 DEF ProfileInv
<1>4. Beginning \in Ending
  BY <1>3
<1>5. PICK t \in NameLists : t = Left[Beginning]
  BY <1>4, LeftMeans
<1>6. PICK k : k = [j \in 0 .. 1 |-> IF j = 0 THEN <<>> ELSE t]
  BY Zenon
<1>7. k \in [0 .. 1 -> NameLists] /\ k[0] = <<>> /\ k[1] = t
  BY <1>2, <1>5, <1>6
<1>8. Joined(<<>>, t) = t /\ Joined(t, <<>>) = t
  BY <1>5, JoinedFacts
<1>9. \A j \in 1 .. 1 : k[j] = Joined(Left[frames'[j]], k[j - 1])
  BY <1>3, <1>5, <1>7, <1>8
<1>10. Stacked(k)'
  BY <1>3, <1>7, <1>9 DEF Stacked
<1> QED
  BY <1>2, <1>3, <1>4, <1>5, <1>7, <1>8, <1>10

\* Every step.
LEMMA ProfileStepKeeps == ProfileInv /\ PlaceInv /\ CallInv /\ [Next]_vars => ProfileInv'
<1> SUFFICES ASSUME ProfileInv, PlaceInv, CallInv, [Next]_vars, at' = "profile" PROVE ProfileInv'
  BY DEF ProfileInv
<1>1. ASSUME at = "profile", UNCHANGED <<frames, results, request>>, step' = step \/ step # "next"
      PROVE  ProfileInv'
  BY <1>1 DEF ProfileInv, NamesSoFar, Stacked, Top, Beginning, Frame
<1>2. CASE Handle
  <2>1. CASE InProfile
    BY <2>1, ProfileKeepsWhole
  <2>2. CASE BeginProfile
    BY <2>2, WholeAtFirst
  <2>3. CASE ReadStep /\ UNCHANGED <<frameVars, profileVars, handlerVars>>
    BY <1>1, <2>3 DEF frameVars, profileVars, handlerVars
  <2>4. CASE Unwind
    BY <2>4 DEF Unwind, handlerVars
  <2>5. CASE NewCore \/ EndProfile \/ StartAdapter \/ AskList \/ GotList \/ AskScenario \/ GotReport
             \/ RunInBrowser \/ Compare \/ EndCompare \/ EnsureDevServer \/ OpenPage \/ SweepCases \/ Shoot \/ UsePage
    BY <2>5 DEF NewCore, EndProfile, StartAdapter, AskList, GotList, AskScenario, GotReport, RunInBrowser, Compare,
         EndCompare, EnsureDevServer, OpenPage, SweepCases, Shoot, UsePage, Differs, Step, Fail, Return
  <2> QED BY <1>2, <2>1, <2>2, <2>3, <2>4, <2>5 DEF Handle, HandlerStep
<1>3. CASE Outside
  <2>1. CASE ChildStep /\ UNCHANGED <<frameVars, profileVars, handlerVars>>
    BY <1>1, <2>1 DEF frameVars, profileVars, handlerVars
  <2>2. CASE at = "profile" /\ LetGo /\ UNCHANGED <<handlerVars, adapterVars>>
    <3>1. UNCHANGED <<frames, results, request>> /\ step # "next"
      BY <2>2 DEF LetGo, Goto, Decide, handlerVars
    <3> QED BY <1>1, <2>2, <3>1
  <2> QED BY <1>3, <2>1, <2>2 DEF Outside, OutsideStep
<1>4. CASE Accept
  BY <1>4 DEF Accept
<1>5. CASE UNCHANGED <<frames, step, results, request, at>>
  BY <1>1, <1>5
<1> QED
  BY <1>2, <1>3, <1>4, <1>5
     DEF Next, Daemon, Caller, Reject, Finish, EndContext, Die, Deliver, Reply, StreamEnds, Disconnect, Here,
         vars, frameVars, profileVars, handlerVars

------------------------------------------------------------------------------
(* What a success stands for                                               *)

\* What a success stands for: everything that was asked for has been run in order and is well.
Complete ==
  /\ \A i \in DOMAIN results : results[i].ok = TRUE
  /\ Asked("profile.run") => Beginning \in Ending /\ NamesSoFar = Left[Beginning]
  /\ Asked("scenario.compare") =>
       Len(results) = Len(Wanted) /\ \A i \in DOMAIN results : results[i].name = <<NoName, Wanted[i]>>

\* A handler that returns success has run everything.
VerdictInv == verdict = "pass" /\ strays = 0 => Complete

\* At the end of a profile nothing is left of it.
LEMMA EndIsWhole ==
  ASSUME ProfileInv, CallInv, at = "profile", ProfileDone
  PROVE  Beginning \in Ending /\ NamesSoFar = Left[Beginning]
<1>1. frames # <<>> /\ Len(frames) = 1 /\ Over(Top) /\ FramesInv
  BY DEF ProfileDone, Exhausted, Over, CallInv, FramesInv
<1>2. /\ DOMAIN frames = 1 .. 1 /\ frames[1] = Top /\ Top \in Frames
  BY <1>1, FramesFacts DEF FramesInv, Top
<1>3. Top \in Ending
  BY <1>1, <1>2, OverIsEnding
<1>4. \A j \in DOMAIN frames : frames[j] \in Ending
  BY <1>2, <1>3
<1>5. NamesSoFar \in NameLists /\ Beginning \in Ending
  BY <1>4 DEF ProfileInv
<1>6. PICK k : Stacked(k) /\ Joined(NamesSoFar, k[Len(frames)]) = Left[Beginning]
  BY <1>4 DEF ProfileInv
<1>7. k[0] = <<>> /\ k[1] = Joined(Left[Top], k[0])
  <2>1. \A j \in 1 .. 1 : k[j] = Joined(Left[frames[j]], k[j - 1])
    BY <1>1, <1>6 DEF Stacked
  <2>2. k[1] = Joined(Left[frames[1]], k[1 - 1])
    BY <2>1
  <2> QED BY <1>2, <1>6, <2>2 DEF Stacked
<1>8. Left[Top] = <<>>
  BY <1>1, <1>3, LeftMeans DEF LeftStep
<1>9. k[1] = <<>>
  BY <1>7, <1>8, NameListsType, JoinedFacts
<1> QED
  BY <1>1, <1>5, <1>6, <1>9, JoinedFacts

\* The steps of a handler.
LEMMA HandlerKeepsVerdict ==
  ASSUME VerdictInv, ProfileInv, CompareInv, PlaceInv, CallInv, [Next]_vars, HandlerStep \/ OutsideStep
  PROVE  VerdictInv'
<1> SUFFICES ASSUME verdict' = "pass", strays' = 0 PROVE Complete'
  BY DEF VerdictInv
<1>1. strays = 0
  <2>1. strays' \in {strays, strays + 1} /\ strays \in Nat
    BY StraysGrow DEF CallInv, LinesInv
  <2> QED BY <2>1
<1>2. request' = request
  BY WhereTo
<1>3. ASSUME UNCHANGED results, Complete PROVE Complete'
  BY <1>2, <1>3 DEF Complete, Asked, Beginning, NamesSoFar, Wanted, Frame
<1>4. \A i \in DOMAIN results : results[i].ok \in BOOLEAN
  BY DEF CallInv, HandInv
<1>5. CASE verdict = "pass"
  <2>1. at = "unwind" /\ Complete
    BY <1>1, <1>5 DEF PlaceInv, VerdictInv
  <2>2. UNCHANGED results
    BY <2>1, WhoReports DEF InProfile, SweepCases, Shoot, Fail, Return
  <2> QED BY <1>3, <2>1, <2>2
<1>6. CASE at = "profile" /\ ProfileDone /\ AllPassed /\ UNCHANGED <<results, strays>>
  <2>1. Asked("profile.run") /\ ~Asked("scenario.compare")
    BY <1>6 DEF PlaceInv, Asked
  <2> QED BY <1>3, <1>4, <1>6, <2>1, EndIsWhole DEF Complete, AllPassed
<1>7. CASE at = "scenario" /\ pending = <<>> /\ AllPassed /\ UNCHANGED <<results, strays>>
  <2>1. ~Asked("profile.run")
    BY <1>7 DEF PlaceInv
  <2>2. Asked("scenario.compare") => Toward
    BY <1>1, <1>7 DEF CompareInv
  <2>3. Len(results) \in Nat
    BY DEF CallInv, HandInv, HasSeqType
  <2>4. Asked("scenario.compare") =>
          Len(results) = Len(Wanted) /\ \A i \in DOMAIN results : results[i].name = <<NoName, Wanted[i]>>
    BY <1>7, <2>2, <2>3 DEF Toward
  <2> QED BY <1>3, <1>4, <1>7, <2>1, <2>4 DEF Complete, AllPassed
<1>8. ASSUME UNCHANGED results, results = <<>>, ~Asked("profile.run"), ~Asked("scenario.compare") PROVE Complete'
  BY <1>3, <1>8 DEF Complete
<1>9. CASE Asked("scenario.list") /\ at = "listing" /\ UNCHANGED results
  BY <1>8, <1>9 DEF PlaceInv, Asked
<1>10. CASE Asked("scenario.run") /\ at \in {"headless", "inBrowser"} /\ UNCHANGED results
  BY <1>8, <1>10 DEF PlaceInv, Asked
<1>11. CASE Asked("page") /\ at = "page" /\ UNCHANGED results
  BY <1>8, <1>11 DEF PlaceInv, Asked
<1>12. CASE Shoot /\ sent' = Append(sent, Picture)
  <2>1. UNCHANGED results /\ Asked("visual.shot")
    BY <1>12 DEF Shoot
  <2> QED BY <1>8, <2>1 DEF PlaceInv, Asked
<1>13. CASE SweepCases
  <2>1. HasSeqType(sent) /\ verdict' # "fail"
    BY DEF CallInv, PromiseInv
  <2>2. Asked("visual.sweep") /\ \A i \in DOMAIN results' : results'[i].ok = TRUE
    BY <1>13, <2>1, SweepReports
  <2> QED BY <1>2, <2>2 DEF Complete, Asked
<1> QED
  BY <1>5, <1>6, <1>7, <1>9, <1>10, <1>11, <1>12, <1>13, WhoPasses

\* Every step.
LEMMA VerdictStep ==
  VerdictInv /\ ProfileInv /\ CompareInv /\ PlaceInv /\ CallInv /\ [Next]_vars => VerdictInv'
<1> SUFFICES ASSUME VerdictInv, ProfileInv, CompareInv, PlaceInv, CallInv, [Next]_vars PROVE VerdictInv'
  OBVIOUS
<1>1. CASE Handle \/ Outside
  BY <1>1, HandlerKeepsVerdict DEF Handle, Outside
<1>2. ASSUME UNCHANGED <<results, request, verdict, strays>> PROVE VerdictInv'
  BY <1>2 DEF VerdictInv, Complete, Asked, Beginning, NamesSoFar, Wanted, Frame
<1>3. CASE ~(Handle \/ Outside)
  <2>1. UNCHANGED <<results, request, verdict, strays>>
    BY <1>3 DEF Next, Daemon, Caller, Reject, Accept, Finish, EndContext, Die, Deliver, Reply, StreamEnds, Disconnect,
          Here, vars, frameVars, handlerVars, adapterVars
  <2> QED BY <1>2, <2>1
<1> QED
  BY <1>1, <1>3

------------------------------------------------------------------------------
(* Success is complete                                                     *)

\* All that a success rests on.
SuccessInv == PlaceInv /\ SentInv /\ ShownInv /\ DecidedInv /\ ListInv /\ CompareInv /\ ProfileInv /\ VerdictInv

\* At first nothing has been run, sent or shown.
LEMMA SuccessInit == Init => SuccessInv
<1> SUFFICES ASSUME Init PROVE SuccessInv
  OBVIOUS
<1>1. PICK req \in Requests : HandlerInit(req)
  BY DEF Init
<1>2. /\ at = "idle" /\ results = <<>> /\ sent = <<>> /\ verdict = "none" /\ ~answer.ok /\ ~reading
      /\ phase = "asked" /\ decided = "none" /\ read = 0 /\ shown = <<>> /\ told = "nothing"
  BY <1>1 DEF Init, HandlerInit, FrameInit, AdapterInit, NoAnswer
<1>3. HasSeqType(shown) /\ Len(shown) = 0
  <2>1. <<>> \in Seq({})
    OBVIOUS
  <2> QED BY <1>2, <2>1 DEF HasSeqType
<1>4. Seen = 0 /\ read <= Len(sent)
  BY <1>2 DEF Seen, Offset
<1>5. ShownTo(0, {})
  <2>1. Cardinality({}) = 0 /\ 1 .. 0 = {}
    BY FS_EmptySet
  <2> QED BY <1>3, <2>1 DEF ShownTo
<1>6. ShownInv
  BY <1>2, <1>3, <1>4, <1>5 DEF ShownInv
<1>7. PlaceInv
  BY <1>2 DEF PlaceInv
<1>8. SentInv /\ DecidedInv /\ ListInv
  BY <1>2 DEF SentInv, DecidedInv, ListInv
<1>9. CompareInv /\ ProfileInv /\ VerdictInv
  BY <1>2 DEF CompareInv, ProfileInv, VerdictInv
<1> QED
  BY <1>6, <1>7, <1>8, <1>9 DEF SuccessInv

\* What is recorded is what has been demanded, each passed.
LEMMA RecordedIsDemanded ==
  ASSUME Complete, PlaceInv, CallInv
  PROVE  results = [i \in DOMAIN Demanded |-> [name |-> Demanded[i], ok |-> TRUE]]
<1>1. Len(results) \in Nat /\ DOMAIN results = 1 .. Len(results) /\ results = [i \in DOMAIN results |-> results[i]]
  BY DEF CallInv, HandInv, HasSeqType
<1>2. \A i \in DOMAIN results : results[i] = [name |-> results[i].name, ok |-> TRUE]
  BY DEF Complete, PlaceInv, IsOutcome
<1>3. DOMAIN Demanded = DOMAIN results /\ \A i \in DOMAIN results : Demanded[i] = results[i].name
  <2>1. CASE Asked("profile.run")
    <3>1. Demanded = NamesSoFar
      <4>1. ~Asked("scenario.compare")
        BY <2>1 DEF Asked
      <4> QED BY <2>1, <4>1 DEF Demanded, Complete, Beginning
    <3> QED BY <3>1 DEF NamesSoFar
  <2>2. CASE Asked("scenario.compare")
    <3>1. ~Asked("profile.run")
      BY <2>2 DEF Asked
    <3>2. Demanded = [i \in DOMAIN Wanted |-> <<NoName, Wanted[i]>>]
      BY <2>2, <3>1 DEF Demanded, Wanted
    <3>3. DOMAIN Wanted = 1 .. Len(Wanted)
      BY WantedIs
    <3>4. DOMAIN Wanted = DOMAIN results /\ \A i \in DOMAIN results : results[i].name = <<NoName, Wanted[i]>>
      BY <1>1, <2>2, <3>3 DEF Complete
    <3> QED BY <3>2, <3>4
  <2>3. CASE ~Asked("profile.run") /\ ~Asked("scenario.compare")
    <3>1. Demanded = [i \in DOMAIN results |-> results[i].name]
      BY <2>3 DEF Demanded
    <3> QED BY <3>1
  <2> QED BY <2>1, <2>2, <2>3
<1>4. PICK d : d = Demanded
  OBVIOUS
<1>5. results = [i \in DOMAIN d |-> [name |-> d[i], ok |-> TRUE]]
  <2>1. \A i \in DOMAIN results : results[i] = [name |-> d[i], ok |-> TRUE]
    BY <1>2, <1>3, <1>4
  <2> QED BY <1>1, <1>3, <1>4, <2>1
<1> QED
  BY <1>4, <1>5

\* What is to be seen of the outcomes of a success are the events sent.
LEMMA VisibleIs ==
  ASSUME CallInv, verdict = "pass"
  PROVE  /\ DOMAIN Visible(results) = 1 .. Total /\ Len(Visible(results)) = Total
         /\ \A i \in 1 .. Total : Visible(results)[i] = EventOf(i)
<1>1. Len(results) \in Nat /\ DOMAIN results = 1 .. Len(results)
  BY TotalIs
<1>2. CASE Asked("visual.shot")
  <2>1. Visible(results) = <<Picture>> /\ Total = 1
    BY <1>2 DEF Visible, Total
  <2>2. \A i \in 1 .. 1 : i = 1
    OBVIOUS
  <2> QED BY <1>2, <2>1, <2>2 DEF EventOf
<1>3. CASE ~Asked("visual.shot")
  <2>1. Visible(results) = [i \in 1 .. Len(results) |-> StageEvent(results[i])] /\ Total = Len(results)
    BY <1>1, <1>3 DEF Visible, Total
  <2>2. \A i : EventOf(i) = StageEvent(results[i])
    BY <1>3 DEF EventOf
  <2> QED BY <1>1, <2>1, <2>2
<1> QED
  BY <1>2, <1>3

\* A caller that is told of success has been shown every event, but for repeats.
LEMMA AllIsShown ==
  ASSUME CallInv, SuccessInv, told = "pass", transport # "simple"
  PROVE  \E gaps \in SUBSET (IF transport \in Mcp THEN Repeats(Visible(results)) ELSE {}) :
           ShownBut(Visible(results), gaps)
<1>1. phase = "ended" /\ decided = "pass" /\ read = Len(sent) /\ verdict = "pass"
  BY DEF SuccessInv, DecidedInv
<1>2. /\ DOMAIN Visible(results) = 1 .. Total /\ Len(Visible(results)) = Total /\ Total \in Nat
      /\ \A i \in 1 .. Total : Visible(results)[i] = EventOf(i)
  BY <1>1, VisibleIs, TotalIs
<1>3. Seen = Total
  <2>1. read = Offset + Total + Offset /\ Offset \in {0, 1}
    BY <1>1, TotalIs DEF SuccessInv, SentInv
  <2>2. \A o \in {0, 1}, t \in Nat :
          (IF o + t + o <= o THEN 0 ELSE IF o + t + o - o <= t THEN o + t + o - o ELSE t) = t
    OBVIOUS
  <2> QED BY <1>2, <2>1, <2>2 DEF Seen
<1>4. PICK gaps : ShownTo(Total, gaps)
  BY <1>1, <1>3 DEF SuccessInv, ShownInv
<1>5. PICK v : v = Visible(results)
  OBVIOUS
<1>6. gaps \in SUBSET (IF transport \in Mcp THEN Repeats(v) ELSE {})
  <2> SUFFICES ASSUME NEW gap \in gaps PROVE transport \in Mcp /\ gap \in Repeats(v)
    OBVIOUS
  <2>1. gap \in 1 .. Total /\ transport \in Mcp /\ gap > 1 /\ EventOf(gap) = EventOf(gap - 1)
    BY <1>4 DEF ShownTo
  <2>2. gap - 1 \in 1 .. Total
    BY <1>2, <2>1
  <2>3. v[gap] = v[gap - 1] /\ gap \in DOMAIN v
    BY <1>2, <1>5, <2>1, <2>2
  <2> QED BY <2>1, <2>3 DEF Repeats
<1>7. ShownBut(v, gaps)
  <2>1. Len(shown) = Len(v) - Cardinality(gaps)
    BY <1>2, <1>4, <1>5 DEF ShownTo
  <2>2. ASSUME NEW i \in DOMAIN v \ gaps
        PROVE  shown[i - Cardinality({ gap \in gaps : gap < i })] = v[i]
    <3>1. i \in 1 .. Total /\ i \notin gaps /\ v[i] = EventOf(i)
      BY <1>2, <1>5
    <3> QED BY <1>4, <3>1 DEF ShownTo, Before
  <2> QED BY <2>1, <2>2 DEF ShownBut
<1> QED
  BY <1>5, <1>6, <1>7

\* Success can be relied on: whoever is told that a run has passed, over whatever transport,
\* knows that everything asked for was run in order and passed, and has seen it.
THEOREM SuccessIsComplete == Spec => []PassIsComplete
<1>1. SuccessInv /\ CallInv /\ [Next]_vars => SuccessInv'
  BY PlaceStep, SentStep, ShownStep, DecidedStep, ListStep, CompareStep, ProfileStepKeeps, VerdictStep DEF SuccessInv
<1>2. SuccessInv /\ CallInv => PassIsComplete
  <2> SUFFICES ASSUME SuccessInv, CallInv, told = "pass", strays = 0
               PROVE  /\ Asked("profile.run") => Frame(request.profile, NoName) \in Ending
                      /\ results = [i \in DOMAIN Demanded |-> [name |-> Demanded[i], ok |-> TRUE]]
                      /\ transport # "simple" =>
                           \E gaps \in SUBSET (IF transport \in Mcp THEN Repeats(Visible(results)) ELSE {}) :
                             ShownBut(Visible(results), gaps)
    BY DEF PassIsComplete
  <2>1. Complete /\ PlaceInv
    BY DEF SuccessInv, DecidedInv, VerdictInv
  <2>2. Asked("profile.run") => Frame(request.profile, NoName) \in Ending
    BY <2>1 DEF Complete, Beginning
  <2>3. results = [i \in DOMAIN Demanded |-> [name |-> Demanded[i], ok |-> TRUE]]
    BY <2>1, RecordedIsDemanded
  <2> QED BY <2>2, <2>3, AllIsShown
<1> QED
  BY <1>1, <1>2, SuccessInit, CallAlways, PTL DEF Spec

================================================================================
