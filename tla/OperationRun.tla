----------------------------- MODULE OperationRun -----------------------------
(***************************************************************************)
(* The handlers of the operations that take several steps: profile.run,    *)
(* scenario.compare, scenario.run, scenario.list (and describe), and the   *)
(* page operations, visual.sweep, visual.shot, browser.eval,               *)
(* browser.errors and gpu.run.  A handler acquires what it needs step by   *)
(* step, returns at the first error outside its loop, and gives back in    *)
(* reverse order whatever it has acquired by then.                         *)
(*                                                                         *)
(* Source: internal/core/ops.go, internal/core/core.go,                    *)
(* internal/visual/visual.go, internal/scenario/scenario.go.               *)
(***************************************************************************)
EXTENDS ProfileRun, AdapterSession, ScenarioReports

CONSTANTS
  NoScenario,  \* no scenario
  MaxCases     \* bound: visual cases of a sweep

ASSUME CasesAssumption == MaxCases \in Nat

VARIABLES
  request,    \* what is asked for
  at,         \* where the handler is
  pending,    \* scenarios still to be run
  headless,   \* the report of the adapter
  inBrowser,  \* the report of the page
  verdict     \* what the handler returns: "none", "pass" or "fail"

handlerVars == <<request, at, pending, headless, inBrowser, verdict>>

Operations == {"profile.run", "scenario.compare", "scenario.run", "scenario.list",
               "visual.sweep", "visual.shot", "page"}
\* ids is empty when all scenarios are meant, and one for scenario.run, which alone minds
\* browser.
Request == [op : Operations, profile : DOMAIN Profiles \cup {NoName},
            ids : Seq(Scenarios), browser : BOOLEAN]

Asked(op) == request.op = op
UsesAdapter ==
  Asked("scenario.compare") \/ Asked("scenario.list") \/ (Asked("scenario.run") /\ ~request.browser)

HandlerInit(req) ==
  /\ FrameInit /\ ProfileInit /\ AdapterInit
  /\ request = req /\ at = "idle" /\ pending = <<>>
  /\ headless = EmptyReport /\ inBrowser = EmptyReport /\ verdict = "none"

Step(from, to) == at = from /\ at' = to /\ UNCHANGED <<request, verdict>>
NoReports == headless' = EmptyReport /\ inBrowser' = EmptyReport
SameReports == UNCHANGED <<headless, inBrowser>>

\* The handler returns; what it has deferred comes next.
Return(from, ok) ==
  /\ at = from /\ at' = "unwind"
  /\ verdict' = IF ok THEN "pass" ELSE "fail"
  /\ pending' = <<>> /\ NoReports
  /\ UNCHANGED request
Fail(from) == Return(from, FALSE)

AllPassed == \A i \in DOMAIN results : results[i].ok

\* newCore registers the run as being in flight.
NewCore ==
  /\ \/ /\ Step("core", CASE Asked("profile.run") -> "manifest"
                          [] UsesAdapter -> "adapter"
                          [] OTHER -> "ensure")
        /\ Hold("core")
        /\ pending' = request.ids
        /\ SameReports
     \/ Fail("core") /\ UNCHANGED <<up, defers>>
  /\ UNCHANGED <<ctx, results, sent, profileVars, adapterVars>>

------------------------------------------------------------------------------
(* profile.run                                                             *)

BeginProfile ==
  /\ \/ /\ Step("manifest", "profile")
        /\ request.profile # NoName
        /\ frames' = <<Frame(request.profile, NoName)>>
        /\ UNCHANGED pending /\ SameReports
     \/ Fail("manifest") /\ UNCHANGED frames
  /\ UNCHANGED <<frameVars, step, outcome, late, adapterVars>>

InProfile ==
  /\ at = "profile"
  /\ ProfileStep
  /\ UNCHANGED <<handlerVars, adapterVars>>

EndProfile ==
  /\ at = "profile" /\ ProfileDone
  /\ Return("profile", AllPassed)
  /\ frames' = <<>>
  /\ UNCHANGED <<frameVars, step, outcome, late, adapterVars>>

------------------------------------------------------------------------------
(* Scenarios                                                               *)

StartAdapter ==
  /\ \/ /\ Step("adapter", IF Asked("scenario.run") THEN "scenario"
                           ELSE IF request.ids = <<>> THEN "list" ELSE "ensure")
        /\ Hold("adapter")
        /\ StartChild
        /\ UNCHANGED pending /\ SameReports
     \/ Fail("adapter") /\ UNCHANGED <<up, defers, adapterVars>>
  /\ UNCHANGED <<ctx, results, sent, profileVars>>

AskList ==
  /\ Step("list", "listing")
  /\ Ask("list")
  /\ UNCHANGED <<frameVars, profileVars, pending, headless, inBrowser>>

\* The list is passed on, or says what to compare.
GotList ==
  /\ at = "listing" /\ ~reading
  /\ \/ ~answer.ok /\ Fail("listing")
     \/ answer.ok /\ Asked("scenario.list") /\ Return("listing", TRUE)
     \/ /\ answer.ok /\ Asked("scenario.compare")
        /\ Step("listing", "ensure")
        /\ pending' = AsCatalogue(answer.line.body)
        /\ SameReports
  /\ Taken
  /\ UNCHANGED <<frameVars, profileVars>>

\* The next scenario is run headlessly.
AskScenario ==
  /\ pending # <<>>
  /\ Step("scenario", "headless")
  /\ Ask("run")
  /\ UNCHANGED <<frameVars, profileVars, pending, headless, inBrowser>>

\* The handler is inside the write of a request that a pipe may not hold, to a child that may
\* not read: an id or parameters of any length are part of it, unless all are to be listed.
Unread ==
  /\ child = "running" /\ ~broken
  /\ \/ at = "list" /\ Asked("scenario.list")
     \/ at = "scenario" /\ pending # <<>>

\* A scenario that cannot be run on one side differs; the others are still compared.
Differs(from) ==
  /\ Step(from, "scenario")
  /\ Report(<<NoName, Head(pending)>>, FALSE)
  /\ pending' = Tail(pending)
  /\ NoReports

GotReport ==
  /\ at = "headless" /\ ~reading
  /\ \/ ~answer.ok /\ Asked("scenario.compare") /\ Differs("headless")
     \/ /\ ~answer.ok /\ Asked("scenario.run") /\ Fail("headless")
        /\ UNCHANGED <<results, sent>>
     \/ /\ answer.ok /\ Asked("scenario.compare")
        /\ Step("headless", "inBrowser")
        /\ headless' = AsReport(answer.line.body)
        /\ UNCHANGED <<pending, inBrowser, results, sent>>
     \/ /\ answer.ok /\ Asked("scenario.run")
        /\ Return("headless", Passed(AsReport(answer.line.body)))
        /\ UNCHANGED <<results, sent>>
  /\ Taken
  /\ UNCHANGED <<ctx, defers, up, profileVars>>

RunInBrowser ==
  /\ \/ Asked("scenario.compare") /\ Differs("inBrowser")
     \/ Asked("scenario.run") /\ Fail("inBrowser") /\ UNCHANGED <<results, sent>>
     \/ /\ Asked("scenario.compare")
        /\ Step("inBrowser", "compare")
        /\ inBrowser' \in Reports
        /\ UNCHANGED <<pending, headless, results, sent>>
     \/ /\ Asked("scenario.run")
        /\ \E report \in Reports : Return("inBrowser", Passed(report))
        /\ UNCHANGED <<results, sent>>
  /\ UNCHANGED <<ctx, defers, up, profileVars, adapterVars>>

Compare ==
  /\ Step("compare", "scenario")
  /\ Report(<<NoName, Head(pending)>>, Match(headless, inBrowser))
  /\ pending' = Tail(pending)
  /\ NoReports
  /\ UNCHANGED <<ctx, defers, up, profileVars, adapterVars>>

EndCompare ==
  /\ pending = <<>>
  /\ Return("scenario", AllPassed)
  /\ UNCHANGED <<frameVars, profileVars, adapterVars>>

------------------------------------------------------------------------------
(* Browsers and pages                                                      *)

EnsureDevServer ==
  /\ \/ ctx = "live" /\ Step("ensure", "open") /\ UNCHANGED pending /\ SameReports
     \/ Fail("ensure")
  /\ UNCHANGED <<frameVars, profileVars, adapterVars>>

OpenPage ==
  /\ \/ /\ Step("open", CASE Asked("scenario.compare") -> "scenario"
                          [] Asked("scenario.run") -> "inBrowser"
                          [] OTHER -> "page")
        /\ Hold("session")
        /\ UNCHANGED pending /\ SameReports
     \/ Fail("open") /\ UNCHANGED <<up, defers>>
  /\ UNCHANGED <<ctx, results, sent, profileVars, adapterVars>>

\* Sweeping goes on after a case that fails.
Swept == UNION { [1 .. n -> BOOLEAN] : n \in 0 .. MaxCases }

\* All cases are swept before the first is reported.
SweepCases ==
  /\ Asked("visual.sweep")
  /\ \/ Fail("page") /\ UNCHANGED <<results, sent>>
     \/ \E oks \in Swept :
          /\ results' = [i \in DOMAIN oks |-> [name |-> <<NoName, i>>, ok |-> oks[i]]]
          /\ sent' = sent \o [i \in DOMAIN oks |-> StageEvent(results'[i])]
          /\ Return("page", \A i \in DOMAIN oks : oks[i])
  /\ UNCHANGED <<ctx, defers, up, profileVars, adapterVars>>

\* The picture is referred to once it is written.
Shoot ==
  /\ Asked("visual.shot")
  /\ \/ Fail("page") /\ UNCHANGED sent
     \/ Return("page", TRUE) /\ sent' = Append(sent, Event("artifact", <<NoName, NoName>>, TRUE))
  /\ UNCHANGED <<ctx, defers, up, results, profileVars, adapterVars>>

\* browser.eval, browser.errors and gpu.run return one result and no events.
UsePage ==
  /\ Asked("page")
  /\ \E ok \in BOOLEAN : Return("page", ok)
  /\ UNCHANGED <<frameVars, profileVars, adapterVars>>

------------------------------------------------------------------------------
\* Mutant: an adapter is left alone if its last call has failed.
UnwindBroken ==
  /\ at = "unwind" /\ defers # <<>>
  /\ IF Deferred = "adapter" /\ broken
     THEN defers' = SubSeq(defers, 1, Len(defers) - 1) /\ UNCHANGED <<up, adapterVars>>
     ELSE /\ CleanUp
          /\ IF Deferred = "adapter" THEN CloseChild ELSE UNCHANGED adapterVars
  /\ UNCHANGED <<ctx, results, sent, profileVars, handlerVars>>

Unwind ==
  /\ at = "unwind" /\ defers # <<>>
  /\ CleanUp
  /\ IF Deferred = "adapter" THEN CloseChild ELSE UNCHANGED adapterVars
  /\ UNCHANGED <<ctx, results, sent, profileVars, handlerVars>>

HandlerStep ==
  \/ NewCore \/ BeginProfile \/ InProfile \/ EndProfile
  \/ StartAdapter \/ AskList \/ GotList \/ AskScenario \/ GotReport
  \/ RunInBrowser \/ Compare \/ EndCompare
  \/ EnsureDevServer \/ OpenPage \/ SweepCases \/ Shoot \/ UsePage \/ Unwind
  \/ ReadStep /\ UNCHANGED <<frameVars, profileVars, handlerVars>>

\* What child processes do by themselves.
OutsideStep ==
  \/ ChildStep /\ UNCHANGED <<frameVars, profileVars, handlerVars>>
  \/ at = "profile" /\ LetGo /\ UNCHANGED <<handlerVars, adapterVars>>

Returned == at = "unwind" /\ defers = <<>>

================================================================================
