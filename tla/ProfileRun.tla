------------------------------ MODULE ProfileRun ------------------------------
(***************************************************************************)
(* A run of a validation profile: stages one after the other, references   *)
(* to other profiles expanded in place.  A stage fails alone: whatever     *)
(* goes wrong becomes its outcome and the next stage is tried.             *)
(*                                                                         *)
(* The depth limit of runStages guards depth 0 only and is left out; so a  *)
(* profile that refers to itself never ends.                               *)
(*                                                                         *)
(* Source: internal/profile/profile.go, internal/runner/runner.go.         *)
(***************************************************************************)
EXTENDS RunFrame

CONSTANTS
  Profiles,  \* the stages of each profile of the manifest
  NoName     \* no name

VARIABLES
  frames,   \* profiles being run, the innermost last, each with its next stage
  step,     \* what comes next in the current stage
  outcome,  \* whether the current stage has passed
  late      \* history: the current stage began after the context had ended

profileVars == <<frames, step, outcome, late>>

Modes == {"uses", "command", "browser", "sweep", "prod"}
\* A manifest is refused unless every stage has one mode and refers to a profile there is.
ASSUME ProfilesAssumption ==
  \A p \in DOMAIN Profiles :
    /\ DOMAIN Profiles[p] = 1 .. Len(Profiles[p]) /\ Len(Profiles[p]) \in Nat
    /\ \A i \in DOMAIN Profiles[p] :
         /\ Profiles[p][i].mode \in Modes
         /\ Profiles[p][i].mode = "uses" => Profiles[p][i].uses \in DOMAIN Profiles

Steps == {"next", "command", "build", "ensure", "open", "click", "eval", "errors",
          "console", "sweep", "held", "unwind"}

Frame(profile, via) == [profile |-> profile, at |-> 1, via |-> via]
ProfileInit == frames = <<>> /\ step = "next" /\ outcome = FALSE /\ late = FALSE

Top == frames[Len(frames)]
Exhausted == Top.at > Len(Profiles[Top.profile])
Current == Profiles[Top.profile][Top.at]
Advanced == [frames EXCEPT ![Len(frames)].at = @ + 1]
Began(mode) == Current.mode = mode

Goto(s) == step' = s /\ UNCHANGED <<frames, outcome, late>>
\* The stage is decided; what it has deferred comes next.
Decide(ok) == step' = "unwind" /\ outcome' = ok /\ UNCHANGED <<frames, late>>

EnterNested ==
  /\ step = "next" /\ frames # <<>> /\ ~Exhausted
  /\ Current.mode = "uses"
  /\ frames' = Append(Advanced, Frame(Current.uses, Current.name))
  /\ UNCHANGED <<step, outcome, late, ctx, defers, up, results, sent>>

LeaveNested ==
  /\ step = "next" /\ frames # <<>> /\ Exhausted
  /\ Len(frames) > 1
  /\ frames' = SubSeq(frames, 1, Len(frames) - 1)
  /\ UNCHANGED <<step, outcome, late, ctx, defers, up, results, sent>>

BeginStage ==
  /\ step = "next" /\ frames # <<>> /\ ~Exhausted
  /\ Current.mode # "uses"
  /\ step' = CASE Began("command") -> "command"
               [] Began("prod") /\ Current.build -> "build"
               [] OTHER -> "ensure"
  /\ late' = (ctx = "over")
  /\ UNCHANGED <<frames, outcome, ctx, defers, up, results, sent>>

\* A native tool: neither its failure nor an error of running it can pass.  Nothing is
\* started once the context is over.
RunCommand ==
  /\ step = "command"
  /\ \E ok \in BOOLEAN : (ok => ctx = "live") /\ Decide(ok)
  /\ UNCHANGED <<ctx, defers, up, results, sent>>

Build ==
  /\ step = "build"
  /\ \/ ctx = "live" /\ Goto("ensure")
     \/ Decide(FALSE)
  /\ UNCHANGED <<ctx, defers, up, results, sent>>

\* The output of a tool is read until nobody has it open: a process that the tool has left
\* behind keeps the stage waiting, whatever the deadlines.
HoldOutput ==
  /\ step \in {"command", "build"}
  /\ ctx = "live"
  /\ Goto("held")
  /\ UNCHANGED <<ctx, defers, up, results, sent>>

LetGo ==
  /\ step = "held"
  /\ \/ Decide(FALSE)
     \/ Began("command") /\ Decide(TRUE)
     \/ Began("prod") /\ Goto("ensure")
  /\ UNCHANGED <<ctx, defers, up, results, sent>>

\* Mutant: a server is taken for ready without being asked.
EnsureUnasked ==
  /\ step = "ensure"
  /\ Goto("open")
  /\ IF Began("prod") THEN Hold("prod") ELSE UNCHANGED <<up, defers>>
  /\ UNCHANGED <<ctx, results, sent>>

\* Mutant: the probe of a server that does not answer looks at no deadline.
EnsurePatiently ==
  /\ step = "ensure" /\ ctx = "live"
  /\ Goto("open")
  /\ IF Began("prod") THEN Hold("prod") ELSE UNCHANGED <<up, defers>>
  /\ UNCHANGED <<ctx, results, sent>>

\* Whether it is reused or started, a server has to answer under the context of the stage.
\* A production server is stopped at the end of the stage if the stage has started it.
EnsureServer ==
  /\ step = "ensure"
  /\ \/ /\ ctx = "live"
        /\ Goto("open")
        /\ IF Began("prod")
           THEN \/ Hold("prod")
                \/ defers' = Append(defers, "prod") /\ UNCHANGED up
           ELSE UNCHANGED <<up, defers>>
     \/ Decide(FALSE) /\ UNCHANGED <<up, defers>>
  /\ UNCHANGED <<ctx, results, sent>>

\* A provider call that has been answered counts, even if the context ends meanwhile.
OpenBrowser ==
  /\ step = "open"
  /\ \/ /\ Hold("session")
        /\ Goto(CASE Began("sweep") -> "sweep"
                  [] ~Began("sweep") /\ Current.click -> "click"
                  [] OTHER -> "eval")
     \/ Decide(FALSE) /\ UNCHANGED <<up, defers>>
  /\ UNCHANGED <<ctx, results, sent>>

Click ==
  /\ step = "click"
  /\ Goto("eval") \/ Decide(FALSE)
  /\ UNCHANGED <<ctx, defers, up, results, sent>>

\* The check fails, cannot be evaluated, or passes.
Eval ==
  /\ step = "eval"
  /\ Goto("errors") \/ Decide(FALSE)
  /\ UNCHANGED <<ctx, defers, up, results, sent>>

\* Errors that cannot be read are taken for none.
PageErrors ==
  /\ step = "errors"
  /\ \/ Decide(FALSE)
     \/ Began("browser") /\ Current.console /\ Goto("console")
     \/ ~(Began("browser") /\ Current.console) /\ Decide(TRUE)
  /\ UNCHANGED <<ctx, defers, up, results, sent>>

ConsoleErrors ==
  /\ step = "console"
  /\ \E ok \in BOOLEAN : Decide(ok)
  /\ UNCHANGED <<ctx, defers, up, results, sent>>

Sweep ==
  /\ step = "sweep"
  /\ \E ok \in BOOLEAN : Decide(ok)
  /\ UNCHANGED <<ctx, defers, up, results, sent>>

\* The handler itself has deferred one cleanup before the stages.
StageCleanUp ==
  /\ step = "unwind" /\ Len(defers) > 1
  /\ CleanUp
  /\ UNCHANGED <<profileVars, ctx, results, sent>>

\* Mutant: the stages of a nested profile are reported but not counted.
ReportTopOnly ==
  /\ step = "unwind" /\ Len(defers) = 1
  /\ LET name == <<Top.via, Current.name>>
     IN IF Top.via = NoName THEN Report(name, outcome)
        ELSE sent' = Append(sent, Event("stage", name, outcome)) /\ UNCHANGED results
  /\ frames' = Advanced /\ step' = "next" /\ outcome' = FALSE /\ late' = FALSE
  /\ UNCHANGED <<ctx, defers, up>>

\* The stage is recorded under its own name and that of the reference it was reached by.
ReportStage ==
  /\ step = "unwind" /\ Len(defers) = 1
  /\ Report(<<Top.via, Current.name>>, outcome)
  /\ frames' = Advanced /\ step' = "next" /\ outcome' = FALSE /\ late' = FALSE
  /\ UNCHANGED <<ctx, defers, up>>

ProfileStep ==
  \/ EnterNested \/ LeaveNested \/ BeginStage
  \/ RunCommand \/ Build \/ HoldOutput \/ EnsureServer \/ OpenBrowser
  \/ Click \/ Eval \/ PageErrors \/ ConsoleErrors \/ Sweep
  \/ StageCleanUp \/ ReportStage

\* All stages of the profile and of those it refers to have been run.
ProfileDone == step = "next" /\ Len(frames) = 1 /\ Exhausted

================================================================================
