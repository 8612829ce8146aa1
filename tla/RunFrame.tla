------------------------------- MODULE RunFrame -------------------------------
(***************************************************************************)
(* What every operation handler of the daemon has: the context of its      *)
(* request, the cleanups it has deferred, what it has acquired, the events *)
(* it emits and the outcomes it will report.                               *)
(*                                                                         *)
(* Source: internal/core/ops.go, internal/daemon/server.go.                *)
(***************************************************************************)
EXTENDS Naturals, Sequences

VARIABLES
  ctx,      \* "live", or "over": cancelled or past the deadline of the operation
  defers,   \* deferred cleanups; the last one runs first
  up,       \* what has been acquired and not yet given back
  results,  \* named outcomes of the operation: stages, compared scenarios, swept cases
  sent      \* events emitted so far

frameVars == <<ctx, defers, up, results, sent>>

Things == {"core", "session", "prod", "adapter"}
Event(kind, name, ok) == [ev |-> kind, name |-> name, ok |-> ok]
StageEvent(result) == Event("stage", result.name, result.ok)

FrameInit ==
  /\ ctx = "live" /\ defers = <<>> /\ up = {}
  /\ results = <<>> /\ sent = <<>>

\* Something is acquired and its cleanup deferred.
Hold(thing) ==
  /\ up' = up \cup {thing}
  /\ defers' = Append(defers, thing)

Deferred == defers[Len(defers)]

\* The cleanup that was deferred last runs.
CleanUp ==
  /\ up' = up \ {Deferred}
  /\ defers' = SubSeq(defers, 1, Len(defers) - 1)

\* An outcome is recorded and, as soon as it is known, emitted.
Report(name, ok) ==
  LET result == [name |-> name, ok |-> ok]
  IN /\ results' = Append(results, result)
     /\ sent' = Append(sent, StageEvent(result))

================================================================================
