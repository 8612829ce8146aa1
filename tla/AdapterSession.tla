----------------------------- MODULE AdapterSession -----------------------------
(***************************************************************************)
(* The conversation with a project's simulation adapter: a child process   *)
(* that reads one request per line and prints one line per answer.  The    *)
(* number in a request is never compared with that in an answer; a call    *)
(* takes the next line there is.                                           *)
(*                                                                         *)
(* Source: internal/adapter/adapter.go, internal/scenario/scenario.go.     *)
(***************************************************************************)
EXTENDS RunFrame

CONSTANTS
  Scenarios,   \* scenario ids
  Catalogue,   \* the sequence of scenarios the child lists
  Reports,     \* reports a scenario may end in
  EmptyReport, \* what another JSON object decodes to
  MaxStray     \* bound: lines the child prints unasked

\* The checks of a report are a sequence.
ASSUME ReportsAssumption ==
  \A report \in Reports \cup {EmptyReport} :
    LET checks == report.checks IN checks \in Seq({ checks[i] : i \in DOMAIN checks })
ASSUME AdapterAssumption == Catalogue \in Seq(Scenarios) /\ MaxStray \in Nat

VARIABLES
  child,    \* "none", "running", "exited" or "killed"
  asks,     \* requests the child has not answered yet
  lines,    \* lines nobody has read yet
  calls,    \* calls made so far
  broken,   \* no call may use the connection any more
  reading,  \* a call waits for its line
  answer,   \* what the last call returned
  strays    \* lines the child has printed unasked

adapterVars == <<child, asks, lines, calls, broken, reading, answer, strays>>

\* A line carries the call it answers, 0 if none.
Line(to, body) == [to |-> to, body |-> body]
Listing == [kind |-> "list"]
Reported(report) == [kind |-> "report", report |-> report]
\* A failure the child reports, or no JSON at all.
Junk == [kind |-> "junk"]
Bodies == {Listing, Junk} \cup { Reported(r) : r \in Reports }
NoAnswer == [call |-> 0, line |-> Line(0, Junk), ok |-> FALSE]

\* What a caller makes of a result: fields it does not know are ignored, others are empty.
AsReport(body) == IF body.kind = "report" THEN body.report ELSE EmptyReport
AsCatalogue(body) == IF body.kind = "list" THEN Catalogue ELSE <<>>

AdapterInit ==
  /\ child = "none" /\ asks = <<>> /\ lines = <<>>
  /\ calls = 0 /\ broken = FALSE /\ reading = FALSE
  /\ answer = NoAnswer /\ strays = 0

StartChild == child' = "running" /\ UNCHANGED <<asks, lines, calls, broken, reading, answer, strays>>

\* Close kills the child and waits for it; the pipes go with it.
CloseChild ==
  /\ child' = "none" /\ asks' = <<>> /\ lines' = <<>> /\ reading' = FALSE
  /\ answer' = NoAnswer
  /\ UNCHANGED <<calls, broken, strays>>

\* The caller has made what it wants of the answer.
Taken == answer' = NoAnswer /\ UNCHANGED <<child, asks, lines, calls, broken, reading, strays>>

Failed == answer' = [call |-> calls', line |-> Line(0, Junk), ok |-> FALSE] /\ reading' = FALSE

\* No later call writes or reads: nobody gets what is still in the pipes.
Break == broken' = TRUE /\ asks' = <<>> /\ lines' = <<>>

\* A request has been written: refused on a broken connection, an error if the child has gone.
\* The write knows no context.  What a pipe cannot hold goes out only as the child reads it, so
\* nothing says that the last of the three ever happens.
Ask(what) ==
  /\ ~reading
  /\ \/ /\ broken
        /\ UNCHANGED calls
        /\ Failed
        /\ UNCHANGED <<asks, lines, broken>>
     \/ /\ ~broken /\ child # "running"
        /\ calls' = calls + 1
        /\ Break
        /\ Failed
     \/ /\ ~broken /\ child = "running"
        /\ calls' = calls + 1
        /\ asks' = Append(asks, [call |-> calls + 1, what |-> what])
        /\ reading' = TRUE
        /\ UNCHANGED <<lines, broken, answer>>
  /\ UNCHANGED <<child, strays>>

\* The next line is taken for the answer: a line that is no JSON, or reports a failure, is
\* an error of this call but leaves the connection usable.
ReadLine ==
  /\ reading /\ lines # <<>>
  /\ answer' = [call |-> calls, line |-> Head(lines), ok |-> Head(lines).body # Junk]
  /\ lines' = Tail(lines)
  /\ reading' = FALSE
  /\ UNCHANGED <<child, asks, calls, broken, strays>>

ReadEnd ==
  /\ reading /\ lines = <<>> /\ child # "running"
  /\ Break
  /\ calls' = calls
  /\ Failed
  /\ UNCHANGED <<child, strays>>

\* Mutant: a call that gives up leaves the child and the connection as they are.
ReadGivesUp ==
  /\ reading /\ ctx = "over"
  /\ calls' = calls
  /\ Failed
  /\ UNCHANGED <<child, broken, asks, lines, strays>>

\* Mutant: a call waits for its line however long it takes.
ReadPatiently == FALSE /\ UNCHANGED adapterVars

\* The context ends while no line has come: the child is killed.
ReadTimeout ==
  /\ reading /\ ctx = "over"
  /\ child' = IF child = "running" THEN "killed" ELSE child
  /\ Break
  /\ calls' = calls
  /\ Failed
  /\ UNCHANGED strays

\* The child answers requests in order, with a result of the kind it is asked for or a failure.
ChildAnswers ==
  /\ child = "running" /\ asks # <<>>
  /\ LET ask == Head(asks)
         bodies == IF ask.what = "list" THEN {Listing, Junk}
                   ELSE {Junk} \cup { Reported(r) : r \in Reports }
     IN \E body \in bodies : lines' = Append(lines, Line(ask.call, body))
  /\ asks' = Tail(asks)
  /\ UNCHANGED <<child, calls, broken, reading, answer, strays>>

\* It logs to its standard output, or answers what nobody asked.
ChildStrays ==
  /\ child = "running" /\ strays < MaxStray
  /\ strays' = strays + 1
  /\ \E body \in {Junk, Listing} : lines' = Append(lines, Line(0, body))
  /\ UNCHANGED <<child, asks, calls, broken, reading, answer>>

\* It exits, perhaps in the middle of a line.
ChildExits ==
  /\ child = "running"
  /\ child' = "exited"
  /\ lines' \in {lines, Append(lines, Line(0, Junk))}
  /\ UNCHANGED <<asks, calls, broken, reading, answer, strays>>

ChildStep == ChildAnswers \/ ChildStrays \/ ChildExits

\* The call returns.
ReadStep == ReadLine \/ ReadEnd \/ ReadTimeout

================================================================================
