-------------------------- MODULE ProviderSession --------------------------
(***************************************************************************)
(* What happens inside one browser operation: the bounded subprocess calls *)
(* of src/internal/browser/agentbrowser.go (runRaw) and the session script *)
(* of src/internal/browser/browser.go that is made of them (OpenSession,   *)
(* WaitForBridge, the reads and screenshots of a run).                     *)
(*                                                                         *)
(* One namespace.  Its browser belongs to a detached agent-browser daemon  *)
(* (external: modelled from how the code uses it): a launcher sends it one *)
(* command, it performs the commands it was sent in order, and what it     *)
(* performs stays performed when the launcher has been killed meanwhile.   *)
(* BrowserSession is the level above, where a whole operation is a step.   *)
(***************************************************************************)
EXTENDS Naturals, Sequences, FiniteSets

CONSTANTS
    Runs,       \* sessions of the namespace, each with the page it opens
    RawRuns,    \* those that open a production page (OpenSessionRaw)
    Closers,    \* callers of Close that do not hold the namespace's lock
    NoOne,      \* no run, no page
    Tries,      \* polls of one WaitForBridge (24 in the code)
    MaxUses,    \* bound: reads and screenshots of one session
    Refusals    \* whether the browser may answer success:false at will

ASSUME ProviderAssumption ==
    /\ RawRuns \subseteq Runs
    /\ Runs \cap Closers = {}
    /\ NoOne \notin Runs \cup Closers
    /\ Tries \in Nat \ {0} /\ MaxUses \in Nat
    /\ Refusals \in BOOLEAN

Callers == Runs \cup Closers
Pages == Runs \cup {NoOne}
Commands == {"open", "eval", "reload", "read", "screenshot", "close"}

VARIABLES
    holder,     \* the run that holds the namespace's lock, or NoOne
    place,      \* place[c]: where caller c is in its script
    cmd,        \* cmd[c]: the command of the call c is inside, or "none"
    launcher,   \* launcher[c]: the CLI process of that call
    output,     \* output[c]: what is in the call's own output file
    queue,      \* commands sent to the daemon and not performed yet
    page,       \* whose page the browser shows, NoOne when it shows none
    bridge,     \* whether that page has published window.__gameForge
    image,      \* whose page the picture at the screenshot path shows
    late,       \* the callers whose context has ended
    tries,      \* tries[r]: polls left in the current WaitForBridge
    uses,       \* uses[r]: reads and screenshots so far
    reports,    \* reports[r]: the pages r has told its caller about
    blind       \* history: runs that took an unread answer for a success

vars == <<holder, place, cmd, launcher, output, queue, page, bridge,
          image, late, tries, uses, reports, blind>>

script == <<holder, place, tries, uses, reports, blind>>
browser == <<queue, page, bridge, image>>

-----------------------------------------------------------------------------
(* Output files of calls: an envelope with its success, the page read and   *)
(* the bridge polled for; torn while no JSON object from { to } is there.   *)

Answers == [form : {"torn", "whole"}, ok : BOOLEAN, of : Pages, bridge : BOOLEAN]
Empty == [form |-> "empty"]
Error == [form |-> "error"]   \* what a call that fails hands its caller

Complete(out) == out.form = "whole"

\* parseEnvelope: only a complete envelope that reports success passes.
Parsed(out) == Complete(out) /\ out.ok

-----------------------------------------------------------------------------
(* The detached browser. *)

Sent == [cmd : Commands, of : Callers, by : Callers \cup {NoOne}]

\* What c's command needs of the browser to succeed.
CanPerform(c, what) ==
    CASE what = "open"       -> TRUE
      [] what = "close"      -> TRUE
      [] what = "read"       -> page # NoOne /\ (bridge \/ c \in RawRuns)
      [] OTHER               -> page # NoOne

\* The launcher, if it is still there, begins to write the answer to its
\* stdout, the output file.
Answered(c, what, ok) ==
    output' = IF c = NoOne THEN output
              ELSE [output EXCEPT ![c] =
                      [form |-> "torn", ok |-> ok,
                       of |-> IF ok /\ what = "read" THEN page ELSE NoOne,
                       bridge |-> ok /\ what = "eval" /\ bridge]]

\* The daemon performs the oldest command and answers the launcher, if it
\* is still there.
Perform ==
    /\ queue # <<>>
    /\ LET next == Head(queue) IN
       /\ CanPerform(next.of, next.cmd)
       /\ page' = CASE next.cmd = "open" -> next.of
                    [] next.cmd = "close" -> NoOne
                    [] OTHER -> page
       /\ bridge' = (bridge /\ next.cmd \notin {"open", "close", "reload"})
       /\ image' = IF next.cmd = "screenshot" THEN page ELSE image
       /\ Answered(next.by, next.cmd, TRUE)
    /\ queue' = Tail(queue)
    /\ UNCHANGED <<script, cmd, launcher, late>>

\* It answers success:false and changes nothing.
Refuse ==
    /\ queue # <<>>
    /\ LET next == Head(queue) IN
       /\ Refusals \/ ~CanPerform(next.of, next.cmd)
       /\ Answered(next.by, next.cmd, FALSE)
    /\ queue' = Tail(queue)
    /\ UNCHANGED <<script, cmd, launcher, page, bridge, image, late>>

\* The game publishes its bridge some time after the page has loaded; a
\* production page never does.
BridgeComesUp ==
    /\ page \in Runs \ RawRuns
    /\ ~bridge
    /\ bridge' = TRUE
    /\ UNCHANGED <<script, cmd, launcher, output, queue, page, image, late>>

\* The browser crashes with what it was sent.
BrowserDies ==
    /\ page # NoOne \/ queue # <<>>
    /\ page' = NoOne
    /\ bridge' = FALSE
    /\ queue' = <<>>
    /\ UNCHANGED <<script, cmd, launcher, output, image, late>>

-----------------------------------------------------------------------------
(* The launcher of a call: the CLI process, which may stop anywhere and     *)
(* need never exit: it may wait on the daemon it has started for ever.      *)

\* It delivers its command to the daemon.
Send(c) ==
    /\ launcher[c] = "started"
    /\ launcher' = [launcher EXCEPT ![c] = "sent"]
    /\ queue' = Append(queue, [cmd |-> cmd[c], of |-> c, by |-> c])
    /\ UNCHANGED <<script, cmd, output, page, bridge, image, late>>

\* It has written the rest of the answer.
WriteRest(c) ==
    /\ output[c].form = "torn"
    /\ output' = [output EXCEPT ![c].form = "whole"]
    /\ UNCHANGED <<script, cmd, launcher, browser, late>>

\* The caller's context ends: a deadline of the request, or a client gone.
ContextEnds(c) ==
    /\ c \notin late
    /\ place[c] \notin {"idle", "done"}
    /\ late' = late \cup {c}
    /\ UNCHANGED <<script, cmd, launcher, output, browser>>

-----------------------------------------------------------------------------
(* The session script. *)

\* Mutant: the page is opened without the namespace's lock.
AcquireUnlocked(r) ==
    /\ place[r] = "idle"
    /\ holder' = r
    /\ place' = [place EXCEPT ![r] = "open"]
    /\ UNCHANGED <<cmd, launcher, output, browser, late, tries, uses, reports, blind>>

\* openBrowserMode takes the namespace's lock and opens the run's page.
Acquire(r) ==
    /\ place[r] = "idle"
    /\ holder = NoOne
    /\ holder' = r
    /\ place' = [place EXCEPT ![r] = "open"]
    /\ UNCHANGED <<cmd, launcher, output, browser, late, tries, uses, reports, blind>>

\* The commands a caller may issue where it stands.
Wants(c, what) ==
    CASE place[c] = "open"                -> what = "open"
      [] place[c] \in {"poll", "repoll"}  -> what = "eval"
      [] place[c] = "reload"              -> what = "reload"
      [] place[c] = "using"               -> what \in {"read", "screenshot"} /\ uses[c] < MaxUses
      [] place[c] = "closing"             -> what = "close"
      [] OTHER                            -> FALSE

\* runRaw: an output file of its own, then the launcher.
Start(c) ==
    /\ cmd[c] = "none"
    /\ \E what \in Commands :
         /\ Wants(c, what)
         /\ cmd' = [cmd EXCEPT ![c] = what]
         /\ launcher' = [launcher EXCEPT ![c] = "started"]
         /\ output' = [output EXCEPT ![c] = Empty]
    /\ UNCHANGED <<script, browser, late>>

\* The script goes on.
Enter(c, next) == place' = [place EXCEPT ![c] = next]

\* The operation is over: the lock, the context and the session's state go.
Leave(c) ==
    /\ Enter(c, "done")
    /\ holder' = IF holder = c THEN NoOne ELSE holder
    /\ late' = late \ {c}
    /\ tries' = [r \in Runs |-> IF r = c THEN 0 ELSE tries[r]]
    /\ uses' = [r \in Runs |-> IF r = c THEN 0 ELSE uses[r]]
    /\ reports' = [r \in Runs |-> IF r = c THEN {} ELSE reports[r]]
    /\ blind' = blind \ {c}

\* Open and Screenshot drop the answer: only an error of the call stops them.
Unread(c, result) == blind' = IF Parsed(result) THEN blind ELSE blind \cup {c}

AfterOpen(c, result) ==
    IF result = Error
    THEN Leave(c)
    ELSE /\ Unread(c, result)
         /\ Enter(c, IF c \in RawRuns THEN "using" ELSE "poll")
         /\ tries' = [tries EXCEPT ![c] = Tries]
         /\ UNCHANGED <<holder, late, uses, reports>>

\* Mutant: the last poll is followed by one more.
AfterPollOneMore(c, result) ==
    LET up == result # Error /\ Parsed(result) /\ result.bridge
        over == c \in late \/ tries[c] = 0
    IN  IF ~up /\ over /\ place[c] = "repoll"
        THEN Leave(c)
        ELSE /\ tries' = [tries EXCEPT ![c] = @ - 1]
             /\ Enter(c, IF up THEN "using"
                         ELSE IF over THEN "reload" ELSE place[c])
             /\ UNCHANGED <<holder, late, uses, reports, blind>>

\* WaitForBridge: the next poll, unless the bridge is up, the polls are used
\* up or the context has ended; then one reload and as many polls again.
AfterPoll(c, result) ==
    LET up == result # Error /\ Parsed(result) /\ result.bridge
        over == c \in late \/ tries[c] = 1
    IN  IF ~up /\ over /\ place[c] = "repoll"
        THEN Leave(c)
        ELSE /\ tries' = [tries EXCEPT ![c] = @ - 1]
             /\ Enter(c, IF up THEN "using"
                         ELSE IF over THEN "reload" ELSE place[c])
             /\ UNCHANGED <<holder, late, uses, reports, blind>>

AfterReload(c) ==
    /\ Enter(c, "repoll")
    /\ tries' = [tries EXCEPT ![c] = Tries]
    /\ UNCHANGED <<holder, late, uses, reports, blind>>

\* A read is reported when its envelope passes; a screenshot is reported
\* from the file at its path when the call itself did not fail.
AfterUse(c, result) ==
    LET shot == cmd[c] = "screenshot" /\ result # Error /\ image # NoOne
        read == cmd[c] = "read" /\ result # Error /\ Parsed(result)
    IN  /\ uses' = [uses EXCEPT ![c] = @ + 1]
        /\ reports' = [reports EXCEPT ![c] =
                         @ \cup (IF shot THEN {image} ELSE IF read THEN {result.of} ELSE {})]
        /\ IF shot THEN Unread(c, result) ELSE UNCHANGED blind
        /\ UNCHANGED <<holder, late, place, tries>>

Continue(c, result) ==
    CASE place[c] = "open"               -> AfterOpen(c, result)
      [] place[c] \in {"poll", "repoll"} -> AfterPoll(c, result)
      [] place[c] = "reload"             -> AfterReload(c)
      [] place[c] = "using"              -> AfterUse(c, result)
      [] place[c] = "closing"            -> Leave(c)

\* The session's user is finished (or gives up after a failed call): the run
\* keeps the browser and gives the namespace back.
EndSession(r) ==
    /\ place[r] = "using"
    /\ cmd[r] = "none"
    /\ Leave(r)
    /\ UNCHANGED <<cmd, launcher, output, browser>>

\* A caller without the lock closes the namespace's browser.
BeginClose(c) ==
    /\ place[c] = "idle"
    /\ Enter(c, "closing")
    /\ UNCHANGED <<holder, cmd, launcher, output, browser, late, tries, uses, reports, blind>>

-----------------------------------------------------------------------------
(* The ends of a call: the select of runRaw. *)

\* Mutant: its output is a pipe, which the daemon it started keeps open.
ReapedThroughPipe(c) == page = NoOne

\* The process has been waited for: killed, it is gone at once, because its
\* output is a file and nobody waits for the daemon that inherited it.
Reaped(c) == TRUE

\* The deferred close and removal of the file, the process gone; what it sent
\* stays with the daemon and is answered to nobody.
CallEnds(c) ==
    /\ cmd' = [cmd EXCEPT ![c] = "none"]
    /\ launcher' = [launcher EXCEPT ![c] = "none"]
    /\ output' = [output EXCEPT ![c] = Empty]
    /\ queue' = [i \in DOMAIN queue |->
                   IF queue[i].by = c THEN [queue[i] EXCEPT !.by = NoOne] ELSE queue[i]]
    /\ UNCHANGED <<page, bridge, image>>

Running(c) == launcher[c] # "none"

\* The launcher has exited, or could not be started: its output, or an error
\* when its status is one
\* and the output is not a complete answer.
ReturnExit(c) ==
    /\ Running(c)
    /\ \E failed \in BOOLEAN :
         Continue(c, IF failed /\ ~Complete(output[c]) THEN Error ELSE output[c])
    /\ CallEnds(c)

\* A tick finds a complete answer in the file: the launcher is killed.
ReturnEarly(c) ==
    /\ Running(c)
    /\ Complete(output[c])
    /\ Reaped(c)
    /\ Continue(c, output[c])
    /\ CallEnds(c)

\* The context has ended.
ReturnContext(c) ==
    /\ Running(c)
    /\ c \in late
    /\ Reaped(c)
    /\ Continue(c, Error)
    /\ CallEnds(c)

\* The per-call deadline fires.
ReturnDeadline(c) ==
    /\ Running(c)
    /\ Reaped(c)
    /\ Continue(c, Error)
    /\ CallEnds(c)

-----------------------------------------------------------------------------
Init ==
    /\ holder = NoOne
    /\ place = [c \in Callers |-> "idle"]
    /\ cmd = [c \in Callers |-> "none"]
    /\ launcher = [c \in Callers |-> "none"]
    /\ output = [c \in Callers |-> Empty]
    /\ queue = <<>>
    /\ page = NoOne /\ bridge = FALSE /\ image = NoOne
    /\ late = {}
    /\ tries = [r \in Runs |-> 0]
    /\ uses = [r \in Runs |-> 0]
    /\ reports = [r \in Runs |-> {}]
    /\ blind = {}

Kill(c) == ReturnEarly(c) \/ ReturnContext(c) \/ ReturnDeadline(c)
Return(c) == ReturnExit(c) \/ Kill(c)

BrowserStep == Perform \/ Refuse \/ BridgeComesUp \/ BrowserDies

Next ==
    \/ BrowserStep
    \/ \E c \in Callers : Send(c) \/ WriteRest(c) \/ ContextEnds(c) \/ Start(c) \/ Return(c)
    \/ \E r \in Runs : Acquire(r) \/ EndSession(r)
    \/ \E c \in Closers : BeginClose(c)

\* Goroutines that can run do, and the deadline's timer fires; nothing is
\* asked of the launchers or of the browser.
Fairness ==
    /\ \A c \in Callers : WF_vars(Start(c)) /\ WF_vars(Kill(c))
    /\ \A r \in Runs : WF_vars(EndSession(r))

Spec == Init /\ [][Next]_vars /\ Fairness

-----------------------------------------------------------------------------
(* Properties.                                                             *)

Places == {"idle", "open", "poll", "reload", "repoll", "using", "closing", "done"}

\* Type correctness; a caller inside a call has a launcher and only then.
TypeOK ==
    /\ holder \in Runs \cup {NoOne}
    /\ place \in [Callers -> Places]
    /\ cmd \in [Callers -> Commands \cup {"none"}]
    /\ launcher \in [Callers -> {"none", "started", "sent"}]
    /\ \A c \in Callers : cmd[c] = "none" <=> launcher[c] = "none"
    /\ output \in [Callers -> Answers \cup {Empty}]
    /\ queue \in Seq(Sent)
    /\ page \in Pages /\ image \in Pages
    /\ bridge \in BOOLEAN /\ (bridge => page \in Runs \ RawRuns)
    /\ late \subseteq Callers
    /\ tries \in [Runs -> 0 .. Tries]
    /\ uses \in [Runs -> 0 .. MaxUses]
    /\ reports \in [Runs -> SUBSET Runs]
    /\ blind \subseteq Runs

\* What a session reads or pictures is the page it opened itself, although
\* launchers are killed while their commands wait in the daemon, another
\* process closes the browser and pages of earlier sessions stay open: only a
\* session that went on after an answer it did not read (a refused open or
\* screenshot) can report another's page.
ReportsAreOwn ==
    \A r \in Runs \ blind : reports[r] \subseteq {r}

\* Every operation ends and gives the namespace back, although a launcher
\* may never exit and its browser may never answer.
OperationsEnd ==
    \A c \in Callers : place[c] # "idle" ~> place[c] = "done" /\ holder # c

=============================================================================
