------------------------------ MODULE RunDispatch ------------------------------
(***************************************************************************)
(* One call of an operation from end to end: prepared, executed and        *)
(* answered by the daemon, and followed by the caller over one of four     *)
(* transports: a plain reply, a stream of events, MCP in the daemon, or    *)
(* MCP on standard input and output, which is a stream behind an MCP       *)
(* server.  The caller may leave, the context may end and the daemon may   *)
(* die at any time.                                                        *)
(*                                                                         *)
(* Source: internal/daemon/server.go, internal/client/client.go,           *)
(* internal/mcpfrontend/frontend.go.                                       *)
(***************************************************************************)
EXTENDS OperationRun, FiniteSetsExt, SequencesExt

CONSTANTS
  Requests,    \* requests a caller may make
  Transports   \* "simple", "stream", "mcp", "mcp_stdio"

VARIABLES
  transport,  \* how the caller is connected
  phase,      \* "asked", "rejected", "running", "ended" or "dead"
  decided,    \* what the daemon has decided: "none", "pass" or "fail"
  read,       \* how many of the events have reached the caller's side
  shown,      \* stages and artifacts the caller has been shown
  told        \* what the caller has been told: "nothing", "pass", "fail" or "error"

callVars == <<transport, phase, decided, read, shown, told>>
vars == <<frameVars, profileVars, adapterVars, handlerVars, callVars>>

Transport == {"simple", "stream", "mcp", "mcp_stdio"}
Streams == {"stream", "mcp_stdio"}
Mcp == {"mcp", "mcp_stdio"}

ASSUME CallAssumption == Transports \subseteq Transport /\ Requests \subseteq Request

Promise == INSTANCE RunPromise WITH decided <- decided, told <- told

Init ==
  /\ \E req \in Requests : HandlerInit(req)
  /\ transport \in Transports
  /\ phase = "asked" /\ decided = "none"
  /\ read = 0 /\ shown = <<>> /\ told = "nothing"

------------------------------------------------------------------------------
(* The daemon                                                              *)

\* Over a stream, the events of the dispatch itself frame those of the handler.
Emit(kind, ok) ==
  sent' = IF transport \in Streams THEN Append(sent, Event(kind, <<NoName, NoName>>, ok)) ELSE sent

\* prepare refuses: an unknown operation, a project besides a directory, a project that
\* cannot be resolved, or invalid arguments.
Reject ==
  /\ phase = "asked"
  /\ phase' = "rejected" /\ decided' = "fail"
  /\ UNCHANGED <<frameVars, profileVars, adapterVars, handlerVars, transport, read, shown, told>>

Accept ==
  /\ phase = "asked"
  /\ phase' = "running" /\ at' = "core"
  /\ Emit("start", TRUE)
  /\ UNCHANGED <<ctx, defers, up, results, profileVars, adapterVars>>
  /\ UNCHANGED <<request, pending, headless, inBrowser, verdict, transport, decided, read, shown, told>>

Handle == phase = "running" /\ HandlerStep /\ UNCHANGED callVars
Outside == phase = "running" /\ OutsideStep /\ UNCHANGED callVars

\* An output that violates its schema turns the outcome into a failure.
Finish ==
  /\ phase = "running" /\ Returned
  /\ phase' = "ended"
  /\ decided' \in {verdict, "fail"}
  /\ Emit("done", decided' = "pass")
  /\ UNCHANGED <<ctx, defers, up, results, profileVars, adapterVars, handlerVars>>
  /\ UNCHANGED <<transport, read, shown, told>>

\* A deadline passes, or the daemon notices that the caller has left.
EndContext ==
  /\ phase = "running" /\ ctx = "live"
  /\ ctx' = "over"
  /\ UNCHANGED <<defers, up, results, sent, profileVars, adapterVars, handlerVars, callVars>>

\* Killed, or gone once the drain of a stop is over.  Of the events already sent, a caller that
\* follows them may get some.
Die ==
  /\ phase \in {"asked", "running"}
  /\ phase' = "dead"
  /\ IF told = "nothing" /\ transport # "simple"
       THEN \E n \in read .. Len(sent) : sent' = SubSeq(sent, 1, n)
       ELSE UNCHANGED sent
  /\ UNCHANGED <<ctx, defers, up, results, profileVars, adapterVars, handlerVars>>
  /\ UNCHANGED <<transport, decided, read, shown, told>>

------------------------------------------------------------------------------
(* The caller                                                              *)

Here == UNCHANGED <<frameVars, profileVars, adapterVars, handlerVars, transport, phase, decided>>

\* What of an event a caller is shown: start and done are for the client only, and MCP
\* leaves out what repeats the message before, details included.
Shown(event) ==
  IF event.ev \notin {"stage", "artifact"} THEN {shown}
  ELSE IF transport \in Mcp /\ shown # <<>> /\ Last(shown) = event THEN {shown, Append(shown, event)}
  ELSE {Append(shown, event)}

\* A plain reply comes without events.
Deliver ==
  /\ told = "nothing" /\ transport # "simple"
  /\ read < Len(sent)
  /\ read' = read + 1
  /\ shown' \in Shown(sent[read + 1])
  /\ Here /\ UNCHANGED told

\* The caller is told the outcome in one reply.
Reply ==
  /\ told = "nothing"
  /\ \/ transport = "simple"
     \/ transport = "mcp" /\ read = Len(sent)
     \/ transport \in Streams /\ phase = "rejected"
  /\ \/ phase \in {"rejected", "ended"} /\ told' = decided
     \/ phase = "dead" /\ told' = "error"
  /\ Here /\ UNCHANGED <<read, shown>>

Dones == { i \in DOMAIN sent : sent[i].ev = "done" }

\* Mutant: the end of a stream is taken for success unless a failure was seen.
StreamEndsQuietly ==
  /\ told = "nothing" /\ transport \in Streams
  /\ phase \in {"ended", "dead"} /\ read = Len(sent)
  /\ told' = IF Dones = {} \/ sent[Max(Dones)].ok THEN "pass" ELSE "fail"
  /\ Here /\ UNCHANGED <<read, shown>>

\* At the end of the stream the last done event counts; without one the outcome is unknown.
StreamEnds ==
  /\ told = "nothing" /\ transport \in Streams
  /\ phase \in {"ended", "dead"} /\ read = Len(sent)
  /\ told' = IF Dones = {} THEN "error" ELSE IF sent[Max(Dones)].ok THEN "pass" ELSE "fail"
  /\ Here /\ UNCHANGED <<read, shown>>

\* The caller leaves, times out or loses the connection.
Disconnect ==
  /\ told = "nothing"
  /\ told' = "error"
  /\ Here /\ UNCHANGED <<read, shown>>

Daemon == Reject \/ Accept \/ Handle \/ Outside \/ Finish \/ EndContext \/ Die
Caller == Deliver \/ Reply \/ StreamEnds \/ Disconnect
Next == Daemon \/ Caller

\* Every step of a handler is bounded by a deadline of its own or that of its context, every
\* operation has a deadline, and the caller reads on.  Nothing is assumed of the adapter, not
\* even that it reads, nor of what a tool leaves behind.
Fairness ==
  /\ WF_vars(Reject \/ Accept) /\ WF_vars(~Unread /\ Handle) /\ WF_vars(Finish) /\ WF_vars(EndContext)
  /\ WF_vars(Deliver) /\ WF_vars(Reply) /\ WF_vars(StreamEnds)

Spec == Init /\ [][Next]_vars /\ Fairness

------------------------------------------------------------------------------
(* Types                                                                   *)

\* The values the variables may have; a profile is left at most one stage past its end.
TypeOK ==
  /\ ctx \in {"live", "over"}
  /\ defers \in BoundedSeq(Things, 3)
  /\ up \subseteq Things
  /\ \A i \in DOMAIN results : results[i].ok \in BOOLEAN
  /\ \A i \in DOMAIN sent : sent[i].ev \in {"start", "stage", "artifact", "done"}
  /\ \A i \in DOMAIN frames :
       /\ frames[i].profile \in DOMAIN Profiles
       /\ frames[i].at \in 1 .. Len(Profiles[frames[i].profile]) + 1
  /\ step \in Steps /\ {outcome, late, broken, reading} \subseteq BOOLEAN
  /\ child \in {"none", "running", "exited", "killed"}
  /\ \A i \in DOMAIN asks : asks[i].what \in {"list", "run"} /\ asks[i].call \in 1 .. calls
  /\ \A i \in DOMAIN lines : lines[i].to \in 0 .. calls /\ lines[i].body \in Bodies
  /\ strays \in 0 .. MaxStray
  /\ request \in Requests /\ \A i \in DOMAIN pending : pending[i] \in Scenarios
  /\ {headless, inBrowser} \subseteq Reports \cup {EmptyReport}
  /\ verdict \in {"none", "pass", "fail"} /\ decided \in {"none", "pass", "fail"}
  /\ transport \in Transports
  /\ phase \in {"asked", "rejected", "running", "ended", "dead"}
  /\ read \in Nat /\ told \in {"nothing", "pass", "fail", "error"}

------------------------------------------------------------------------------
(* Properties                                                              *)

\* The profiles that a profile refers to; and those that lead into no cycle of references: any
\* set they are in has a member that refers to none of the set.
Refers(p) == { Profiles[p][i].uses : i \in { j \in DOMAIN Profiles[p] : Profiles[p][j].mode = "uses" } }
Grounded ==
  { p \in DOMAIN Profiles :
      \A S \in SUBSET DOMAIN Profiles : p \in S => \E q \in S : Refers(q) \cap S = {} }

\* A place in a profile from which on no stage leads into a cycle.
StageNames == UNION { { Profiles[p][i].name : i \in DOMAIN Profiles[p] } : p \in DOMAIN Profiles }
Frames == [profile : DOMAIN Profiles, at : Nat \ {0}, via : {NoName} \cup StageNames]
Ending ==
  { f \in Frames : \A i \in f.at .. Len(Profiles[f.profile]) :
      Profiles[f.profile][i].mode = "uses" => Profiles[f.profile][i].uses \in Grounded }

\* What a run has to pass from such a place on: the stages in order, nested ones in place,
\* each under its own name and that of the reference it is reached by.
Left[f \in Ending] ==
  IF f.at > Len(Profiles[f.profile]) THEN <<>>
  ELSE LET stage == Profiles[f.profile][f.at]
           first == IF stage.mode = "uses" THEN Left[Frame(stage.uses, stage.name)]
                    ELSE <<<<f.via, stage.name>>>>
       IN first \o Left[[f EXCEPT !.at = @ + 1]]

\* What has to pass for a request to pass, as far as the request and the project tell.
Demanded ==
  CASE Asked("profile.run") -> Left[Frame(request.profile, NoName)]
    [] Asked("scenario.compare") ->
         LET ids == IF request.ids = <<>> THEN Catalogue ELSE request.ids
         IN [i \in DOMAIN ids |-> <<NoName, ids[i]>>]
    [] OTHER -> [i \in DOMAIN results |-> results[i].name]

\* What is to be seen of outcomes: a stage event each, or the picture that is taken.
Picture == Event("artifact", <<NoName, NoName>>, TRUE)
Visible(outcomes) ==
  IF Asked("visual.shot") THEN <<Picture>> ELSE [i \in DOMAIN outcomes |-> StageEvent(outcomes[i])]

\* Events that MCP may leave out, and what is shown when it does.
Repeats(events) == { i \in DOMAIN events : i > 1 /\ events[i] = events[i - 1] }
ShownBut(events, gaps) ==
  /\ Len(shown) = Len(events) - Cardinality(gaps)
  /\ \A i \in DOMAIN events \ gaps : shown[i - Cardinality({ gap \in gaps : gap < i })] = events[i]

\* Whoever is told that a run has passed can rely on it: every stage of the profile, nested
\* ones included, or every scenario asked for has been run, in order and once, and has
\* passed; a caller that follows events has been shown each of them, and the picture, before,
\* but for repeats over MCP; and a profile that leads into a cycle is never said to have
\* passed.  (The list of all scenarios is only as good as the child: nothing is said if it
\* printed a line nobody asked for.)
PassIsComplete ==
  told = "pass" /\ strays = 0 =>
    /\ Asked("profile.run") => Frame(request.profile, NoName) \in Ending
    /\ results = [i \in DOMAIN Demanded |-> [name |-> Demanded[i], ok |-> TRUE]]
    /\ transport # "simple" =>
         \E gaps \in SUBSET (IF transport \in Mcp THEN Repeats(Visible(results)) ELSE {}) :
           ShownBut(Visible(results), gaps)

\* A handler gives back all it has acquired before its operation counts as ended, the core
\* last, and a server of a stage outlives the page that shows it: whatever failed on the way.
OrderlyCleanup ==
  /\ Returned => up = {} /\ child = "none"
  /\ up # {} => "core" \in up
  /\ \A i \in DOMAIN defers : defers[i] = "prod" => \A j \in 1 .. i - 1 : defers[j] # "session"

\* A result that an adapter call returns is the answer to that very call, although numbers are
\* never compared, however many calls have failed or given up before; unless the child
\* prints lines nobody asked for.
AnswersBelong == answer.ok /\ strays = 0 => answer.line.to = answer.call

\* Provided that names of checks are unique in each report, a comparison passes exactly if
\* digest, verdict and every check agree; and also where they repeat, none passes with an
\* outcome in the browser that the adapter has not reported.
MatchIsAgreement ==
  [][ at = "compare" /\ Len(results') > Len(results) =>
        /\ Last(results').ok => Covers(headless, inBrowser)
        /\ NamesAreUnique(headless.checks) /\ NamesAreUnique(inBrowser.checks)
             => (Last(results').ok <=> Agree(headless, inBrowser)) ]_vars

\* A stage that begins after the deadline, or after the caller has left, cannot pass: the run of
\* the remaining stages that follows in any case cannot turn out well.
LateStagesFail == outcome => ~late

\* The caller is told at most once, and nothing but what the daemon has decided or that
\* the outcome is unknown; a stream cut short is never taken for a success.
KeepsPromise == Promise!Spec

\* A wait that no deadline ends: a process that a tool has left behind with its output, or an
\* adapter that does not read a long request.
Stuck == step = "held" \/ Unread

\* Every call is answered, even if the adapter never prints a line; only what is Stuck can hold
\* it up.
EveryCallIsAnswered == (told = "nothing") ~> (told # "nothing" \/ Stuck)

\* A run ends, even if its caller has left, unless the daemon dies or the run is Stuck.
EveryRunEnds == (phase = "running") ~> (phase \in {"ended", "dead"} \/ Stuck)

================================================================================
