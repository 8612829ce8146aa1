---------------------------- MODULE ProjectRegistry ----------------------------
(***************************************************************************)
(* The registry of projects: one file that maps project codes to project   *)
(* roots, changed by CLI commands and read by the daemon.                   *)
(*                                                                         *)
(* Add and Remove load the whole file, change it in memory and store it by *)
(* a rename, under a mutex of their own process only.  Resolve takes no    *)
(* lock: it reads the file, looks at the root and then compares the        *)
(* identity of the project it finds there with the registered one.         *)
(* Checkouts are edited, moved, linked and deleted at any time.             *)
(* A key is the pair of project id and canonical root: collisions of the   *)
(* shortened hash are left out.                                            *)
(*                                                                         *)
(* Source: internal/project/registry.go, internal/project/key.go,          *)
(* internal/project/project.go, internal/daemon/server.go.                 *)
(***************************************************************************)
EXTENDS Naturals, Sequences, FiniteSets

CONSTANTS
  Callers,    \* threads that call the registry
  Processes,  \* processes, each with one Registry
  ProcessOf,  \* the process of each caller
  Spellings,  \* what users type for a project code
  Codes,      \* canonical project codes
  Canon,      \* the canonical code of each spelling, BadCode if it has none
  BadCode,
  Dirs,       \* directories
  Enclosing,  \* the directories above each directory, innermost first
  Ids,        \* project ids
  NoReg,      \* no registration
  Nobody,     \* no caller
  Broken,     \* content of a directory: a manifest that does not load
  Bare,       \* content of a directory: no manifest
  Gone,       \* content of a directory: it does not exist
  Initially,  \* the content of each directory at the start
  MaxCalls,   \* bound: calls of the registry
  MaxEvents   \* bound: changes of directories and deaths of processes

ASSUME CallersAssumption == ProcessOf \in [Callers -> Processes] /\ Nobody \notin Callers
ASSUME CodesAssumption == Canon \in [Spellings -> Codes \cup {BadCode}] /\ BadCode \notin Codes
ASSUME DirsAssumption == Enclosing \in [Dirs -> Seq(Dirs)]
ASSUME ContentAssumption ==
  /\ {Broken, Bare, Gone} \cap (Ids \cup Dirs) = {}
  /\ Initially \in [Dirs -> Ids \cup {Broken, Bare, Gone} \cup Dirs]
  /\ \A d \in Dirs : Initially[d] \in Dirs => Initially[Initially[d]] \notin Dirs
ASSUME BoundsAssumption == MaxCalls \in Nat /\ MaxEvents \in Nat

VARIABLES
  holds,    \* what each directory holds: a project, Broken, Bare, Gone or a link
  file,     \* the registry file
  mu,       \* the mutex of each process's Registry
  pc,       \* where each call is
  req,      \* what it does, with which code and registration
  mem,      \* the list it is about to store
  found,    \* the registration a resolution has found
  answer,   \* what the last resolution of each caller returned
  calls, events,
  stale,    \* history: callers whose loaded list another process has since replaced
  window    \* history: what the code of a resolution stood for since it began

callVars == <<mu, pc, req, mem, found, answer>>
boundVars == <<calls, events>>
historyVars == <<stale, window>>
vars == <<holds, file, callVars, boundVars, historyVars>>

------------------------------------------------------------------------------
Contents == Ids \cup {Broken, Bare, Gone} \cup Dirs
Registration == [code : Codes, root : Dirs, id : Ids, key : Ids \X Dirs]
Lists == Seq(Registration)

ASSUME NoRegAssumption == NoReg \notin Registration

\* The file is missing, holds a list, or is no JSON document.
Missing == [state |-> "missing", list |-> <<>>]
Torn == [state |-> "torn", list |-> <<>>]
Stored(list) == [state |-> "stored", list |-> list]
Files == [state : {"missing", "torn", "stored"}, list : Lists]

\* Symlinks are resolved; one link never leads to another.
CanonicalRoot(d) == IF holds[d] \in Dirs THEN holds[d] ELSE d
Content(d) == holds[CanonicalRoot(d)]
KeyFor(id, d) == <<id, CanonicalRoot(d)>>

\* The nearest directory with a manifest file, in a set of one or none.
Discover(d) ==
  LET up == <<d>> \o Enclosing[d]
      Has(i) == Content(up[i]) \in Ids \cup {Broken}
  IN { up[i] : i \in { j \in DOMAIN up : Has(j) /\ \A k \in 1 .. (j - 1) : ~Has(k) } }

\* The first entry of a code, in a set of one or none.
FirstIndex(list, code) ==
  { i \in DOMAIN list : list[i].code = code /\ \A j \in 1 .. (i - 1) : list[j].code # code }

Lookup(f, code) ==
  IF FirstIndex(f.list, code) = {} THEN NoReg
  ELSE f.list[CHOOSE i \in FirstIndex(f.list, code) : TRUE]

\* The list without its i-th entry.
Without(list, i) == [k \in 1 .. (Len(list) - 1) |-> IF k < i THEN list[k] ELSE list[k + 1]]

NoRequest == [op |-> "none", code |-> BadCode, reg |-> NoReg, replace |-> FALSE]
Request ==
  [op : {"none", "add", "remove", "resolve"}, code : Codes \cup {BadCode},
   reg : Registration \cup {NoReg}, replace : BOOLEAN]

Answers == {"none", "unknown", "unavailable", "changed"} \cup Dirs

\* The registry is new, or holds one project that was registered earlier.
Init ==
  /\ holds = Initially
  /\ \/ file = Missing
     \/ \E k \in Codes, d \in Dirs :
          /\ holds[d] \in Ids
          /\ file = Stored(<<[code |-> k, root |-> d, id |-> holds[d], key |-> KeyFor(holds[d], d)]>>)
  /\ mu = [p \in Processes |-> Nobody]
  /\ pc = [c \in Callers |-> "idle"]
  /\ req = [c \in Callers |-> NoRequest]
  /\ mem = [c \in Callers |-> <<>>]
  /\ found = [c \in Callers |-> NoReg]
  /\ answer = [c \in Callers |-> "none"]
  /\ calls = 0 /\ events = 0
  /\ stale = {}
  /\ window = [c \in Callers |-> {}]

------------------------------------------------------------------------------
(* The callers.                                                            *)

\* A call that returns releases what it holds and forgets its locals.  The errors and the
\* registration that Add and Remove return change nothing else.
Finish(c, result) ==
  /\ pc' = [pc EXCEPT ![c] = "idle"]
  /\ req' = [req EXCEPT ![c] = NoRequest]
  /\ mem' = [mem EXCEPT ![c] = <<>>]
  /\ found' = [found EXCEPT ![c] = NoReg]
  /\ answer' = [answer EXCEPT ![c] = result]
  /\ mu' = IF mu[ProcessOf[c]] = c THEN [mu EXCEPT ![ProcessOf[c]] = Nobody] ELSE mu

Go(c, place) ==
  /\ pc' = [pc EXCEPT ![c] = place]
  /\ answer' = [answer EXCEPT ![c] = "none"]
  /\ UNCHANGED <<mem, found, mu>>

\* Mutant: the folder is registered as it is given, whatever it holds.
AddUnvalidated(c) ==
  /\ pc[c] = "idle" /\ calls < MaxCalls
  /\ calls' = calls + 1
  /\ \E s \in Spellings, d \in Dirs, replace \in BOOLEAN :
       /\ Canon[s] # BadCode
       /\ req' = [req EXCEPT ![c] =
            [op |-> "add", code |-> Canon[s], replace |-> replace,
             reg |-> [code |-> Canon[s], root |-> d, id |-> Content(d), key |-> KeyFor(Content(d), d)]]]
       /\ Go(c, "lock")
  /\ UNCHANGED <<holds, file, events, historyVars>>

\* NormalizeCode and DiscoverAndLoad come before the lock.
BeginAdd(c) ==
  /\ pc[c] = "idle" /\ calls < MaxCalls
  /\ calls' = calls + 1
  /\ \E s \in Spellings, folder \in Dirs, replace \in BOOLEAN :
       LET roots == { d \in Discover(folder) : Content(d) \in Ids }
       IN \/ /\ Canon[s] = BadCode \/ roots = {}
             /\ Finish(c, "none")
          \/ \E d \in roots :
               /\ Canon[s] # BadCode
               /\ req' = [req EXCEPT ![c] =
                    [op |-> "add", code |-> Canon[s], replace |-> replace,
                     reg |-> [code |-> Canon[s], root |-> CanonicalRoot(d),
                              id |-> Content(d), key |-> KeyFor(Content(d), d)]]]
               /\ Go(c, "lock")
  /\ UNCHANGED <<holds, file, events, historyVars>>

BeginRemove(c) ==
  /\ pc[c] = "idle" /\ calls < MaxCalls
  /\ calls' = calls + 1
  /\ \E s \in Spellings :
       \/ Canon[s] = BadCode /\ Finish(c, "none")
       \/ /\ Canon[s] # BadCode
          /\ req' = [req EXCEPT ![c] = [NoRequest EXCEPT !.op = "remove", !.code = Canon[s]]]
          /\ Go(c, "lock")
  /\ UNCHANGED <<holds, file, events, historyVars>>

Lock(c) ==
  /\ pc[c] = "lock"
  /\ mu[ProcessOf[c]] = Nobody
  /\ mu' = [mu EXCEPT ![ProcessOf[c]] = c]
  /\ pc' = [pc EXCEPT ![c] = "load"]
  /\ UNCHANGED <<holds, file, req, mem, found, answer, boundVars, historyVars>>

\* Mutant: a replacement is appended.
AppendAlways(r, list) ==
  IF r.op = "remove" THEN { Without(list, i) : i \in FirstIndex(list, r.code) }
  ELSE IF FirstIndex(list, r.code) # {} /\ ~r.replace THEN {}
  ELSE {Append(list, r.reg)}

\* Mutant: an entry that stands in the way is replaced unasked.
ReplaceAlways(r, list) ==
  CASE r.op = "remove" -> { Without(list, i) : i \in FirstIndex(list, r.code) }
    [] r.op = "add" /\ FirstIndex(list, r.code) = {} -> {Append(list, r.reg)}
    [] OTHER -> { [list EXCEPT ![i] = r.reg] : i \in FirstIndex(list, r.code) }

\* What an Add or Remove makes of a list; none if it refuses.
Changed(r, list) ==
  CASE r.op = "remove" -> { Without(list, i) : i \in FirstIndex(list, r.code) }
    [] r.op = "add" /\ FirstIndex(list, r.code) = {} -> {Append(list, r.reg)}
    [] r.op = "add" /\ FirstIndex(list, r.code) # {} /\ r.replace ->
         { [list EXCEPT ![i] = r.reg] : i \in FirstIndex(list, r.code) }
    [] OTHER -> {}

\* Mutant: a file that cannot be read is taken for an empty registry.
LoadAnything(c) ==
  /\ pc[c] = "load"
  /\ \/ /\ Changed(req[c], file.list) = {}
        /\ Finish(c, "none")
        /\ UNCHANGED stale
     \/ /\ \E list \in Changed(req[c], file.list) : mem' = [mem EXCEPT ![c] = list]
        /\ pc' = [pc EXCEPT ![c] = "store"]
        /\ stale' = stale \ {c}
        /\ UNCHANGED <<req, found, answer, mu>>
  /\ UNCHANGED <<holds, file, boundVars, window>>

\* A malformed file is an error; an entry that stands in the way, or is missing, too.
Load(c) ==
  /\ pc[c] = "load"
  /\ \/ /\ file.state = "torn"
        /\ Finish(c, "none")
        /\ UNCHANGED stale
     \/ /\ file.state # "torn"
        /\ Changed(req[c], file.list) = {}
        /\ Finish(c, "none")
        /\ UNCHANGED stale
     \/ /\ file.state # "torn"
        /\ \E list \in Changed(req[c], file.list) : mem' = [mem EXCEPT ![c] = list]
        /\ pc' = [pc EXCEPT ![c] = "store"]
        /\ stale' = stale \ {c}
        /\ UNCHANGED <<req, found, answer, mu>>
  /\ UNCHANGED <<holds, file, boundVars, window>>

\* Histories of a rename by c: lists of other processes get stale, resolutions see it.
Renamed(c) ==
  /\ stale' = (stale \ {c}) \cup { d \in Callers : pc[d] = "store" /\ ProcessOf[d] # ProcessOf[c] }
  /\ window' = [d \in Callers |->
       IF req[d].op = "resolve" THEN window[d] \cup {Lookup(file', req[d].code)} ELSE window[d]]

Store(c) ==
  /\ pc[c] = "store"
  /\ file' = Stored(mem[c])
  /\ Renamed(c)
  /\ Finish(c, "none")
  /\ UNCHANGED <<holds, boundVars>>

\* No directory, temporary file, close or rename: the file stays as it was.
StoreFails(c) ==
  /\ pc[c] = "store"
  /\ Finish(c, "none")
  /\ stale' = stale \ {c}
  /\ UNCHANGED <<holds, file, boundVars, window>>

\* The error of Write and Sync is lost in an inner scope: what was written is renamed.
StoreTorn(c) ==
  /\ pc[c] = "store"
  /\ file' = Torn
  /\ Renamed(c)
  /\ Finish(c, "none")
  /\ UNCHANGED <<holds, boundVars>>

BeginResolve(c) ==
  /\ pc[c] = "idle" /\ calls < MaxCalls
  /\ calls' = calls + 1
  /\ \E s \in Spellings :
       \/ /\ Canon[s] = BadCode
          /\ Finish(c, "unknown")
          /\ UNCHANGED window
       \/ /\ Canon[s] # BadCode
          /\ req' = [req EXCEPT ![c] = [NoRequest EXCEPT !.op = "resolve", !.code = Canon[s]]]
          /\ window' = [window EXCEPT ![c] = {Lookup(file, Canon[s])}]
          /\ Go(c, "get")
  /\ UNCHANGED <<holds, file, events, stale>>

\* Mutant: what a writer of the process has not stored yet is taken for the registry.
GetUnstored(c) ==
  /\ pc[c] = "get"
  /\ LET p == ProcessOf[c]
         here == IF mu[p] # Nobody /\ mem[mu[p]] # <<>> THEN Stored(mem[mu[p]]) ELSE file
         reg == Lookup(here, req[c].code)
     IN \/ /\ reg = NoReg
           /\ Finish(c, "unknown")
           /\ window' = [window EXCEPT ![c] = {}]
        \/ /\ reg # NoReg
           /\ found' = [found EXCEPT ![c] = reg]
           /\ pc' = [pc EXCEPT ![c] = "stat"]
           /\ UNCHANGED <<req, mem, answer, mu, window>>
  /\ UNCHANGED <<holds, file, boundVars, stale>>

\* Get takes a file it cannot read for one without the code.
Get(c) ==
  /\ pc[c] = "get"
  /\ LET reg == Lookup(file, req[c].code)
     IN \/ /\ reg = NoReg
           /\ Finish(c, "unknown")
           /\ window' = [window EXCEPT ![c] = {}]
        \/ /\ reg # NoReg
           /\ found' = [found EXCEPT ![c] = reg]
           /\ pc' = [pc EXCEPT ![c] = "stat"]
           /\ UNCHANGED <<req, mem, answer, mu, window>>
  /\ UNCHANGED <<holds, file, boundVars, stale>>

StatRoot(c) ==
  /\ pc[c] = "stat"
  /\ \/ /\ Content(found[c].root) = Gone
        /\ Finish(c, "unavailable")
        /\ window' = [window EXCEPT ![c] = {}]
     \/ /\ Content(found[c].root) # Gone
        /\ req' = req
        /\ Go(c, "check")
        /\ UNCHANGED window
  /\ UNCHANGED <<holds, file, boundVars, stale>>

\* The project at the root may have been edited, moved or replaced.
Identity(reg) ==
  LET id == Content(reg.root)
  IN CASE id \notin Ids -> "unavailable"
       [] id \in Ids /\ (id # reg.id \/ KeyFor(id, reg.root) # reg.key) -> "changed"
       [] OTHER -> reg.root

CheckIdentity(c) ==
  /\ pc[c] = "check"
  /\ Finish(c, Identity(found[c]))
  /\ window' = [window EXCEPT ![c] = {}]
  /\ UNCHANGED <<holds, file, boundVars, stale>>

------------------------------------------------------------------------------
(* The environment.                                                        *)

\* Somebody creates, edits, breaks, links or deletes a checkout.
Edit ==
  /\ events < MaxEvents
  /\ events' = events + 1
  /\ \E d \in Dirs : \E v \in Contents \ {d} :
       /\ v \in Dirs => holds[v] \notin Dirs /\ \A e \in Dirs : holds[e] # d
       /\ holds' = [holds EXCEPT ![d] = v]
  /\ UNCHANGED <<file, callVars, calls, historyVars>>

\* A process dies with all its calls; a temporary file it leaves is never read.
Crash(p) ==
  LET Dies(c) == ProcessOf[c] = p
  IN /\ events < MaxEvents
     /\ events' = events + 1
     /\ \E c \in Callers : Dies(c) /\ pc[c] # "idle"
     /\ mu' = [mu EXCEPT ![p] = Nobody]
     /\ pc' = [c \in Callers |-> IF Dies(c) THEN "idle" ELSE pc[c]]
     /\ req' = [c \in Callers |-> IF Dies(c) THEN NoRequest ELSE req[c]]
     /\ mem' = [c \in Callers |-> IF Dies(c) THEN <<>> ELSE mem[c]]
     /\ found' = [c \in Callers |-> IF Dies(c) THEN NoReg ELSE found[c]]
     /\ answer' = [c \in Callers |-> IF Dies(c) THEN "none" ELSE answer[c]]
     /\ stale' = stale \ { c \in Callers : Dies(c) }
     /\ window' = [c \in Callers |-> IF Dies(c) THEN {} ELSE window[c]]
     /\ UNCHANGED <<holds, file, calls>>

\* The steps a call takes by itself once it has begun.
Proceed(c) ==
  Lock(c) \/ Load(c) \/ Store(c) \/ StoreFails(c) \/ StoreTorn(c)
    \/ Get(c) \/ StatRoot(c) \/ CheckIdentity(c)

Next ==
  \/ \E c \in Callers : BeginAdd(c) \/ BeginRemove(c) \/ BeginResolve(c) \/ Proceed(c)
  \/ Edit
  \/ \E p \in Processes : Crash(p)

Spec == Init /\ [][Next]_vars

------------------------------------------------------------------------------
(* Properties.                                                             *)

\* Shape of the registry, the calls and the directories.
TypeOK ==
  /\ holds \in [Dirs -> Contents]
  /\ file \in Files
  /\ mu \in [Processes -> Callers \cup {Nobody}]
  /\ pc \in [Callers -> {"idle", "lock", "load", "store", "get", "stat", "check"}]
  /\ req \in [Callers -> Request]
  /\ mem \in [Callers -> Lists]
  /\ found \in [Callers -> Registration \cup {NoReg}]
  /\ answer \in [Callers -> Answers]
  /\ calls \in 0 .. MaxCalls /\ events \in 0 .. MaxEvents
  /\ stale \in SUBSET Callers
  /\ window \in [Callers -> SUBSET (Registration \cup {NoReg})]

\* A code names at most one project, in the file and in every list on its way there,
\* whatever adds, replacements and removals of several processes overlap.
NoDuplicates(list) == \A i, j \in DOMAIN list : list[i].code = list[j].code => i = j
OneEntryPerCode == NoDuplicates(file.list) /\ \A c \in Callers : NoDuplicates(mem[c])

\* The entry of a code is only ever added, replaced or removed by a request for that very
\* code, and replaced only on demand; the exception is a rename by a process whose list
\* another process has replaced since it was loaded, and a write that failed.
Renames(c) == pc[c] = "store" /\ pc'[c] = "idle" /\ file' # file
Asked(r, old, new) ==
  CASE old = NoReg -> r.op = "add" /\ new = r.reg
    [] old # NoReg /\ new = NoReg -> r.op = "remove"
    [] OTHER -> r.op = "add" /\ r.replace /\ new = r.reg
OnlyAsAsked(c, code, old, new) == old # new => code = req[c].code /\ Asked(req[c], old, new)
ChangedOnlyAsAsked ==
  [][\A c \in Callers : Renames(c) /\ c \notin stale /\ file'.state # "torn" =>
       \A code \in Codes : OnlyAsAsked(c, code, Lookup(file, code), Lookup(file', code))]_vars

\* A registry that cannot be read is never overwritten with a fresh one, only with a list
\* that was loaded before it was damaged.
CorruptionIsKept ==
  [][file.state = "torn" /\ file' # file => \E c \in stale : Renames(c)]_vars

\* What a resolution found was registered for its code at some time since it began: removals
\* and replacements that were complete by then are seen, without a restart of the daemon.
ResolveIsCurrent ==
  \A c \in Callers : pc[c] \in {"stat", "check"} => found[c] \in window[c] /\ found[c].code = req[c].code

================================================================================
