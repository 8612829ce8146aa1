---------------------------- MODULE MCRunDispatch ----------------------------
(* An instance of RunDispatch for TLC: profiles that refer to each other,    *)
(* two scenarios, and reports that differ in one way each, one of them with  *)
(* a name twice.                                                             *)
EXTENDS RunDispatch, TLC

CONSTANTS s1, s2, d1, d2, a, b

Stage(mode, name, flags) ==
  [mode |-> mode, name |-> name, click |-> "click" \in flags, console |-> "console" \in flags,
   build |-> "build" \in flags]
Uses(profile, name) == [mode |-> "uses", name |-> name, uses |-> profile]

MCProfiles ==
  ("unit" :> << Stage("command", "test", {}) >>) @@
  ("smoke" :> << Stage("browser", "page", {"click", "console"}), Uses("unit", "tools") >>) @@
  ("ship" :> << Stage("prod", "build", {"build", "click"}) >>) @@
  ("full" :> << Uses("smoke", "quick"), Uses("unit", "again"), Stage("sweep", "cases", {}) >>) @@
  ("twice" :> << Uses("unit", "again"), Uses("unit", "again"), Uses("ship", "out") >>)

Check(name, ok) == [name |-> name, ok |-> ok]
Outcome(digest, status, checks) == [digest |-> digest, status |-> status, checks |-> checks]
Good == Outcome(d1, "PASS", <<Check(a, TRUE), Check(b, TRUE)>>)
MCReports ==
  { Good,
    Outcome(d1, "PASS", <<Check(b, TRUE), Check(a, TRUE)>>),
    Outcome(d2, "PASS", <<Check(a, TRUE), Check(b, TRUE)>>),
    Outcome(d1, "PASS", <<Check(a, TRUE)>>),
    Outcome(d1, "PASS", <<Check(a, TRUE), Check(a, TRUE)>>),
    Outcome(d1, "FAIL", <<Check(a, TRUE), Check(b, FALSE)>>) }
Empty == Outcome(NoScenario, "", <<>>)
MCCatalogue == <<s2>>

Req(op, profile, ids, browser) == [op |-> op, profile |-> profile, ids |-> ids, browser |-> browser]
MCRequests ==
  { Req("profile.run", p, <<>>, FALSE) : p \in {"full", "twice", NoName} } \cup
  { Req("scenario.compare", NoName, ids, FALSE) : ids \in {<<>>, <<s1, s2>>} } \cup
  { Req("scenario.run", NoName, <<s1>>, inPage) : inPage \in BOOLEAN } \cup
  { Req(op, NoName, <<>>, FALSE) : op \in {"scenario.list", "visual.sweep", "visual.shot", "page"} }

==============================================================================
