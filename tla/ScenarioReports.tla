---------------------------- MODULE ScenarioReports ----------------------------
(***************************************************************************)
(* Reports of a scenario, headless and in the browser, and when they are   *)
(* said to match.  A report is a digest, a status and a list of checks.    *)
(*                                                                         *)
(* Source: internal/scenario/scenario.go.                                  *)
(***************************************************************************)
EXTENDS Naturals, Sequences, FiniteSets

FailedChecks(report) == { i \in DOMAIN report.checks : ~report.checks[i].ok }
Passed(report) == report.status = "PASS" /\ FailedChecks(report) = {}

\* The last check of a name is the one that counts.
Verdict(checks, name) ==
  LET named == { i \in DOMAIN checks : checks[i].name = name }
  IN { checks[i].ok : i \in { i \in named : \A j \in named : j <= i } }

\* Mutant: only the checks that both have are compared.
ChecksEqualLoosely(a, b) ==
  \A i \in DOMAIN b : Verdict(a, b[i].name) \in {{}, {b[i].ok}}

ChecksEqual(a, b) ==
  /\ Len(a) = Len(b)
  /\ \A i \in DOMAIN b : Verdict(a, b[i].name) = {b[i].ok}

Match(headless, browser) ==
  /\ headless.digest = browser.digest
  /\ Passed(headless) = Passed(browser)
  /\ ChecksEqual(headless.checks, browser.checks)

\* What a match is to mean: the same digest and verdict, and every check has come out alike,
\* in whatever order.
Outcomes(checks) == { <<c.name, c.ok>> : c \in { checks[i] : i \in DOMAIN checks } }
NamesAreUnique(checks) == \A i, j \in DOMAIN checks : checks[i].name = checks[j].name => i = j
Agree(headless, browser) ==
  /\ headless.digest = browser.digest
  /\ Passed(headless) <=> Passed(browser)
  /\ Outcomes(headless.checks) = Outcomes(browser.checks)

\* What is left of that if names repeat in a report: no outcome in the browser is one that the
\* headless run has not had.
Covers(headless, browser) ==
  /\ headless.digest = browser.digest
  /\ Passed(headless) <=> Passed(browser)
  /\ Outcomes(browser.checks) \subseteq Outcomes(headless.checks)

================================================================================
