--------------------------- MODULE MCBrowserSession ---------------------------
(* Instances of BrowserSession for TLC.                                    *)
EXTENDS BrowserSession, TLC

\* Runs, namespaces and passes are interchangeable where no property names one.
Symmetry == Permutations(Runs) \cup Permutations(Namespaces) \cup Permutations(Keepers)
==============================================================================
