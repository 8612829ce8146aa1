----------------------------- MODULE MCServerLease -----------------------------
(* Instances of ServerLease for TLC: two projects that declare one URL.     *)
EXTENDS ServerLease, TLC

CONSTANT u1

\* Both checkouts carry the same manifest.
SameUrl == [k \in Projects |-> u1]

\* Runs, projects, processes and passes are interchangeable.
Symmetry ==
  Permutations(Runs) \cup Permutations(Projects) \cup Permutations(Pids) \cup Permutations(Keepers)
================================================================================
