-------------------------- MODULE MCDaemonLifecycle ---------------------------
(* Instances of DaemonLifecycle for TLC.                                   *)
EXTENDS DaemonLifecycle, TLC, SequencesExt

\* Processes and ports are interchangeable.
Symmetry == Permutations(Workers) \cup Permutations(Ports) \cup Permutations(Clients)

\* Where liveness forbids symmetry, workers are launched in one order.
Numbered ==
  LET pids == SetToSeq(Workers)
  IN  UNION {{<<pids[i], pids[j]>> : i \in 1..(j - 1)} : j \in 1..Len(pids)}
==============================================================================
