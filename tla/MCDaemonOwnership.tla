-------------------------- MODULE MCDaemonOwnership ---------------------------
(* Instances of DaemonOwnership and DaemonCredential for TLC: workers       *)
(* launched directly.                                                       *)
EXTENDS DaemonCredential, TLC

\* Worker processes and ports are interchangeable.
Symmetry == Permutations(Workers) \cup Permutations(Ports)

\* What a worker still reads: the port it wants until it has bound it, the port it has while it
\* listens, a request to stop while it serves.  States that differ in the rest go on alike, and
\* no property looks at it.
Remembered ==
  <<pc, [w \in Workers |-> IF pc[w] = "listen" THEN want[w] ELSE NoPort],
    [w \in Workers |-> IF Listening(w) THEN port[w] ELSE NoPort],
    { w \in asked : pc[w] = "serving" },
    holds, files, crashes, stolen, credentialVars>>

==============================================================================
