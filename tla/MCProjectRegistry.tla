-------------------------- MODULE MCProjectRegistry --------------------------
(* An instance of ProjectRegistry for TLC: two commands of one process and  *)
(* one of another, two checkouts of a project, one inside the other.        *)
EXTENDS ProjectRegistry, TLC

CONSTANTS c1, c2, c3, p1, p2, lower, upper, path, A, B, main, sub, x, y

TwoAndOne == [c \in Callers |-> IF c = c3 THEN p2 ELSE p1]
Uppercase == (lower :> A) @@ (upper :> B) @@ (path :> BadCode)
Nested == [d \in Dirs |-> IF d = sub THEN <<main>> ELSE <<>>]
Checkouts == [d \in Dirs |-> x]

\* The two callers of one process are interchangeable, and the codes with their spellings.
Symmetry == Permutations({c1, c2}) \cup {(A :> B) @@ (B :> A) @@ (lower :> upper) @@ (upper :> lower)}
==============================================================================
