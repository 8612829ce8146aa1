------------------------------ MODULE RunPromise ------------------------------
(***************************************************************************)
(* What a caller of an operation is promised: a run is decided at most     *)
(* once, the caller is told at most once, and either what was decided or   *)
(* that it cannot be known.                                                *)
(*                                                                         *)
(* Source: internal/daemon/server.go, internal/client/client.go.           *)
(***************************************************************************)
VARIABLES
  decided,  \* "none", "pass" or "fail"
  told      \* "nothing", "pass", "fail" or "error"

Verdicts == {"pass", "fail"}

Init == decided = "none" /\ told = "nothing"

Decide ==
  /\ decided = "none"
  /\ decided' \in Verdicts
  /\ UNCHANGED told

Tell ==
  /\ told = "nothing"
  /\ \/ told' = "error"
     \/ decided \in Verdicts /\ told' = decided
  /\ UNCHANGED decided

Next == Decide \/ Tell
Spec == Init /\ [][Next]_<<decided, told>>

================================================================================
