------------------------------ MODULE OneDaemon ------------------------------
(***************************************************************************)
(* What the daemon promises its machine, without files, locks or clients:  *)
(* at most one worker is the daemon, another becomes it only when that one *)
(* has let go or died, and it serves at the durable address, which is      *)
(* chosen once and forgotten only while nobody serves or is about to.      *)
(***************************************************************************)
CONSTANTS
  Workers,  \* worker processes
  Ports,    \* addresses
  NoOne,    \* no worker
  NoPort    \* no address

VARIABLES
  owner,    \* the worker that is the daemon
  phase,    \* "none", "starting", "serving" or "stopping"
  at,       \* the address it serves at, while it does
  address   \* the durable address

daemonVars == <<owner, phase, at, address>>

Init ==
  \/ owner = NoOne /\ phase = "none" /\ at = NoPort /\ address = NoPort
  \/ owner \in Workers /\ phase = "serving" /\ at \in Ports /\ address = at

\* A worker becomes the daemon.
Take(w) ==
  /\ phase = "none" /\ owner' = w /\ phase' = "starting"
  /\ UNCHANGED <<at, address>>

\* The first daemon chooses the durable address.
Choose(p) ==
  /\ phase = "starting" /\ address' = p
  /\ UNCHANGED <<owner, phase, at>>

\* It answers, at the durable address and no other.
Serve ==
  /\ phase = "starting" /\ address # NoPort
  /\ phase' = "serving" /\ at' = address
  /\ UNCHANGED <<owner, address>>

\* It stops answering, or gives up on starting, and still is the daemon.
Fade ==
  /\ phase \in {"starting", "serving"}
  /\ phase' = "stopping" /\ at' = NoPort
  /\ UNCHANGED <<owner, address>>

\* It lets go, or it dies.
Leave ==
  /\ phase # "none"
  /\ owner' = NoOne /\ phase' = "none" /\ at' = NoPort
  /\ UNCHANGED address

\* The durable address is forgotten.
Forget ==
  /\ phase \in {"none", "stopping"} /\ address' = NoPort
  /\ UNCHANGED <<owner, phase, at>>

Next ==
  \/ \E w \in Workers : Take(w)
  \/ \E p \in Ports : Choose(p)
  \/ Serve \/ Fade \/ Leave \/ Forget

Spec == Init /\ [][Next]_daemonVars
==============================================================================
