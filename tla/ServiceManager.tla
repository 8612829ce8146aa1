---------------------------- MODULE ServiceManager ----------------------------
(***************************************************************************)
(* The daemon as a service: systemd --user as the installed unit makes it   *)
(* behave.  It runs "daemon serve" as a plain foreground process, starts    *)
(* another when that fails (Restart=on-failure, without a start limit), and *)
(* stops it with SIGTERM.  Workers launched by others it knows nothing of.  *)
(*                                                                         *)
(* Source: internal/service/systemd.go, internal/daemon/server.go (what a   *)
(* worker makes of SIGTERM).  systemd itself is external.                  *)
(***************************************************************************)
EXTENDS DaemonOwnership

CONSTANT Systemd   \* whether the user manager is usable on this machine

ASSUME SystemdAssumption == Systemd \in BOOLEAN

VARIABLES
  unit,   \* whether the unit is installed
  main,   \* the process systemd has started last
  duty    \* what systemd is to do about it: see Duties

serviceVars == <<unit, main, duty>>

\* Nothing, keep it running, start another, stop it.
Duties == {"none", "run", "revive", "stop"}

ServiceTypeOK ==
  /\ unit \in BOOLEAN /\ (unit => Systemd)
  /\ main \in Workers \cup {NoOne}
  /\ duty \in Duties
  /\ duty = "revive" => main # NoOne

Active == main # NoOne /\ Alive(main)

------------------------------------------------------------------------------
\* systemctl start: a new process, once the one before is gone.
LaunchMain(w) ==
  /\ unit /\ ~Active
  /\ Launch(w)
  /\ main' = w /\ duty' = "run"
  /\ UNCHANGED unit

\* Restart=on-failure
Revive(w) == duty = "revive" /\ LaunchMain(w)

\* A step of a worker, and what systemd notes of it: whether the process it runs
\* exits with a failure or is killed.  An exit with status 0 it leaves alone.
Supervised(w) ==
  /\ WorkerStep(w) \/ WorkerFault(w)
  /\ duty' = IF w = main /\ duty = "run" /\ (WorkerFault(w) \/ PortBusy(w))
               THEN "revive" ELSE duty
  /\ UNCHANGED <<unit, main>>

\* Between signal.Notify and signal.Stop; before and after, SIGTERM kills.
Handling == {"serving", "shutdown", "undiscover", "drain", "unhold"}

Terminate(w) ==
  IF pc[w] \in Handling
    THEN AskToStop(w) /\ UNCHANGED <<pc, want, port, holds, files, crashes, stolen>>
    ELSE Killed(w)

\* systemctl stop, and the first half of systemctl restart.
StopMain ==
  /\ IF Active THEN Terminate(main) ELSE UNCHANGED workerVars
  /\ duty' = IF main = NoOne THEN "none" ELSE "stop"
  /\ UNCHANGED <<unit, main>>
==============================================================================
