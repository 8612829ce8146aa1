-------------------------- MODULE DaemonCredential --------------------------
(***************************************************************************)
(* The durable MCP credential of the daemon, beside the ownership of the   *)
(* daemon.  A worker loads or creates it while it builds its Server: after *)
(* the singleton guard and before it claims the lifetime lock, so workers  *)
(* that are not going to be the daemon do it too, at the same time.  The   *)
(* token file is created with O_EXCL and written afterwards; what the      *)
(* worker has got by then is what its /mcp accepts until it exits.         *)
(*                                                                         *)
(* Source: internal/daemon/endpoint.go (DurableMCPToken, LoadMCPToken),    *)
(* internal/daemon/server.go (NewServer, mcpAuth).                         *)
(***************************************************************************)
EXTENDS DaemonOwnership

VARIABLES
  tokenFile,  \* mcp.token: which worker generated it and how much is there
  credential, \* credential[w]: what worker w has for its /mcp
  step,       \* step[w]: where w is in DurableMCPToken
  failed      \* history: whether a write of the token has failed

credentialVars == <<tokenFile, credential, step, failed>>
vars == <<workerVars, credentialVars>>

------------------------------------------------------------------------------
(* Contents: absent, created and empty, cut short, or the whole token.      *)
Contents == [by : Workers \cup {NoOne}, text : {"absent", "empty", "part", "whole"}]
Absent == [by |-> NoOne, text |-> "absent"]

\* LoadMCPToken: no file and an empty one both read as no token.
Blank == [by |-> NoOne, text |-> "empty"]
Loaded == IF tokenFile.text \in {"part", "whole"} THEN tokenFile ELSE Blank

Got(w, token) ==
  /\ credential' = [credential EXCEPT ![w] = token]
  /\ step' = [step EXCEPT ![w] = "done"]

\* The worker is building its Server.
Building(w) == pc[w] = "acquire"

------------------------------------------------------------------------------
\* A token that is there is used as it is.
Load(w) ==
  /\ Building(w) /\ step[w] = "load"
  /\ IF Loaded # Blank
       THEN Got(w, Loaded)
       ELSE step' = [step EXCEPT ![w] = "create"] /\ UNCHANGED credential
  /\ UNCHANGED <<workerVars, tokenFile, failed>>

\* Mutant: the file is created without O_EXCL.
CreateOver(w) ==
  /\ Building(w) /\ step[w] = "create"
  /\ tokenFile' = [by |-> w, text |-> "empty"]
  /\ step' = [step EXCEPT ![w] = "write"]
  /\ UNCHANGED <<workerVars, credential, failed>>

\* O_CREATE|O_EXCL: the winner goes on to write, the others read again.
Create(w) ==
  /\ Building(w) /\ step[w] = "create"
  /\ IF tokenFile = Absent
       THEN tokenFile' = [by |-> w, text |-> "empty"] /\ step' = [step EXCEPT ![w] = "write"]
       ELSE step' = [step EXCEPT ![w] = "reread"] /\ UNCHANGED tokenFile
  /\ UNCHANGED <<workerVars, credential, failed>>

\* Mutant: the loser leaves the credential to the winner.
RereadNothing(w) ==
  /\ Building(w) /\ step[w] = "reread"
  /\ Got(w, Blank)
  /\ UNCHANGED <<workerVars, tokenFile, failed>>

\* The winner's file as it is now: still empty if the winner has not written.
Reread(w) ==
  /\ Building(w) /\ step[w] = "reread"
  /\ Got(w, Loaded)
  /\ UNCHANGED <<workerVars, tokenFile, failed>>

\* The error of WriteString and Sync stays in an inner scope: the worker uses its
\* token although the file holds a part of it, or nothing.
Write(w) ==
  /\ Building(w) /\ step[w] = "write"
  /\ \E text \in {"empty", "part", "whole"} :
       /\ tokenFile' = [by |-> w, text |-> text]
       /\ failed' = (failed \/ text # "whole")
  /\ Got(w, [by |-> w, text |-> "whole"])
  /\ UNCHANGED workerVars

\* mcpAuth
Accepts(w, token) == credential[w] # Blank /\ credential[w] = token

------------------------------------------------------------------------------
\* The lifetime lock is claimed when the Server has been built; what a worker
\* has got ends with it, the files stay.
OwnershipStep(w) ==
  /\ \/ Launch(w) \/ Signal(w) \/ WorkerFault(w)
     \/ (Building(w) => step[w] = "done") /\ WorkerStep(w)
  /\ credential' = IF pc'[w] \in {"exited", "crashed"}
                      THEN [credential EXCEPT ![w] = Blank] ELSE credential
  /\ UNCHANGED <<tokenFile, step, failed>>

Init ==
  /\ WorkerInit
  /\ tokenFile = Absent
  /\ credential = [w \in Workers |-> Blank]
  /\ step = [w \in Workers |-> "load"]
  /\ failed = FALSE

Next ==
  \E w \in Workers : OwnershipStep(w) \/ Load(w) \/ Create(w) \/ Reread(w) \/ Write(w)

Spec == Init /\ [][Next]_vars

------------------------------------------------------------------------------
(* Properties.                                                             *)

\* Every variable stays in its type.
CredentialTypeOK ==
  /\ tokenFile \in Contents
  /\ credential \in [Workers -> Contents]
  /\ step \in [Workers -> {"load", "create", "reread", "write", "done"}]
  /\ failed \in BOOLEAN

\* Unless a write of the token failed, every daemon that serves with a
\* credential accepts what "mcp info" reads from the file for an MCP client,
\* whichever workers raced or died before.
ConfiguredOnce ==
  ~failed => \A w \in Workers :
               pc[w] = "serving" /\ credential[w] # Blank => Accepts(w, Loaded)

\* Clients are configured once: a whole token is never replaced.
TokenStays == [][tokenFile.text = "whole" => UNCHANGED tokenFile]_vars

\* A worker is left without a credential, and its /mcp refuses everybody, only
\* when it read the file between the creation and the write of another worker
\* (which may be dead), or after a write failed.
BlankOnlyInWindow ==
  [][\A w \in Workers :
       step[w] # "done" /\ step'[w] = "done" /\ credential'[w] = Blank =>
         failed \/ \E v \in Workers \ {w} : tokenFile.by = v /\ step[v] = "write"]_vars
==============================================================================
