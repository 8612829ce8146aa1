----------------------- MODULE DaemonCredentialProofs ------------------------
(***************************************************************************)
(* Proofs about the MCP credential, for any number of workers and ports.   *)
(* The argument: the token file has one creator, which alone writes it;    *)
(* while no write has failed, the file is empty exactly as long as its     *)
(* creator is at the write, and every credential is the file's token.      *)
(***************************************************************************)
EXTENDS DaemonCredential, TLAPS

\* A worker at the write has created the file and it is empty.
CreatorWrites ==
  \A w \in Workers : step[w] = "write" => tokenFile = [by |-> w, text |-> "empty"]

\* A file that is there was created by a worker; one that is empty is being
\* written, unless a write failed.
EmptyIsOpen ==
  ~failed => /\ tokenFile.text # "part"
             /\ tokenFile.text = "empty" =>
                  tokenFile.by \in Workers /\ step[tokenFile.by] = "write"

\* The loser of the creation finds a file.
LoserFindsFile ==
  /\ tokenFile.text = "absent" => tokenFile = Absent
  /\ \A w \in Workers : step[w] = "reread" => tokenFile.text # "absent"

\* A credential is the token of the file.
CredentialIsFile ==
  ~failed => \A w \in Workers :
               credential[w] # Blank => tokenFile.text = "whole" /\ credential[w] = tokenFile

CredentialInv ==
  /\ CredentialTypeOK
  /\ CreatorWrites
  /\ EmptyIsOpen
  /\ LoserFindsFile
  /\ CredentialIsFile

USE ProcessesAssumption

------------------------------------------------------------------------------
\* Initially there is no token and nobody has one.
LEMMA CredentialInit == Init => CredentialInv
<1> SUFFICES ASSUME Init PROVE CredentialInv
  OBVIOUS
<1>1. CredentialTypeOK
  BY DEF Init, CredentialTypeOK, Contents, Absent, Blank
<1>2. CreatorWrites /\ EmptyIsOpen /\ LoserFindsFile /\ CredentialIsFile
  BY DEF Init, CreatorWrites, EmptyIsOpen, LoserFindsFile, CredentialIsFile, Absent
<1> QED BY <1>1, <1>2 DEF CredentialInv

\* Every step keeps the invariant.
LEMMA CredentialStep == CredentialInv /\ [Next]_vars => CredentialInv'
<1> SUFFICES ASSUME CredentialInv, [Next]_vars PROVE CredentialInv'
  OBVIOUS
<1> USE DEF CredentialInv, CredentialTypeOK, CreatorWrites, EmptyIsOpen, LoserFindsFile,
        CredentialIsFile, Contents, Absent, Blank
<1>1. ASSUME NEW w \in Workers, OwnershipStep(w) PROVE CredentialInv'
  <2>1. /\ UNCHANGED <<tokenFile, step, failed>>
        /\ credential' \in {credential, [credential EXCEPT ![w] = Blank]}
    BY <1>1 DEF OwnershipStep
  <2> QED BY <2>1
<1>2. ASSUME NEW w \in Workers, Load(w) PROVE CredentialInv'
  BY <1>2 DEF Load, Loaded, Got
<1>3. ASSUME NEW w \in Workers, Create(w) PROVE CredentialInv'
  <2>1. CASE tokenFile = Absent
    <3>1. /\ tokenFile' = [by |-> w, text |-> "empty"]
          /\ step' = [step EXCEPT ![w] = "write"]
          /\ UNCHANGED <<credential, failed>>
      BY <1>3, <2>1 DEF Create
    <3>2. \A v \in Workers : step[v] \notin {"write", "reread"}
      BY <2>1
    <3>3. CredentialTypeOK' /\ CreatorWrites' /\ EmptyIsOpen' /\ LoserFindsFile'
      BY <3>1, <3>2
    <3>4. CredentialIsFile'
      BY <2>1, <3>1
    <3> QED BY <3>3, <3>4
  <2>2. CASE tokenFile # Absent
    <3>1. /\ UNCHANGED <<tokenFile, credential, failed>>
          /\ step[w] = "create"
          /\ step' = [step EXCEPT ![w] = "reread"]
      BY <1>3, <2>2 DEF Create
    <3>2. tokenFile.text # "absent"
      BY <2>2 
    <3> QED BY <3>1, <3>2
  <2> QED BY <2>1, <2>2
<1>4. ASSUME NEW w \in Workers, Reread(w) PROVE CredentialInv'
  BY <1>4 DEF Reread, Loaded, Got
<1>5. ASSUME NEW w \in Workers, Write(w) PROVE CredentialInv'
  <2> PICK text \in {"empty", "part", "whole"} :
        /\ tokenFile' = [by |-> w, text |-> text]
        /\ failed' = (failed \/ text # "whole")
    BY <1>5 DEF Write
  <2>1. /\ step[w] = "write"
        /\ step' = [step EXCEPT ![w] = "done"]
        /\ credential' = [credential EXCEPT ![w] = [by |-> w, text |-> "whole"]]
    BY <1>5 DEF Write, Got
  <2>2. \A v \in Workers : step'[v] = "write" => FALSE
    <3> SUFFICES ASSUME NEW v \in Workers, step'[v] = "write" PROVE FALSE
      OBVIOUS
    <3>1. v # w /\ step[v] = "write"
      BY <2>1
    <3>2. [by |-> v, text |-> "empty"] = [by |-> w, text |-> "empty"]
      BY <2>1, <3>1
    <3> QED BY <3>1, <3>2
  <2>3. CredentialTypeOK'
    BY <2>1
  <2>4. LoserFindsFile'
    BY <2>1
  <2>5. ~failed => \A v \in Workers : credential[v] = Blank
    BY <2>1
  <2>6. EmptyIsOpen' /\ CredentialIsFile'
    BY <2>1, <2>5
  <2> QED BY <2>2, <2>3, <2>4, <2>6
<1>6. CASE UNCHANGED vars
  BY <1>6 DEF vars, credentialVars
<1> QED BY <1>1, <1>2, <1>3, <1>4, <1>5, <1>6 DEF Next

\* The credential's invariant holds always.
THEOREM CredentialInvariant == Spec => []CredentialInv
  BY CredentialInit, CredentialStep, PTL DEF Spec

------------------------------------------------------------------------------
\* Type correctness of the token file, the credentials and the steps.
THEOREM CredentialTypeCorrect == Spec => []CredentialTypeOK
<1>1. CredentialInv => CredentialTypeOK
  BY DEF CredentialInv
<1> QED BY <1>1, CredentialInvariant, PTL

\* Every daemon that serves with a credential accepts what the file holds,
\* unless a write of the token failed.
THEOREM CredentialAgrees == Spec => []ConfiguredOnce
<1>1. CredentialInv => ConfiguredOnce
  BY DEF CredentialInv, CredentialIsFile, ConfiguredOnce, Accepts, Loaded
<1> QED BY <1>1, CredentialInvariant, PTL

\* A whole token is never replaced.
THEOREM TokenIsDurable == Spec => TokenStays
<1>1. CredentialInv /\ [Next]_vars => [tokenFile.text = "whole" => UNCHANGED tokenFile]_vars
  <2> SUFFICES ASSUME CredentialInv, Next, tokenFile.text = "whole"
               PROVE  UNCHANGED tokenFile
    OBVIOUS
  <2>1. ASSUME NEW w \in Workers, Write(w) PROVE FALSE
    BY <2>1 DEF Write, CredentialInv, CreatorWrites
  <2>2. ASSUME NEW w \in Workers, Create(w) PROVE UNCHANGED tokenFile
    BY <2>2 DEF Create, Absent
  <2> QED BY <2>1, <2>2 DEF Next, OwnershipStep, Load, Reread
<1> QED BY <1>1, CredentialInvariant, PTL DEF Spec, TokenStays

\* A worker is left without a credential only between the creation and the
\* write of another worker, or after a write failed.
THEOREM BlankIsExplained == Spec => BlankOnlyInWindow
<1> DEFINE Explained ==
      \A w \in Workers :
        step[w] # "done" /\ step'[w] = "done" /\ credential'[w] = Blank =>
          failed \/ \E v \in Workers \ {w} : tokenFile.by = v /\ step[v] = "write"
<1>1. CredentialInv /\ [Next]_vars => [Explained]_vars
  <2> SUFFICES ASSUME CredentialInv, Next, NEW w \in Workers, ~failed,
                      step[w] # "done", step'[w] = "done", credential'[w] = Blank
               PROVE  \E v \in Workers \ {w} : tokenFile.by = v /\ step[v] = "write"
    OBVIOUS
  <2> USE DEF CredentialInv, CredentialTypeOK
  <2>1. Reread(w)
    BY DEF Next, OwnershipStep, Load, Create, Reread, Write, Got, Loaded, Blank
  <2>2. tokenFile.text = "empty" /\ step[w] = "reread"
    BY <2>1 DEF Reread, Got, Loaded, Blank, LoserFindsFile, Contents, EmptyIsOpen
  <2> QED BY <2>2 DEF EmptyIsOpen
<1> QED BY <1>1, CredentialInvariant, PTL DEF Spec, BlankOnlyInWindow

\* The credential takes nothing from the ownership of the daemon: what is proved
\* of WorkerSpec holds of the composition.
THEOREM CredentialKeepsOwnership == Spec => WorkerSpec
<1>1. Init => WorkerInit
  BY DEF Init
<1>2. [Next]_vars => [WorkerNext]_workerVars
  BY DEF Next, OwnershipStep, Load, Create, Reread, Write, WorkerNext, vars
<1> QED BY <1>1, <1>2, PTL DEF Spec, WorkerSpec
==============================================================================
