------------------------- MODULE ProviderSessionProofs -------------------------
(***************************************************************************)
(* Proofs about the sessions of one browser: for any number of sessions    *)
(* and of callers that close it without the lock, any number of polls and  *)
(* uses, and a browser that may refuse anything.                           *)
(***************************************************************************)
EXTENDS ProviderSession, SequenceTheorems, TLAPS

------------------------------------------------------------------------------
(* The inductive invariant.                                                *)

\* Where the lock is held.
Session == {"open", "poll", "reload", "repoll", "using"}

\* Whoever is in the script holds the lock, and has polls left while it polls; those
\* that only close are outside the script.
PlaceInv ==
  /\ \A r \in Runs :
       /\ place[r] # "closing"
       /\ place[r] \in Session => holder = r
       /\ place[r] \in {"poll", "repoll"} => tries[r] # 0
  /\ \A c \in Closers : place[c] \in {"idle", "closing", "done"}

\* The command of a call is one its caller issues where it stands.
CallInv == \A c \in Callers : cmd[c] # "none" => Wants(c, cmd[c])

\* A success that is on its way to c.
GotOk(c) == output[c] # Empty /\ output[c].ok

\* Only a command that was sent is answered, and a read with the page of a session.
OutputInv ==
  \A c \in Callers :
    /\ output[c] # Empty => launcher[c] = "sent"
    /\ GotOk(c) /\ cmd[c] = "read" => output[c].of \in Runs

\* A command that waits is that of the call its caller is still inside, or nobody waits
\* for it; behind an open that is waited for there is no other.
QueueInv ==
  \A i \in DOMAIN queue :
    /\ queue[i].cmd = "open" => queue[i].of \in Runs
    /\ queue[i].by \in {NoOne, queue[i].of}
    /\ queue[i].by # NoOne =>
         launcher[queue[i].by] = "sent" /\ cmd[queue[i].by] = queue[i].cmd
    /\ queue[i].by # NoOne /\ queue[i].cmd = "open" =>
         \A j \in DOMAIN queue : j > i => queue[j].cmd # "open"

\* The browser has opened r's page, and r is not done with it.
Opened(r) == place[r] \in Session \ {"open"} \/ (place[r] = "open" /\ GotOk(r))

\* While r is in its session no open waits in the queue, so the browser shows r's page or
\* none: what is pictured, read and reported is r's.
PageInv ==
  \A r \in Runs \ blind :
    /\ reports[r] \subseteq {r}
    /\ Opened(r) => page \in {r, NoOne} /\ \A i \in DOMAIN queue : queue[i].cmd # "open"
    /\ GotOk(r) /\ cmd[r] = "screenshot" => image = r
    /\ GotOk(r) /\ cmd[r] = "read" => output[r].of = r

IInv == TypeOK /\ PlaceInv /\ CallInv /\ OutputInv /\ QueueInv /\ PageInv

USE ProviderAssumption

------------------------------------------------------------------------------
(* The queue.                                                              *)

\* The oldest command, and what is left behind it.
LEMMA QueueTail ==
  ASSUME queue \in Seq(Sent), queue # <<>>
  PROVE  /\ 1 \in DOMAIN queue /\ Head(queue) = queue[1] /\ Head(queue) \in Sent
         /\ Tail(queue) \in Seq(Sent)
         /\ \A i \in DOMAIN Tail(queue) :
              i \in Nat /\ i + 1 \in DOMAIN queue /\ i + 1 # 1 /\ Tail(queue)[i] = queue[i + 1]
<1>1. Len(queue) \in Nat /\ Len(queue) # 0 /\ DOMAIN queue = 1 .. Len(queue)
  BY EmptySeq, LenProperties
<1>2. Head(queue) = queue[1] /\ Head(queue) \in Sent /\ Tail(queue) \in Seq(Sent)
  BY HeadTailProperties
<1>3. Len(Tail(queue)) = Len(queue) - 1 /\ \A i \in 1 .. Len(Tail(queue)) : Tail(queue)[i] = queue[i + 1]
  BY HeadTailProperties
<1>4. DOMAIN Tail(queue) = 1 .. Len(Tail(queue))
  BY <1>2, LenProperties
<1> QED
  BY <1>1, <1>2, <1>3, <1>4

\* One command more.
LEMMA QueueAppend ==
  ASSUME queue \in Seq(Sent), NEW s \in Sent
  PROVE  /\ Append(queue, s) \in Seq(Sent)
         /\ DOMAIN queue \subseteq Nat
         /\ \A i \in DOMAIN Append(queue, s) :
              \/ i \in DOMAIN queue /\ Append(queue, s)[i] = queue[i]
              \/ /\ i \notin DOMAIN queue /\ Append(queue, s)[i] = s
                 /\ \A j \in DOMAIN queue : j < i
         /\ \A i, j \in DOMAIN Append(queue, s) : i > j => j \in DOMAIN queue
<1>1. Len(queue) \in Nat /\ DOMAIN queue = 1 .. Len(queue)
  BY LenProperties
<1>2. Append(queue, s) \in Seq(Sent) /\ Len(Append(queue, s)) = Len(queue) + 1
      /\ \A i \in 1 .. Len(queue) : Append(queue, s)[i] = queue[i]
      /\ Append(queue, s)[Len(queue) + 1] = s
  BY AppendProperties
<1>3. DOMAIN Append(queue, s) = 1 .. Len(queue) + 1
  BY <1>2, LenProperties
<1> QED
  BY <1>1, <1>2, <1>3

\* Whoever waits for a command is a caller.
LEMMA QueueCallers ==
  ASSUME queue \in Seq(Sent)
  PROVE  \A i \in DOMAIN queue : queue[i] \in Sent /\ queue[i].by \in Callers \cup {NoOne}
<1>1. DOMAIN queue = 1 .. Len(queue)
  BY LenProperties
<1>2. \A i \in DOMAIN queue : queue[i] \in Sent
  BY <1>1, ElementOfSeq
<1> QED
  BY <1>2 DEF Sent

\* A call that ends leaves its command to nobody.
LEMMA QueueForgets ==
  ASSUME TypeOK, NEW c \in Callers, CallEnds(c)
  PROVE  /\ queue' \in Seq(Sent) /\ DOMAIN queue' = DOMAIN queue
         /\ \A i \in DOMAIN queue :
              /\ queue'[i].cmd = queue[i].cmd /\ queue'[i].of = queue[i].of
              /\ queue'[i].by # c /\ queue'[i].by \in {queue[i].by, NoOne}
<1>1. Len(queue) \in Nat /\ DOMAIN queue = 1 .. Len(queue) /\ queue \in [1 .. Len(queue) -> Sent]
  BY LenProperties DEF TypeOK
<1>2. /\ DOMAIN queue' = DOMAIN queue
      /\ \A i \in DOMAIN queue :
           queue'[i] = IF queue[i].by = c THEN [queue[i] EXCEPT !.by = NoOne] ELSE queue[i]
      /\ queue' = [i \in DOMAIN queue |-> queue'[i]]
  BY DEF CallEnds
<1>3. \A i \in DOMAIN queue : queue[i] \in Sent
  BY <1>1
<1>4. c # NoOne
  BY DEF Callers
<1>5. \A i \in DOMAIN queue :
        /\ queue'[i] \in Sent
        /\ queue'[i].cmd = queue[i].cmd /\ queue'[i].of = queue[i].of
        /\ queue'[i].by # c /\ queue'[i].by \in {queue[i].by, NoOne}
  BY <1>2, <1>3, <1>4 DEF Sent
<1>6. queue' \in [1 .. Len(queue) -> Sent]
  BY <1>1, <1>2, <1>5
<1>7. queue' \in Seq(Sent)
  BY <1>1, <1>6, SeqDef
<1> QED
  BY <1>2, <1>5, <1>7

------------------------------------------------------------------------------
(* The browser.                                                            *)

\* What the callers know of themselves is not the browser's to change.
LEMMA AsideScript ==
  ASSUME IInv, UNCHANGED <<script, cmd, launcher>>
  PROVE  PlaceInv' /\ CallInv'
<1>1. place' = place /\ holder' = holder /\ tries' = tries /\ uses' = uses /\ cmd' = cmd
  BY DEF script
<1>2. PlaceInv'
  BY <1>1 DEF IInv, PlaceInv
<1>3. CallInv'
  BY <1>1 DEF IInv, CallInv, Wants
<1> QED
  BY <1>2, <1>3

\* What a command of the queue's head leads to, whatever becomes of it.
LEMMA HeadFacts ==
  ASSUME IInv, queue # <<>>, NEW next, next = Head(queue)
  PROVE  /\ next = queue[1] /\ next \in Sent /\ 1 \in DOMAIN queue
         /\ next.cmd = "open" => next.of \in Runs
         /\ next.by \in {NoOne, next.of}
         /\ next.by # NoOne => launcher[next.by] = "sent" /\ cmd[next.by] = next.cmd
                               /\ Wants(next.by, next.cmd) /\ next.by \in Callers
<1>1. next = queue[1] /\ next \in Sent /\ 1 \in DOMAIN queue
  BY QueueTail DEF IInv, TypeOK
<1>2. /\ next.cmd = "open" => next.of \in Runs
      /\ next.by \in {NoOne, next.of}
      /\ next.by # NoOne => launcher[next.by] = "sent" /\ cmd[next.by] = next.cmd
  BY <1>1 DEF IInv, QueueInv
<1>3. next.by \in Callers \cup {NoOne} /\ next.cmd # "none"
  BY <1>1 DEF Sent, Commands
<1>4. next.by # NoOne => Wants(next.by, next.cmd) /\ next.by \in Callers
  BY <1>2, <1>3 DEF IInv, CallInv
<1> QED
  BY <1>1, <1>2, <1>4

\* The queue moves on.
LEMMA QueueMovesOn ==
  ASSUME IInv, queue # <<>>, queue' = Tail(queue), UNCHANGED <<cmd, launcher>>
  PROVE  /\ QueueInv' /\ queue' \in Seq(Sent)
         /\ (\A i \in DOMAIN queue : queue[i].cmd # "open")
              => (\A i \in DOMAIN queue' : queue'[i].cmd # "open")
         /\ Head(queue).by # NoOne /\ Head(queue).cmd = "open"
              => (\A i \in DOMAIN queue' : queue'[i].cmd # "open")
<1>1. /\ 1 \in DOMAIN queue /\ Head(queue) = queue[1]
      /\ queue' \in Seq(Sent)
      /\ \A i \in DOMAIN queue' :
           i \in Nat /\ i + 1 \in DOMAIN queue /\ i + 1 # 1 /\ queue'[i] = queue[i + 1]
  BY QueueTail DEF IInv, TypeOK
<1>2. QueueInv
  BY DEF IInv
<1>3. \A i \in DOMAIN queue' : i + 1 > 1
  BY <1>1
<1>4. \A i, j \in DOMAIN queue' : j > i => j + 1 > i + 1
  BY <1>1
<1>5. QueueInv'
  BY <1>1, <1>2, <1>4 DEF QueueInv
<1> QED
  BY <1>1, <1>2, <1>3, <1>5 DEF QueueInv

\* An answer comes to the call of the command, if there is one.
LEMMA AnswerComes ==
  ASSUME IInv, queue # <<>>, NEW next, next = Head(queue), NEW ok \in BOOLEAN,
         Answered(next.by, next.cmd, ok),
         ok => CanPerform(next.of, next.cmd),
         UNCHANGED <<cmd, launcher>>
  PROVE  /\ output' \in [Callers -> Answers \cup {Empty}]
         /\ OutputInv'
         /\ \A c \in Callers :
              \/ output'[c] = output[c]
              \/ /\ c = next.by /\ output'[c] # Empty /\ output'[c].ok = ok
                 /\ ok /\ next.cmd = "read" => output'[c].of = page
<1>1. /\ next \in Sent
      /\ next.by \in {NoOne, next.of}
      /\ next.by # NoOne => launcher[next.by] = "sent" /\ cmd[next.by] = next.cmd
                            /\ Wants(next.by, next.cmd) /\ next.by \in Callers
  BY HeadFacts
<1>2. CASE next.by = NoOne
  <2>1. output' = output
    BY <1>2 DEF Answered
  <2> QED
    BY <2>1 DEF IInv, TypeOK, OutputInv, GotOk
<1>3. CASE next.by # NoOne
  <2> DEFINE c == next.by
             a == [form |-> "torn", ok |-> ok,
                   of |-> IF ok /\ next.cmd = "read" THEN page ELSE NoOne,
                   bridge |-> ok /\ next.cmd = "eval" /\ bridge]
  <2>1. output' = [output EXCEPT ![c] = a] /\ c \in Callers
    BY <1>1, <1>3 DEF Answered
  <2>2. a \in Answers /\ a # Empty /\ a.ok = ok
    <3>1. page \in Pages /\ NoOne \in Pages /\ bridge \in BOOLEAN
      BY DEF IInv, TypeOK, Pages
    <3> QED
      BY <3>1 DEF Answers, Empty
  <2>3. ok /\ next.cmd = "read" => a.of = page /\ page \in Runs
    <3>1. ok /\ next.cmd = "read" => page # NoOne
      BY DEF CanPerform
    <3> QED
      BY <3>1 DEF IInv, TypeOK, Pages
  <2> HIDE DEF a
  <2>4. \A d \in Callers : output'[d] = IF d = c THEN a ELSE output[d]
    BY <2>1 DEF IInv, TypeOK
  <2>5. output' \in [Callers -> Answers \cup {Empty}]
    BY <2>1, <2>2 DEF IInv, TypeOK
  <2>6. OutputInv'
    BY <1>1, <1>3, <2>2, <2>3, <2>4 DEF IInv, OutputInv, GotOk
  <2> QED
    BY <2>2, <2>3, <2>4, <2>5, <2>6
<1> QED
  BY <1>2, <1>3

\* A success that was not there before, or was.
LEMMA StillGood ==
  ASSUME IInv, queue # <<>>, NEW next, next = Head(queue), NEW ok \in BOOLEAN,
         Answered(next.by, next.cmd, ok),
         ok => CanPerform(next.of, next.cmd),
         queue' = Tail(queue), UNCHANGED <<script, cmd, launcher>>,
         page' = IF ok /\ next.cmd = "open" THEN next.of
                 ELSE IF ok /\ next.cmd = "close" THEN NoOne ELSE page,
         image' = IF ok /\ next.cmd = "screenshot" THEN page ELSE image
  PROVE  PageInv'
<1> SUFFICES ASSUME NEW r \in Runs, r \notin blind
             PROVE  /\ reports'[r] \subseteq {r}
                    /\ Opened(r)' => page' \in {r, NoOne}
                                     /\ \A i \in DOMAIN queue' : queue'[i].cmd # "open"
                    /\ GotOk(r)' /\ cmd'[r] = "screenshot" => image' = r
                    /\ GotOk(r)' /\ cmd'[r] = "read" => output'[r].of = r
  BY DEF PageInv, script
<1>1. /\ place' = place /\ reports' = reports /\ cmd' = cmd
      /\ r \in Callers /\ r # NoOne
  BY DEF script, Callers
<1>2. /\ reports[r] \subseteq {r}
      /\ Opened(r) => page \in {r, NoOne} /\ \A i \in DOMAIN queue : queue[i].cmd # "open"
      /\ GotOk(r) /\ cmd[r] = "screenshot" => image = r
      /\ GotOk(r) /\ cmd[r] = "read" => output[r].of = r
  BY DEF IInv, PageInv
<1>3. \/ output'[r] = output[r]
      \/ /\ r = next.by /\ output'[r] # Empty /\ output'[r].ok = ok
         /\ ok /\ next.cmd = "read" => output'[r].of = page
  BY <1>1, AnswerComes
<1>4. /\ next = queue[1] /\ next \in Sent /\ 1 \in DOMAIN queue
      /\ next.by \in {NoOne, next.of}
      /\ next.by # NoOne => cmd[next.by] = next.cmd /\ Wants(next.by, next.cmd)
  BY HeadFacts
<1>5. /\ (\A i \in DOMAIN queue : queue[i].cmd # "open")
           => (\A i \in DOMAIN queue' : queue'[i].cmd # "open")
      /\ next.by # NoOne /\ next.cmd = "open"
           => (\A i \in DOMAIN queue' : queue'[i].cmd # "open")
  BY QueueMovesOn
<1>6. next.by = r => next.of = r /\ cmd[r] = next.cmd /\ Wants(r, next.cmd)
  BY <1>1, <1>4
<1>7. place[r] \in Session \ {"open"} => Opened(r)
  BY DEF Opened
<1>8. Wants(r, "screenshot") \/ Wants(r, "read") => place[r] = "using"
  BY DEF Wants
<1>9. GotOk(r)' /\ ~GotOk(r) => ok /\ next.by = r
  BY <1>3 DEF GotOk
<1>10. Opened(r)' => page' \in {r, NoOne} /\ \A i \in DOMAIN queue' : queue'[i].cmd # "open"
  <2>1. CASE Opened(r)
    <3>1. next.cmd # "open"
      BY <1>2, <1>4, <2>1
    <3> QED
      BY <1>2, <1>5, <2>1, <3>1
  <2>2. CASE ~Opened(r) /\ Opened(r)'
    <3>1. place[r] = "open" /\ ok /\ next.by = r
      BY <1>1, <1>9, <2>2 DEF Opened
    <3>2. next.cmd = "open" /\ next.of = r
      BY <1>6, <3>1 DEF Wants
    <3> QED
      BY <1>1, <1>5, <3>1, <3>2
  <2> QED
    BY <2>1, <2>2
<1>11. GotOk(r)' /\ cmd'[r] = "screenshot" => image' = r
  <2> SUFFICES ASSUME GotOk(r)', cmd[r] = "screenshot" PROVE image' = r
    BY <1>1
  <2>1. Wants(r, "screenshot")
    BY <1>1 DEF IInv, CallInv
  <2>2. Opened(r) /\ page \in {r, NoOne}
    BY <1>2, <1>7, <1>8, <2>1 DEF Session
  <2>3. CASE ok /\ next.cmd = "screenshot"
    BY <2>2, <2>3 DEF CanPerform
  <2>4. CASE ~(ok /\ next.cmd = "screenshot")
    <3>1. GotOk(r)
      BY <1>6, <1>9, <2>4
    <3> QED
      BY <1>2, <2>4, <3>1
  <2> QED
    BY <2>3, <2>4
<1>12. GotOk(r)' /\ cmd'[r] = "read" => output'[r].of = r
  <2> SUFFICES ASSUME GotOk(r)', cmd[r] = "read" PROVE output'[r].of = r
    BY <1>1
  <2>1. Wants(r, "read")
    BY <1>1 DEF IInv, CallInv
  <2>2. Opened(r) /\ page \in {r, NoOne}
    BY <1>2, <1>7, <1>8, <2>1 DEF Session
  <2>3. CASE output'[r] = output[r]
    BY <1>2, <2>3 DEF GotOk
  <2>4. CASE output'[r] # output[r]
    <3>1. ok /\ next.by = r /\ next.cmd = "read" /\ output'[r].of = page
      BY <1>3, <1>6, <2>4 DEF GotOk
    <3> QED
      BY <2>2, <3>1 DEF CanPerform
  <2> QED
    BY <2>3, <2>4
<1> QED
  BY <1>1, <1>2, <1>10, <1>11, <1>12

\* The browser's own steps: it performs, refuses, comes up and dies.
LEMMA BrowserKeeps == IInv /\ BrowserStep => IInv'
<1> SUFFICES ASSUME IInv, BrowserStep PROVE IInv'
  OBVIOUS
<1>1. UNCHANGED <<script, cmd, launcher, late>>
  BY DEF BrowserStep, Perform, Refuse, BridgeComesUp, BrowserDies
<1>2. PlaceInv' /\ CallInv'
  BY <1>1, AsideScript
<1>3. CASE Perform
  <2> DEFINE next == Head(queue)
  <2>1. /\ queue # <<>> /\ CanPerform(next.of, next.cmd)
        /\ page' = IF next.cmd = "open" THEN next.of
                   ELSE IF next.cmd = "close" THEN NoOne ELSE page
        /\ bridge' = (bridge /\ next.cmd \notin {"open", "close", "reload"})
        /\ image' = IF next.cmd = "screenshot" THEN page ELSE image
        /\ Answered(next.by, next.cmd, TRUE)
        /\ queue' = Tail(queue)
    BY <1>3 DEF Perform
  <2>2. next \in Sent /\ (next.cmd = "open" => next.of \in Runs)
    BY <2>1, HeadFacts
  <2>3. QueueInv' /\ queue' \in Seq(Sent)
    BY <1>1, <2>1, QueueMovesOn
  <2>4. output' \in [Callers -> Answers \cup {Empty}] /\ OutputInv'
    BY <1>1, <2>1, AnswerComes
  <2>5. PageInv'
    BY <1>1, <2>1, StillGood
  <2>6. page' \in Pages /\ image' \in Pages
    BY <2>1, <2>2 DEF IInv, TypeOK, Pages
  <2>7. bridge' \in BOOLEAN /\ (bridge' => page' \in Runs \ RawRuns)
    <3>1. bridge' => bridge /\ page' = page
      BY <2>1
    <3>2. bridge' \in BOOLEAN
      BY <2>1
    <3> QED
      BY <3>1, <3>2 DEF IInv, TypeOK
  <2>8. TypeOK'
    BY <1>1, <2>3, <2>4, <2>6, <2>7 DEF IInv, TypeOK, script
  <2> QED
    BY <1>2, <2>3, <2>4, <2>5, <2>8 DEF IInv
<1>4. CASE Refuse
  <2> DEFINE next == Head(queue)
  <2>1. /\ queue # <<>> /\ Answered(next.by, next.cmd, FALSE)
        /\ queue' = Tail(queue) /\ page' = page /\ image' = image /\ bridge' = bridge
    BY <1>4 DEF Refuse
  <2>2. QueueInv' /\ queue' \in Seq(Sent)
    BY <1>1, <2>1, QueueMovesOn
  <2>3. output' \in [Callers -> Answers \cup {Empty}] /\ OutputInv'
    BY <1>1, <2>1, AnswerComes
  <2>4. PageInv'
    BY <1>1, <2>1, StillGood
  <2>5. TypeOK'
    BY <1>1, <2>1, <2>2, <2>3 DEF IInv, TypeOK, script
  <2> QED
    BY <1>2, <2>2, <2>3, <2>4, <2>5 DEF IInv
<1>5. CASE BridgeComesUp
  <2>1. /\ page \in Runs \ RawRuns /\ bridge' = TRUE
        /\ UNCHANGED <<script, cmd, launcher, output, queue, page, image, late>>
    BY <1>5 DEF BridgeComesUp
  <2>2. TypeOK'
    BY <2>1 DEF IInv, TypeOK, script
  <2>3. OutputInv' /\ QueueInv'
    BY <2>1 DEF IInv, OutputInv, QueueInv, GotOk
  <2>4. PageInv'
    BY <2>1 DEF IInv, PageInv, Opened, GotOk, script
  <2> QED
    BY <1>2, <2>2, <2>3, <2>4 DEF IInv
<1>6. CASE BrowserDies
  <2>1. /\ page' = NoOne /\ bridge' = FALSE /\ queue' = <<>>
        /\ UNCHANGED <<script, cmd, launcher, output, image, late>>
    BY <1>6 DEF BrowserDies
  <2>2. queue' \in Seq(Sent) /\ DOMAIN queue' = {}
    BY <2>1, EmptySeq
  <2>3. TypeOK'
    BY <2>1, <2>2 DEF IInv, TypeOK, script, Pages
  <2>4. OutputInv' /\ QueueInv'
    BY <2>1, <2>2 DEF IInv, OutputInv, QueueInv, GotOk
  <2>5. PageInv'
    BY <2>1, <2>2 DEF IInv, PageInv, Opened, GotOk, script
  <2> QED
    BY <1>2, <2>3, <2>4, <2>5 DEF IInv
<1> QED
  BY <1>3, <1>4, <1>5, <1>6 DEF BrowserStep

------------------------------------------------------------------------------
(* Launchers and contexts.                                                 *)

\* A launcher delivers its command: an open only for whoever holds the lock.
LEMMA SendKeeps ==
  ASSUME IInv, NEW c \in Callers, Send(c)
  PROVE  IInv'
<1> DEFINE s == [cmd |-> cmd[c], of |-> c, by |-> c]
<1>1. /\ launcher[c] = "started" /\ launcher' = [launcher EXCEPT ![c] = "sent"]
      /\ queue' = Append(queue, s)
      /\ UNCHANGED <<script, cmd, output, page, bridge, image, late>>
  BY DEF Send
<1>2. cmd[c] \in Commands /\ Wants(c, cmd[c]) /\ c # NoOne
  BY <1>1 DEF IInv, TypeOK, CallInv, Callers
<1>3. s \in Sent /\ s.cmd = cmd[c] /\ s.of = c /\ s.by = c
  BY <1>2 DEF Sent
<1> HIDE DEF s
<1>4. /\ queue' \in Seq(Sent)
      /\ \A i \in DOMAIN queue' :
           \/ i \in DOMAIN queue /\ queue'[i] = queue[i]
           \/ i \notin DOMAIN queue /\ queue'[i] = s /\ \A j \in DOMAIN queue : j < i
      /\ \A i, j \in DOMAIN queue' : i > j => j \in DOMAIN queue
  BY <1>1, <1>3, QueueAppend DEF IInv, TypeOK
<1>5. \A d \in Callers : launcher'[d] = IF d = c THEN "sent" ELSE launcher[d]
  BY <1>1 DEF IInv, TypeOK
<1>6. TypeOK'
  <2>1. launcher' \in [Callers -> {"none", "started", "sent"}]
    BY <1>1 DEF IInv, TypeOK
  <2>2. \A d \in Callers : cmd'[d] = "none" <=> launcher'[d] = "none"
    BY <1>1, <1>5 DEF IInv, TypeOK
  <2> QED
    BY <1>1, <1>4, <2>1, <2>2 DEF IInv, TypeOK, script
<1>7. /\ place' = place /\ holder' = holder /\ tries' = tries /\ uses' = uses /\ cmd' = cmd
      /\ reports' = reports /\ blind' = blind /\ output' = output /\ page' = page
      /\ image' = image
  BY <1>1 DEF script
<1>8. PlaceInv' /\ CallInv'
  <2>1. PlaceInv'
    BY <1>7 DEF IInv, PlaceInv
  <2>2. CallInv'
    BY <1>7 DEF IInv, CallInv, Wants
  <2> QED
    BY <2>1, <2>2
<1>9. OutputInv'
  BY <1>5, <1>7 DEF IInv, OutputInv, GotOk
<1>10. cmd[c] = "open" => c \in Runs /\ place[c] = "open" /\ holder = c
  <2>1. cmd[c] = "open" => place[c] = "open"
    BY <1>2 DEF Wants
  <2> QED
    BY <2>1 DEF IInv, PlaceInv, Callers, Session
<1>11. \A r \in Runs : Opened(r) => cmd[c] # "open"
  <2> SUFFICES ASSUME NEW r \in Runs, Opened(r), cmd[c] = "open" PROVE FALSE
    OBVIOUS
  <2>1. holder = r
    BY DEF IInv, PlaceInv, Opened, Session
  <2>2. r = c /\ place[r] = "open"
    BY <1>10, <2>1
  <2>3. output[c] # Empty
    BY <2>2 DEF Opened, GotOk, Session
  <2> QED
    BY <1>1, <2>3 DEF IInv, OutputInv
<1>12. QueueInv'
  <2>1. \A i \in DOMAIN queue' :
          /\ queue'[i].cmd = "open" => queue'[i].of \in Runs
          /\ queue'[i].by \in {NoOne, queue'[i].of}
    BY <1>3, <1>4, <1>10 DEF IInv, QueueInv
  <2>2. \A i \in DOMAIN queue : queue[i].by \in Callers \cup {NoOne}
    BY QueueCallers DEF IInv, TypeOK
  <2>3. \A i \in DOMAIN queue' :
          queue'[i].by # NoOne =>
            launcher'[queue'[i].by] = "sent" /\ cmd'[queue'[i].by] = queue'[i].cmd
    <3> SUFFICES ASSUME NEW i \in DOMAIN queue', queue'[i].by # NoOne
                 PROVE  launcher'[queue'[i].by] = "sent" /\ cmd[queue'[i].by] = queue'[i].cmd
      BY <1>7
    <3>1. CASE i \in DOMAIN queue /\ queue'[i] = queue[i]
      <4>1. launcher[queue[i].by] = "sent" /\ cmd[queue[i].by] = queue[i].cmd
        BY <3>1 DEF IInv, QueueInv
      <4> QED
        BY <1>5, <2>2, <3>1, <4>1
    <3>2. CASE queue'[i] = s
      BY <1>3, <1>5, <3>2
    <3> QED
      BY <1>4, <3>1, <3>2
  <2>4. ASSUME NEW i \in DOMAIN queue', queue'[i].by # NoOne, queue'[i].cmd = "open",
               NEW j \in DOMAIN queue', j > i, queue'[j].cmd = "open"
        PROVE  FALSE
    <3>1. i \in DOMAIN queue /\ queue'[i] = queue[i]
      BY <1>4, <2>4
    <3>2. j \notin DOMAIN queue /\ cmd[c] = "open"
      BY <1>3, <1>4, <2>4, <3>1 DEF IInv, QueueInv
    <3>3. PICK d \in Runs : d = queue[i].by /\ cmd[d] = "open" /\ launcher[d] = "sent"
      BY <2>4, <3>1 DEF IInv, QueueInv
    <3>4. place[d] = "open" /\ holder = d
      <4>1. place[d] = "open"
        BY <3>3 DEF IInv, CallInv, Wants, Callers
      <4> QED
        BY <4>1 DEF IInv, PlaceInv, Session
    <3> QED
      BY <1>1, <1>10, <3>2, <3>3, <3>4
  <2> QED
    BY <2>1, <2>3, <2>4 DEF QueueInv
<1>13. PageInv'
  <2>1. \A r \in Runs : Opened(r)' => Opened(r)
    BY <1>7 DEF Opened, GotOk
  <2>2. \A r \in Runs \ blind : Opened(r) => \A i \in DOMAIN queue' : queue'[i].cmd # "open"
    BY <1>3, <1>4, <1>11 DEF IInv, PageInv
  <2> QED
    BY <1>7, <2>1, <2>2 DEF IInv, PageInv, GotOk
<1> QED
  BY <1>6, <1>8, <1>9, <1>12, <1>13 DEF IInv

\* A launcher writes on.
LEMMA WriteRestKeeps ==
  ASSUME IInv, NEW c \in Callers, WriteRest(c)
  PROVE  IInv'
<1>1. /\ output[c].form = "torn" /\ output' = [output EXCEPT ![c].form = "whole"]
      /\ UNCHANGED <<script, cmd, launcher, browser, late>>
  BY DEF WriteRest
<1>2. output[c] \in Answers
  BY <1>1 DEF IInv, TypeOK, Empty
<1>3. /\ output' \in [Callers -> Answers \cup {Empty}]
      /\ \A d \in Callers : /\ d # c => output'[d] = output[d]
                            /\ d = c => /\ output[d] # Empty /\ output'[d] # Empty
                                        /\ output'[d].ok = output[d].ok
                                        /\ output'[d].of = output[d].of
  <2> DEFINE a == [output[c] EXCEPT !.form = "whole"]
  <2>1. a \in Answers /\ a.ok = output[c].ok /\ a.of = output[c].of /\ a.form = "whole"
    BY <1>2 DEF Answers
  <2>2. output' = [output EXCEPT ![c] = a]
    BY <1>1
  <2> HIDE DEF a
  <2>3. \A d \in Callers : output'[d] = IF d = c THEN a ELSE output[d]
    BY <2>2 DEF IInv, TypeOK
  <2>4. output[c] # Empty /\ a # Empty
    BY <1>1, <2>1 DEF Empty
  <2>5. output' \in [Callers -> Answers \cup {Empty}]
    BY <2>1, <2>2 DEF IInv, TypeOK
  <2> QED
    BY <2>1, <2>3, <2>4, <2>5
<1>4. TypeOK'
  BY <1>1, <1>3 DEF IInv, TypeOK, script, browser
<1>5. PlaceInv' /\ CallInv'
  BY <1>1, AsideScript
<1>6. \A d \in Callers : GotOk(d)' <=> GotOk(d)
  BY <1>3 DEF GotOk
<1>7. \A d \in Callers : output'[d].of = output[d].of
  BY <1>3
<1>8. OutputInv'
  BY <1>1, <1>3, <1>6, <1>7 DEF IInv, OutputInv
<1>9. QueueInv'
  BY <1>1 DEF IInv, QueueInv, browser
<1>10. PageInv'
  BY <1>1, <1>6, <1>7 DEF IInv, PageInv, Opened, script, browser, Callers
<1> QED
  BY <1>4, <1>5, <1>8, <1>9, <1>10 DEF IInv

\* A context ends.
LEMMA ContextKeeps ==
  ASSUME IInv, NEW c \in Callers, ContextEnds(c)
  PROVE  IInv'
<1>1. late' \subseteq Callers /\ UNCHANGED <<script, cmd, launcher, output, browser>>
  BY DEF ContextEnds, IInv, TypeOK
<1>2. TypeOK'
  BY <1>1 DEF IInv, TypeOK, script, browser
<1>3. PlaceInv' /\ CallInv'
  BY <1>1, AsideScript
<1>4. OutputInv' /\ QueueInv'
  BY <1>1 DEF IInv, OutputInv, QueueInv, GotOk, browser
<1>5. PageInv'
  BY <1>1 DEF IInv, PageInv, Opened, GotOk, script, browser
<1> QED
  BY <1>2, <1>3, <1>4, <1>5 DEF IInv

------------------------------------------------------------------------------
(* Calls begin, sessions begin and end.                                    *)

\* A call begins: nothing of it is in its output file, in the queue or at the browser.
LEMMA StartKeeps ==
  ASSUME IInv, NEW c \in Callers, Start(c)
  PROVE  IInv'
<1>1. PICK what \in Commands :
        /\ Wants(c, what)
        /\ cmd' = [cmd EXCEPT ![c] = what]
        /\ launcher' = [launcher EXCEPT ![c] = "started"]
        /\ output' = [output EXCEPT ![c] = Empty]
  BY DEF Start
<1>2. cmd[c] = "none" /\ launcher[c] = "none" /\ UNCHANGED <<script, browser, late>>
  BY DEF Start, IInv, TypeOK
<1>3. \A d \in Callers :
        /\ cmd'[d] = IF d = c THEN what ELSE cmd[d]
        /\ launcher'[d] = IF d = c THEN "started" ELSE launcher[d]
        /\ output'[d] = IF d = c THEN Empty ELSE output[d]
  BY <1>1 DEF IInv, TypeOK
<1>4. what # "none"
  BY DEF Commands
<1>5. TypeOK'
  <2>1. /\ cmd' \in [Callers -> Commands \cup {"none"}]
        /\ launcher' \in [Callers -> {"none", "started", "sent"}]
        /\ output' \in [Callers -> Answers \cup {Empty}]
    BY <1>1 DEF IInv, TypeOK
  <2>2. \A d \in Callers : cmd'[d] = "none" <=> launcher'[d] = "none"
    BY <1>3, <1>4 DEF IInv, TypeOK
  <2> QED
    BY <1>2, <2>1, <2>2 DEF IInv, TypeOK, script, browser
<1>6. /\ place' = place /\ holder' = holder /\ tries' = tries /\ uses' = uses
      /\ reports' = reports /\ blind' = blind /\ queue' = queue /\ page' = page
      /\ image' = image
  BY <1>2 DEF script, browser
<1>7. PlaceInv'
  BY <1>6 DEF IInv, PlaceInv
<1>8. CallInv'
  <2>1. \A d \in Callers, w \in Commands : Wants(d, w) => Wants(d, w)'
    BY <1>6 DEF Wants
  <2>2. \A d \in Callers : cmd'[d] # "none" => cmd'[d] \in Commands /\ Wants(d, cmd'[d])
    BY <1>1, <1>3 DEF IInv, CallInv, TypeOK
  <2>3. \A d \in Callers : cmd'[d] # "none" => Wants(d, cmd[d])'
    BY <2>1, <2>2 DEF Wants
  <2> QED
    BY <2>3 DEF CallInv
<1>9. \A d \in Callers : GotOk(d)' => d # c /\ GotOk(d)
  BY <1>3 DEF GotOk
<1>10. OutputInv'
  BY <1>3, <1>9 DEF IInv, OutputInv
<1>11. QueueInv'
  <2>1. \A i \in DOMAIN queue : queue[i].by # NoOne => queue[i].by \in Callers /\ queue[i].by # c
    <3>1. \A i \in DOMAIN queue : queue[i].by \in Callers \cup {NoOne}
      BY QueueCallers DEF IInv, TypeOK
    <3> QED
      BY <1>2, <3>1 DEF IInv, QueueInv
  <2> QED
    BY <1>3, <1>6, <2>1 DEF IInv, QueueInv
<1>12. PageInv'
  <2>1. \A r \in Runs : r \in Callers
    BY DEF Callers
  <2>2. \A r \in Runs : Opened(r)' => Opened(r)
    BY <1>6, <1>9, <2>1 DEF Opened
  <2> QED
    BY <1>3, <1>6, <1>9, <2>1, <2>2 DEF IInv, PageInv
<1> QED
  BY <1>5, <1>7, <1>8, <1>10, <1>11, <1>12 DEF IInv

\* What ends an operation or a call ends it for its caller alone.
LEMMA LeaveFacts ==
  ASSUME IInv, NEW c \in Callers, Leave(c)
  PROVE  /\ holder' = IF holder = c THEN NoOne ELSE holder
         /\ \A d \in Callers : place'[d] = IF d = c THEN "done" ELSE place[d]
         /\ place' \in [Callers -> Places]
         /\ late' \subseteq Callers /\ blind' = blind \ {c}
         /\ tries' \in [Runs -> 0 .. Tries] /\ uses' \in [Runs -> 0 .. MaxUses]
         /\ reports' \in [Runs -> SUBSET Runs]
         /\ \A r \in Runs : /\ r # c => /\ tries'[r] = tries[r] /\ uses'[r] = uses[r]
                                        /\ reports'[r] = reports[r]
                            /\ r = c => reports'[r] = {}
BY DEF IInv, TypeOK, Leave, Enter, Places

\* A run takes the lock, which nobody in the script has.
LEMMA AcquireKeeps ==
  ASSUME IInv, NEW r \in Runs, Acquire(r)
  PROVE  IInv'
<1>1. /\ place[r] = "idle" /\ holder = NoOne /\ holder' = r
      /\ place' = [place EXCEPT ![r] = "open"]
      /\ UNCHANGED <<cmd, launcher, output, browser, late, tries, uses, reports, blind>>
  BY DEF Acquire
<1>2. r \in Callers /\ \A d \in Callers : place'[d] = IF d = r THEN "open" ELSE place[d]
  BY <1>1 DEF IInv, TypeOK, Callers
<1>3. cmd[r] = "none" /\ output[r] = Empty
  <2>1. ~Wants(r, cmd[r])
    BY <1>1 DEF Wants
  <2> QED
    BY <1>2, <2>1 DEF IInv, CallInv, OutputInv, TypeOK
<1>4. TypeOK'
  <2>1. place' \in [Callers -> Places]
    BY <1>1 DEF IInv, TypeOK, Places
  <2> QED
    BY <1>1, <2>1 DEF IInv, TypeOK, browser
<1>5. PlaceInv'
  <2>1. \A s \in Runs : s # NoOne /\ s \in Callers
    BY DEF Callers
  <2>2. \A s \in Runs : place[s] \notin Session
    BY <1>1, <2>1 DEF IInv, PlaceInv
  <2>3. \A d \in Closers : d # r /\ d \in Callers
    BY DEF Callers
  <2> QED
    BY <1>1, <1>2, <2>1, <2>2, <2>3 DEF IInv, PlaceInv, Session
<1>6. CallInv'
  <2>1. \A d \in Callers : d # r /\ cmd[d] # "none" => Wants(d, cmd[d])'
    BY <1>1, <1>2 DEF IInv, CallInv, Wants
  <2> QED
    BY <1>1, <1>3, <2>1 DEF CallInv
<1>7. OutputInv' /\ QueueInv'
  BY <1>1 DEF IInv, OutputInv, QueueInv, GotOk, browser
<1>8. PageInv'
  <2>1. \A s \in Runs : s \in Callers
    BY DEF Callers
  <2>2. \A s \in Runs : Opened(s)' => Opened(s)
    BY <1>1, <1>2, <1>3, <2>1 DEF Opened, GotOk, Session
  <2> QED
    BY <1>1, <2>2 DEF IInv, PageInv, GotOk, browser
<1> QED
  BY <1>4, <1>5, <1>6, <1>7, <1>8 DEF IInv

------------------------------------------------------------------------------
(* Calls return.                                                           *)

\* What c's going on leaves to the others.
Elsewhere(c) ==
  /\ place' \in [Callers -> Places]
  /\ late' \subseteq Callers /\ blind' \subseteq Runs /\ blind' \cup {c} = blind \cup {c}
  /\ tries' \in [Runs -> 0 .. Tries] /\ uses' \in [Runs -> 0 .. MaxUses]
  /\ reports' \in [Runs -> SUBSET Runs]
  /\ \A d \in Callers \ {c} : place'[d] = place[d]
  /\ \A r \in Runs \ {c} : tries'[r] = tries[r] /\ uses'[r] = uses[r] /\ reports'[r] = reports[r]

\* Where c goes on: out, giving the lock back, or further in its script; it reports its own
\* page and is in a session of its own unless it went on blindly.
GoesOn(c) ==
  \/ place'[c] = "done" /\ holder' = (IF holder = c THEN NoOne ELSE holder)
     /\ (c \in Runs => reports'[c] = {})
  \/ /\ c \in Runs /\ holder' = holder /\ place[c] \in Session
     /\ place'[c] \in Session \ {"open"}
     /\ place'[c] \in {"poll", "repoll"} => tries'[c] # 0
     /\ c \notin blind' => c \notin blind /\ Opened(c) /\ reports'[c] \subseteq {c}

\* An operation that leaves.
LEMMA LeaveGoes ==
  ASSUME IInv, NEW c \in Callers, Leave(c)
  PROVE  Elsewhere(c) /\ GoesOn(c)
<1>1. blind \subseteq Runs
  BY DEF IInv, TypeOK
<1> QED
  BY <1>1, LeaveFacts DEF Elsewhere, GoesOn

LEMMA OpenGoes ==
  ASSUME IInv, NEW c \in Runs, place[c] = "open", cmd[c] = "open",
         NEW result, result \in {Error, output[c]}, AfterOpen(c, result)
  PROVE  Elsewhere(c) /\ GoesOn(c)
<1> c \in Callers
  BY DEF Callers
<1>1. CASE result = Error
  BY <1>1, LeaveGoes DEF AfterOpen
<1>2. CASE result # Error
  <2>1. /\ Unread(c, result)
        /\ place' = [place EXCEPT ![c] = IF c \in RawRuns THEN "using" ELSE "poll"]
        /\ tries' = [tries EXCEPT ![c] = Tries]
        /\ UNCHANGED <<holder, late, uses, reports>>
    BY <1>2 DEF AfterOpen, Enter
  <2>2. result = output[c]
    BY <1>2
  <2>3. blind' = blind \/ blind' = blind \cup {c}
    BY <2>1 DEF Unread
  <2>4. c \notin blind' => GotOk(c) /\ blind' = blind
    BY <2>1, <2>2 DEF Unread, Parsed, Complete, GotOk, Empty
  <2>5. /\ place' \in [Callers -> Places] /\ tries' \in [Runs -> 0 .. Tries]
        /\ place'[c] = (IF c \in RawRuns THEN "using" ELSE "poll") /\ tries'[c] # 0
    BY <2>1 DEF IInv, TypeOK, Places
  <2>6. Elsewhere(c)
    BY <2>1, <2>3, <2>5 DEF IInv, TypeOK, Elsewhere
  <2>7. c \notin blind' => c \notin blind /\ Opened(c) /\ reports'[c] \subseteq {c}
    BY <2>1, <2>4 DEF Opened, IInv, PageInv
  <2>8. GoesOn(c)
    BY <2>1, <2>5, <2>7 DEF GoesOn, Session
  <2> QED
    BY <2>6, <2>8
<1> QED
  BY <1>1, <1>2

LEMMA PollGoes ==
  ASSUME IInv, NEW c \in Runs, place[c] \in {"poll", "repoll"},
         NEW result, AfterPoll(c, result)
  PROVE  Elsewhere(c) /\ GoesOn(c)
<1> c \in Callers
  BY DEF Callers
<1> DEFINE up == result # Error /\ Parsed(result) /\ result.bridge
           over == c \in late \/ tries[c] = 1
<1>1. CASE ~up /\ over /\ place[c] = "repoll"
  BY <1>1, LeaveGoes DEF AfterPoll
<1>2. CASE ~(~up /\ over /\ place[c] = "repoll")
  <2>1. /\ tries' = [tries EXCEPT ![c] = @ - 1]
        /\ place' = [place EXCEPT ![c] = IF up THEN "using" ELSE IF over THEN "reload" ELSE place[c]]
        /\ UNCHANGED <<holder, late, uses, reports, blind>>
    BY <1>2 DEF AfterPoll, Enter
  <2>2. tries[c] # 0 /\ tries[c] \in 0 .. Tries
    BY DEF IInv, PlaceInv, TypeOK
  <2>3. tries'[c] = tries[c] - 1 /\ tries' \in [Runs -> 0 .. Tries]
    BY <2>1, <2>2 DEF IInv, TypeOK
  <2>4. place' \in [Callers -> Places] /\ place'[c] \in {"using", "reload", place[c]}
    BY <2>1 DEF IInv, TypeOK, Places
  <2>5. place'[c] \in {"poll", "repoll"} => tries[c] # 1
    BY <2>1, <2>4 DEF IInv, TypeOK
  <2>6. Elsewhere(c)
    BY <2>1, <2>3, <2>4 DEF IInv, TypeOK, Elsewhere
  <2>7. place'[c] \in Session \ {"open"} /\ place[c] \in Session \ {"open"}
    BY <2>4 DEF Session
  <2>8. tries'[c] = 0 => tries[c] = 1
    BY <2>2, <2>3
  <2>9. c \notin blind' => Opened(c) /\ reports'[c] \subseteq {c}
    BY <2>1, <2>7 DEF Opened, IInv, PageInv
  <2>10. GoesOn(c)
    BY <2>1, <2>5, <2>7, <2>8, <2>9 DEF GoesOn
  <2> QED
    BY <2>6, <2>10
<1> QED
  BY <1>1, <1>2

LEMMA ReloadGoes ==
  ASSUME IInv, NEW c \in Runs, place[c] = "reload", AfterReload(c)
  PROVE  Elsewhere(c) /\ GoesOn(c)
<1> c \in Callers
  BY DEF Callers
<1>1. /\ place' = [place EXCEPT ![c] = "repoll"] /\ tries' = [tries EXCEPT ![c] = Tries]
      /\ UNCHANGED <<holder, late, uses, reports, blind>>
  BY DEF AfterReload, Enter
<1>2. /\ place' \in [Callers -> Places] /\ tries' \in [Runs -> 0 .. Tries]
      /\ place'[c] = "repoll" /\ tries'[c] # 0
  BY <1>1 DEF IInv, TypeOK, Places
<1>3. Elsewhere(c)
  BY <1>1, <1>2 DEF IInv, TypeOK, Elsewhere
<1>4. c \notin blind' => Opened(c) /\ reports'[c] \subseteq {c}
  BY <1>1 DEF Opened, IInv, PageInv, Session
<1> QED
  BY <1>1, <1>2, <1>3, <1>4 DEF GoesOn, Session

LEMMA UseGoes ==
  ASSUME IInv, NEW c \in Runs, place[c] = "using", uses[c] < MaxUses,
         NEW result, result \in {Error, output[c]}, AfterUse(c, result)
  PROVE  Elsewhere(c) /\ GoesOn(c)
<1> c \in Callers
  BY DEF Callers
<1> DEFINE shot == cmd[c] = "screenshot" /\ result # Error /\ image # NoOne
           read == cmd[c] = "read" /\ result # Error /\ Parsed(result)
           more == IF shot THEN {image} ELSE IF read THEN {result.of} ELSE {}
<1>1. /\ uses' = [uses EXCEPT ![c] = @ + 1]
      /\ reports' = [reports EXCEPT ![c] = @ \cup more]
      /\ IF shot THEN Unread(c, result) ELSE UNCHANGED blind
      /\ UNCHANGED <<holder, late, place, tries>>
  BY DEF AfterUse
<1>2. result # Error => result = output[c]
  OBVIOUS
<1>3. result # Error /\ Parsed(result) => GotOk(c)
  BY <1>2 DEF Parsed, Complete, GotOk, Empty
<1>4. more \subseteq Runs
  <2>1. shot => image \in Runs
    BY DEF IInv, TypeOK, Pages
  <2>2. read => result.of \in Runs
    BY <1>2, <1>3 DEF IInv, OutputInv
  <2> QED
    BY <2>1, <2>2
<1>5. c \notin blind' => c \notin blind /\ more \subseteq {c}
  <2>1. blind' = blind \/ blind' = blind \cup {c}
    BY <1>1 DEF Unread
  <2> SUFFICES ASSUME c \notin blind' PROVE more \subseteq {c}
    BY <2>1
  <2>2. c \notin blind
    BY <2>1
  <2>3. CASE shot
    <3>1. Parsed(result)
      BY <1>1, <2>3 DEF Unread
    <3> QED
      BY <1>3, <2>2, <2>3, <3>1 DEF IInv, PageInv
  <2>4. CASE ~shot /\ read
    BY <1>2, <1>3, <2>2, <2>4 DEF IInv, PageInv
  <2>5. CASE ~shot /\ ~read
    BY <2>5
  <2> QED
    BY <2>3, <2>4, <2>5
<1> HIDE DEF more
<1>6. /\ reports' \in [Runs -> SUBSET Runs] /\ reports'[c] = reports[c] \cup more
      /\ \A r \in Runs \ {c} : reports'[r] = reports[r]
  BY <1>1, <1>4 DEF IInv, TypeOK
<1>7. uses' \in [Runs -> 0 .. MaxUses]
  BY <1>1 DEF IInv, TypeOK
<1>8. blind' \subseteq Runs /\ blind' \cup {c} = blind \cup {c}
  BY <1>1 DEF Unread, IInv, TypeOK
<1>9. Elsewhere(c)
  BY <1>1, <1>6, <1>7, <1>8 DEF IInv, TypeOK, Elsewhere
<1>10. c \notin blind' => c \notin blind /\ Opened(c) /\ reports'[c] \subseteq {c}
  BY <1>5, <1>6 DEF Opened, IInv, PageInv, Session
<1> QED
  BY <1>1, <1>9, <1>10 DEF GoesOn, Session

\* Wherever c stands when its call returns.
LEMMA ScriptGoes ==
  ASSUME IInv, NEW c \in Callers, launcher[c] # "none",
         NEW result, result \in {Error, output[c]}, Continue(c, result)
  PROVE  Elsewhere(c) /\ GoesOn(c)
<1>1. cmd[c] # "none" /\ Wants(c, cmd[c])
  BY DEF IInv, TypeOK, CallInv
<1>2. place[c] \in {"open", "poll", "repoll", "reload", "using", "closing"}
  BY <1>1 DEF Wants
<1>3. place[c] # "closing" => c \in Runs
  BY <1>2 DEF IInv, PlaceInv, Callers
<1>4. CASE place[c] = "open"
  <2>1. cmd[c] = "open" /\ AfterOpen(c, result)
    BY <1>1, <1>4 DEF Wants, Continue
  <2> QED
    BY <1>3, <1>4, <2>1, OpenGoes
<1>5. CASE place[c] \in {"poll", "repoll"}
  <2>1. AfterPoll(c, result)
    BY <1>5 DEF Continue
  <2> QED
    BY <1>3, <1>5, <2>1, PollGoes
<1>6. CASE place[c] = "reload"
  <2>1. AfterReload(c)
    BY <1>6 DEF Continue
  <2> QED
    BY <1>3, <1>6, <2>1, ReloadGoes
<1>7. CASE place[c] = "using"
  <2>1. uses[c] < MaxUses /\ AfterUse(c, result)
    BY <1>1, <1>7 DEF Wants, Continue
  <2> QED
    BY <1>3, <1>7, <2>1, UseGoes
<1>8. CASE place[c] = "closing"
  <2>1. Leave(c)
    BY <1>8 DEF Continue
  <2> QED
    BY <2>1, LeaveGoes
<1> QED
  BY <1>2, <1>4, <1>5, <1>6, <1>7, <1>8

\* Outside a call, whoever goes on keeps what holds of places and of the script.
LEMMA GoingOnKeeps ==
  ASSUME IInv, NEW c \in Callers, Elsewhere(c), GoesOn(c),
         cmd' \in [Callers -> Commands \cup {"none"}], cmd'[c] = "none",
         \A d \in Callers \ {c} : cmd'[d] = cmd[d]
  PROVE  PlaceInv' /\ CallInv' /\ holder' \in Runs \cup {NoOne}
<1>1. PlaceInv'
  <2>1. \A d \in Closers : d \in Callers \ Runs
    BY DEF Callers
  <2>2. \A d \in Closers : place'[d] \in {"idle", "closing", "done"}
    BY <2>1 DEF IInv, PlaceInv, Elsewhere, GoesOn
  <2>3. ASSUME NEW r \in Runs
        PROVE  /\ place'[r] # "closing"
               /\ place'[r] \in Session => holder' = r
               /\ place'[r] \in {"poll", "repoll"} => tries'[r] # 0
    <3>1. CASE r = c
      BY <3>1 DEF IInv, PlaceInv, GoesOn, Session
    <3>2. CASE r # c
      <4>1. place'[r] = place[r] /\ tries'[r] = tries[r]
        BY <3>2 DEF Elsewhere, Callers
      <4>2. holder = r => holder' = r
        <5>1. CASE place[c] \in Session /\ c \in Runs
          BY <3>2, <5>1 DEF IInv, PlaceInv
        <5>2. CASE holder' = IF holder = c THEN NoOne ELSE holder
          BY <3>2, <5>2
        <5> QED
          BY <5>1, <5>2 DEF GoesOn
      <4> QED
        BY <4>1, <4>2 DEF IInv, PlaceInv
    <3> QED
      BY <3>1, <3>2
  <2> QED
    BY <2>2, <2>3 DEF PlaceInv
<1>2. CallInv'
  <2> SUFFICES ASSUME NEW d \in Callers, cmd'[d] # "none" PROVE Wants(d, cmd[d])'
    BY DEF CallInv
  <2>1. d # c /\ cmd'[d] = cmd[d] /\ place'[d] = place[d]
    BY DEF Elsewhere
  <2>2. Wants(d, cmd[d])
    BY <2>1 DEF IInv, CallInv
  <2>3. CASE place[d] = "using"
    <3>1. d \in Runs /\ uses'[d] = uses[d]
      BY <2>1, <2>3 DEF IInv, PlaceInv, Callers, Elsewhere
    <3> QED
      BY <2>1, <2>2, <2>3, <3>1 DEF Wants
  <2>4. CASE place[d] # "using"
    BY <2>1, <2>2, <2>4 DEF Wants
  <2> QED
    BY <2>3, <2>4
<1>3. holder' \in Runs \cup {NoOne}
  BY DEF IInv, TypeOK, GoesOn
<1> QED
  BY <1>1, <1>2, <1>3

\* A session that goes on, or another's, is in the same hands as before.
LEMMA GoingOnOpened ==
  ASSUME IInv, NEW c \in Callers, Elsewhere(c), GoesOn(c),
         \A d \in Callers : GotOk(d)' => d # c /\ GotOk(d),
         NEW r \in Runs, r \notin blind'
  PROVE  /\ r \notin blind \/ (r = c /\ place'[r] = "done")
         /\ reports'[r] \subseteq {r}
         /\ Opened(r)' => Opened(r) /\ r \notin blind
<1>1. r \in Callers
  BY DEF Callers
<1>2. CASE r = c
  BY <1>1, <1>2 DEF GoesOn, Opened, Session
<1>3. CASE r # c
  <2>1. r \notin blind /\ place'[r] = place[r] /\ reports'[r] = reports[r]
    BY <1>1, <1>3 DEF Elsewhere
  <2> QED
    BY <1>1, <2>1 DEF IInv, PageInv, Opened
<1> QED
  BY <1>2, <1>3

\* A call returns, however it does.
LEMMA ReturnKeeps ==
  ASSUME IInv, NEW c \in Callers, Return(c)
  PROVE  IInv'
<1>1. PICK result \in {Error, output[c]} :
        launcher[c] # "none" /\ Continue(c, result) /\ CallEnds(c)
  <2>1. CASE ReturnExit(c)
    <3>1. PICK failed \in BOOLEAN :
            Continue(c, IF failed /\ ~Complete(output[c]) THEN Error ELSE output[c])
      BY <2>1 DEF ReturnExit
    <3> QED
      BY <2>1, <3>1 DEF ReturnExit, Running
  <2>2. CASE Kill(c)
    BY <2>2 DEF Kill, ReturnEarly, ReturnContext, ReturnDeadline, Running
  <2> QED
    BY <2>1, <2>2 DEF Return
<1>2. Elsewhere(c) /\ GoesOn(c)
  BY <1>1, ScriptGoes
<1>3. /\ cmd' = [cmd EXCEPT ![c] = "none"]
      /\ launcher' = [launcher EXCEPT ![c] = "none"]
      /\ output' = [output EXCEPT ![c] = Empty]
      /\ page' = page /\ bridge' = bridge /\ image' = image
  BY <1>1 DEF CallEnds
<1>4. \A d \in Callers :
        /\ cmd'[d] = IF d = c THEN "none" ELSE cmd[d]
        /\ launcher'[d] = IF d = c THEN "none" ELSE launcher[d]
        /\ output'[d] = IF d = c THEN Empty ELSE output[d]
  BY <1>3 DEF IInv, TypeOK
<1>5. /\ queue' \in Seq(Sent) /\ DOMAIN queue' = DOMAIN queue
      /\ \A i \in DOMAIN queue :
           /\ queue'[i].cmd = queue[i].cmd /\ queue'[i].of = queue[i].of
           /\ queue'[i].by # c /\ queue'[i].by \in {queue[i].by, NoOne}
  BY <1>1, QueueForgets DEF IInv
<1>6. /\ cmd' \in [Callers -> Commands \cup {"none"}]
      /\ launcher' \in [Callers -> {"none", "started", "sent"}]
      /\ output' \in [Callers -> Answers \cup {Empty}]
      /\ \A d \in Callers : cmd'[d] = "none" <=> launcher'[d] = "none"
  BY <1>3, <1>4 DEF IInv, TypeOK
<1>7. PlaceInv' /\ CallInv' /\ holder' \in Runs \cup {NoOne}
  BY <1>2, <1>4, <1>6, GoingOnKeeps
<1>8. TypeOK'
  BY <1>2, <1>3, <1>5, <1>6, <1>7 DEF IInv, TypeOK, Elsewhere
<1>9. \A d \in Callers : GotOk(d)' => d # c /\ GotOk(d)
  BY <1>4 DEF GotOk
<1>10. OutputInv'
  BY <1>4, <1>9 DEF IInv, OutputInv
<1>11. QueueInv'
  <2>1. \A i \in DOMAIN queue : queue[i].by \in Callers \cup {NoOne}
    BY QueueCallers DEF IInv, TypeOK
  <2> SUFFICES ASSUME NEW i \in DOMAIN queue
               PROVE  /\ queue'[i].cmd = "open" => queue'[i].of \in Runs
                      /\ queue'[i].by \in {NoOne, queue'[i].of}
                      /\ queue'[i].by # NoOne =>
                           /\ launcher'[queue'[i].by] = "sent"
                           /\ cmd'[queue'[i].by] = queue'[i].cmd
                      /\ queue'[i].by # NoOne /\ queue'[i].cmd = "open" =>
                           \A j \in DOMAIN queue' : j > i => queue'[j].cmd # "open"
    BY <1>5 DEF QueueInv
  <2>2. /\ queue[i].cmd = "open" => queue[i].of \in Runs
        /\ queue[i].by \in {NoOne, queue[i].of}
        /\ queue[i].by # NoOne =>
             launcher[queue[i].by] = "sent" /\ cmd[queue[i].by] = queue[i].cmd
        /\ queue[i].by # NoOne /\ queue[i].cmd = "open" =>
             \A j \in DOMAIN queue : j > i => queue[j].cmd # "open"
    BY DEF IInv, QueueInv
  <2>3. queue'[i].by # NoOne => queue'[i].by = queue[i].by /\ queue[i].by \in Callers \ {c}
    BY <1>5, <2>1
  <2>4. /\ queue'[i].cmd = "open" => queue'[i].of \in Runs
        /\ queue'[i].by \in {NoOne, queue'[i].of}
    BY <1>5, <2>2
  <2>5. queue'[i].by # NoOne =>
          launcher'[queue'[i].by] = "sent" /\ cmd'[queue'[i].by] = queue'[i].cmd
    BY <1>4, <1>5, <2>2, <2>3
  <2>6. queue'[i].by # NoOne /\ queue'[i].cmd = "open" =>
          \A j \in DOMAIN queue' : j > i => queue'[j].cmd # "open"
    BY <1>5, <2>2, <2>3
  <2> QED
    BY <2>4, <2>5, <2>6
<1>12. PageInv'
  <2> SUFFICES ASSUME NEW r \in Runs, r \notin blind'
               PROVE  /\ reports'[r] \subseteq {r}
                      /\ Opened(r)' => page \in {r, NoOne}
                                       /\ \A i \in DOMAIN queue' : queue'[i].cmd # "open"
                      /\ GotOk(r)' /\ cmd'[r] = "screenshot" => image = r
                      /\ GotOk(r)' /\ cmd'[r] = "read" => output'[r].of = r
    BY <1>3 DEF PageInv
  <2>1. r \in Callers
    BY DEF Callers
  <2>2. /\ r \notin blind \/ (r = c /\ place'[r] = "done")
        /\ reports'[r] \subseteq {r}
        /\ Opened(r)' => Opened(r) /\ r \notin blind
    BY <1>2, <1>9, GoingOnOpened
  <2>3. Opened(r)' => page \in {r, NoOne} /\ \A i \in DOMAIN queue' : queue'[i].cmd # "open"
    BY <1>5, <2>2 DEF IInv, PageInv
  <2>4. GotOk(r)' => r # c /\ GotOk(r) /\ r \notin blind
    BY <1>9, <2>1, <2>2
  <2>5. GotOk(r)' => cmd'[r] = cmd[r] /\ output'[r] = output[r]
    BY <1>4, <2>1, <2>4
  <2> QED
    BY <2>2, <2>3, <2>4, <2>5 DEF IInv, PageInv
<1> QED
  BY <1>7, <1>8, <1>10, <1>11, <1>12 DEF IInv

\* A session ends; its run is outside any call.
LEMMA EndKeeps ==
  ASSUME IInv, NEW c \in Runs, EndSession(c)
  PROVE  IInv'
<1>1. /\ cmd[c] = "none" /\ Leave(c) /\ UNCHANGED <<cmd, launcher, output, browser>>
      /\ c \in Callers
  BY DEF EndSession, Callers
<1>2. Elsewhere(c) /\ GoesOn(c)
  BY <1>1, LeaveGoes
<1>3. PlaceInv' /\ CallInv' /\ holder' \in Runs \cup {NoOne}
  <2>1. cmd' \in [Callers -> Commands \cup {"none"}] /\ cmd'[c] = "none" /\ cmd' = cmd
    BY <1>1 DEF IInv, TypeOK
  <2> QED
    BY <1>1, <1>2, <2>1, GoingOnKeeps
<1>4. TypeOK'
  BY <1>1, <1>2, <1>3 DEF IInv, TypeOK, Elsewhere, browser
<1>5. OutputInv' /\ QueueInv'
  BY <1>1 DEF IInv, OutputInv, QueueInv, GotOk, browser
<1>6. \A d \in Callers : GotOk(d)' => d # c /\ GotOk(d)
  <2>1. output[c] = Empty
    BY <1>1 DEF IInv, TypeOK, OutputInv
  <2> QED
    BY <1>1, <2>1 DEF GotOk
<1>7. PageInv'
  <2> SUFFICES ASSUME NEW r \in Runs, r \notin blind'
               PROVE  /\ reports'[r] \subseteq {r}
                      /\ Opened(r)' => page' \in {r, NoOne}
                                       /\ \A i \in DOMAIN queue' : queue'[i].cmd # "open"
                      /\ GotOk(r)' /\ cmd'[r] = "screenshot" => image' = r
                      /\ GotOk(r)' /\ cmd'[r] = "read" => output'[r].of = r
    BY DEF PageInv
  <2>1. /\ r \notin blind \/ (r = c /\ place'[r] = "done")
        /\ reports'[r] \subseteq {r}
        /\ Opened(r)' => Opened(r) /\ r \notin blind
    BY <1>1, <1>2, <1>6, GoingOnOpened
  <2>2. GotOk(r)' => GotOk(r) /\ r \notin blind
    BY <1>6, <2>1 DEF Callers
  <2> QED
    BY <1>1, <2>1, <2>2 DEF IInv, PageInv, browser
<1> QED
  BY <1>3, <1>4, <1>5, <1>7 DEF IInv

\* Closing without the lock begins.
LEMMA BeginCloseKeeps ==
  ASSUME IInv, NEW c \in Closers, BeginClose(c)
  PROVE  IInv'
<1>1. /\ place[c] = "idle" /\ place' = [place EXCEPT ![c] = "closing"] /\ c \in Callers \ Runs
      /\ UNCHANGED <<holder, cmd, launcher, output, browser, late, tries, uses, reports, blind>>
  BY DEF BeginClose, Enter, Callers
<1>2. \A d \in Callers : place'[d] = IF d = c THEN "closing" ELSE place[d]
  BY <1>1 DEF IInv, TypeOK
<1>3. cmd[c] = "none"
  <2>1. ~Wants(c, cmd[c])
    BY <1>1 DEF Wants
  <2> QED
    BY <1>1, <2>1 DEF IInv, CallInv
<1>4. TypeOK'
  <2>1. place' \in [Callers -> Places]
    BY <1>1 DEF IInv, TypeOK, Places
  <2> QED
    BY <1>1, <2>1 DEF IInv, TypeOK, browser
<1>5. \A r \in Runs : place'[r] = place[r]
  BY <1>1, <1>2 DEF Callers
<1>6. PlaceInv'
  BY <1>1, <1>2, <1>5 DEF IInv, PlaceInv, Callers
<1>7. CallInv'
  <2>1. \A d \in Callers : d # c /\ cmd[d] # "none" => Wants(d, cmd[d])'
    BY <1>1, <1>2 DEF IInv, CallInv, Wants
  <2> QED
    BY <1>1, <1>3, <2>1 DEF CallInv
<1>8. OutputInv' /\ QueueInv'
  BY <1>1 DEF IInv, OutputInv, QueueInv, GotOk, browser
<1>9. PageInv'
  BY <1>1, <1>5 DEF IInv, PageInv, Opened, GotOk, browser
<1> QED
  BY <1>4, <1>6, <1>7, <1>8, <1>9 DEF IInv

------------------------------------------------------------------------------
(* Together.                                                               *)

LEMMA Initially == Init => IInv
<1> SUFFICES ASSUME Init PROVE IInv
  OBVIOUS
<1>1. queue = <<>> /\ <<>> \in Seq(Sent) /\ DOMAIN <<>> = {}
  BY EmptySeq DEF Init
<1>2. \A c \in Callers :
        place[c] = "idle" /\ cmd[c] = "none" /\ launcher[c] = "none" /\ output[c] = Empty
  BY DEF Init
<1>3. TypeOK
  <2>1. /\ holder \in Runs \cup {NoOne} /\ page \in Pages /\ image \in Pages
        /\ bridge = FALSE /\ late \subseteq Callers /\ blind \subseteq Runs
    BY DEF Init, Pages
  <2>2. /\ place \in [Callers -> Places] /\ cmd \in [Callers -> Commands \cup {"none"}]
        /\ launcher \in [Callers -> {"none", "started", "sent"}]
        /\ output \in [Callers -> Answers \cup {Empty}]
    BY DEF Init, Places
  <2>3. /\ tries \in [Runs -> 0 .. Tries] /\ uses \in [Runs -> 0 .. MaxUses]
        /\ reports \in [Runs -> SUBSET Runs]
    BY DEF Init
  <2> QED
    BY <1>1, <1>2, <2>1, <2>2, <2>3 DEF TypeOK
<1>4. \A r \in Runs : r \in Callers
  BY DEF Callers
<1>5. PlaceInv
  BY <1>2 DEF PlaceInv, Session, Callers
<1>6. CallInv /\ OutputInv /\ QueueInv
  BY <1>1, <1>2 DEF CallInv, OutputInv, QueueInv, GotOk
<1>7. PageInv
  <2>1. \A r \in Runs : reports[r] = {} /\ ~Opened(r) /\ ~GotOk(r)
    BY <1>2, <1>4 DEF Init, Opened, GotOk, Session
  <2> QED
    BY <2>1 DEF PageInv
<1> QED
  BY <1>3, <1>5, <1>6, <1>7 DEF IInv

LEMMA Always == IInv /\ [Next]_vars => IInv'
<1> SUFFICES ASSUME IInv, [Next]_vars PROVE IInv'
  OBVIOUS
<1>1. CASE BrowserStep
  BY <1>1, BrowserKeeps
<1>2. ASSUME NEW c \in Callers,
             Send(c) \/ WriteRest(c) \/ ContextEnds(c) \/ Start(c) \/ Return(c)
      PROVE  IInv'
  BY <1>2, SendKeeps, WriteRestKeeps, ContextKeeps, StartKeeps, ReturnKeeps
<1>3. ASSUME NEW r \in Runs, Acquire(r) \/ EndSession(r) PROVE IInv'
  BY <1>3, AcquireKeeps, EndKeeps
<1>4. ASSUME NEW c \in Closers, BeginClose(c) PROVE IInv'
  BY <1>4, BeginCloseKeeps
<1>5. CASE UNCHANGED vars
  <2>1. PlaceInv' /\ CallInv'
    BY <1>5, AsideScript DEF vars, script
  <2>2. TypeOK'
    BY <1>5 DEF IInv, TypeOK, vars
  <2>3. OutputInv' /\ QueueInv'
    BY <1>5 DEF IInv, OutputInv, QueueInv, GotOk, vars
  <2>4. PageInv'
    BY <1>5 DEF IInv, PageInv, Opened, GotOk, vars
  <2> QED
    BY <2>1, <2>2, <2>3, <2>4 DEF IInv
<1> QED
  BY <1>1, <1>2, <1>3, <1>4, <1>5 DEF Next

\* What holds of sessions, calls, queue and page holds always.
THEOREM SessionInvariance == Spec => []IInv
<1> QED
  BY Initially, Always, PTL DEF Spec

\* Every variable stays in its type; polls and uses stay within their bounds.
THEOREM TypeCorrect == Spec => []TypeOK
<1>1. IInv => TypeOK
  BY DEF IInv
<1> QED
  BY <1>1, SessionInvariance, PTL

\* A session that has looked at its answers reports the page it opened and no other, for
\* any number of sessions after each other and closers beside them, whichever launchers are
\* killed while their commands wait.
THEOREM SessionsReportTheirOwn == Spec => []ReportsAreOwn
<1>1. IInv => ReportsAreOwn
  BY DEF IInv, PageInv, ReportsAreOwn
<1> QED
  BY <1>1, SessionInvariance, PTL
===============================================================================
