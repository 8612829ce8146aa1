------------------------- MODULE ProjectRegistryProofs -------------------------
(***************************************************************************)
(* Proofs about ProjectRegistry, for every number of callers, processes,   *)
(* codes and directories, and without a bound on calls.                    *)
(***************************************************************************)
EXTENDS ProjectRegistry, TLAPS

(* Lists without duplicates: the first entry of a code is the only one.    *)

LEMMA OnlyIndex ==
  ASSUME NEW list \in Lists, NoDuplicates(list), NEW code
  PROVE  FirstIndex(list, code) = { i \in DOMAIN list : list[i].code = code }
BY DEF Lists, NoDuplicates, FirstIndex

\* The entry of a code that a list has is what Lookup finds.
LEMMA LookupFinds ==
  ASSUME NEW list \in Lists, NoDuplicates(list), NEW f, f.list = list,
         NEW i \in DOMAIN list
  PROVE  Lookup(f, list[i].code) = list[i]
<1> DEFINE I == FirstIndex(list, list[i].code)
<1>1. I = {i}
  BY OnlyIndex DEF NoDuplicates
<1>2. (CHOOSE j \in I : TRUE) = i
  BY <1>1
<1> QED
  BY <1>1, <1>2 DEF Lookup

\* A code that no entry has is not found.
LEMMA LookupMisses ==
  ASSUME NEW list \in Lists, NEW f, f.list = list, NEW code,
         \A i \in DOMAIN list : list[i].code # code
  PROVE  Lookup(f, code) = NoReg
BY DEF Lookup, FirstIndex

\* Whatever Lookup finds is an entry of that code.
LEMMA LookupType ==
  ASSUME NEW list \in Lists, NEW f, f.list = list, NEW code
  PROVE  \/ Lookup(f, code) = NoReg
         \/ \E i \in DOMAIN list : list[i].code = code /\ Lookup(f, code) = list[i]
BY DEF Lookup, FirstIndex

\* Without takes out one entry and keeps the others, in their order.
LEMMA WithoutType ==
  ASSUME NEW list \in Lists, NEW i \in DOMAIN list
  PROVE  /\ Without(list, i) \in Lists
         /\ DOMAIN Without(list, i) = 1 .. (Len(list) - 1)
<1>1. Len(list) - 1 \in Nat /\ DOMAIN list = 1 .. Len(list) /\ i \in 1 .. Len(list)
  BY DEF Lists
<1>2. DOMAIN Without(list, i) = 1 .. (Len(list) - 1)
  BY DEF Without
<1>3. \A k \in 1 .. (Len(list) - 1) : Without(list, i)[k] \in Registration
  BY <1>1 DEF Without, Lists
<1>4. Without(list, i) \in [1 .. (Len(list) - 1) -> Registration]
  BY <1>2, <1>3 DEF Without
<1> QED
  BY <1>1, <1>2, <1>4 DEF Lists

LEMMA WithoutUnique ==
  ASSUME NEW list \in Lists, NEW i \in DOMAIN list, NoDuplicates(list)
  PROVE  /\ NoDuplicates(Without(list, i))
         /\ \A k \in DOMAIN Without(list, i) :
              \E j \in DOMAIN list \ {i} : Without(list, i)[k] = list[j]
         /\ \A j \in DOMAIN list \ {i} :
              \E k \in DOMAIN Without(list, i) : Without(list, i)[k] = list[j]
<1> DEFINE w == Without(list, i)
<1>1. DOMAIN list = 1 .. Len(list) /\ Len(list) \in Nat /\ i \in 1 .. Len(list)
  BY DEF Lists
<1>2. DOMAIN w = 1 .. (Len(list) - 1)
  BY WithoutType
<1>3. \A k \in DOMAIN w : w[k] = IF k < i THEN list[k] ELSE list[k + 1]
  BY <1>2 DEF Without
<1>4. NoDuplicates(w)
  BY <1>1, <1>2, <1>3 DEF NoDuplicates
<1>5. ASSUME NEW k \in DOMAIN w PROVE \E j \in DOMAIN list \ {i} : w[k] = list[j]
  <2>1. CASE k < i
    BY <2>1, <1>1, <1>2, <1>3
  <2>2. CASE ~(k < i)
    <3>1. k + 1 \in DOMAIN list \ {i} /\ w[k] = list[k + 1]
      BY <2>2, <1>1, <1>2, <1>3
    <3> QED
      BY <3>1
  <2> QED
    BY <2>1, <2>2
<1>6. ASSUME NEW j \in DOMAIN list \ {i} PROVE \E k \in DOMAIN w : w[k] = list[j]
  <2>1. CASE j < i
    <3>1. j \in DOMAIN w /\ w[j] = list[j]
      BY <2>1, <1>1, <1>2, <1>3
    <3> QED
      BY <3>1
  <2>2. CASE ~(j < i)
    <3>1. j - 1 \in DOMAIN w /\ w[j - 1] = list[j]
      BY <2>2, <1>1, <1>2, <1>3
    <3> QED
      BY <3>1
  <2> QED
    BY <2>1, <2>2
<1> QED
  BY <1>4, <1>5, <1>6

------------------------------------------------------------------------------
(* What an Add or Remove makes of a list.                                  *)

\* A request that is on its way to change the registry.
Changes(r) ==
  /\ r.op \in {"add", "remove"} /\ r.code \in Codes /\ r.replace \in BOOLEAN
  /\ r.op = "add" => r.reg \in Registration /\ r.reg.code = r.code

LEMMA ChangedCases ==
  ASSUME NEW r, Changes(r), NEW list, NEW new \in Changed(r, list)
  PROVE  \/ r.op = "remove" /\ \E i \in FirstIndex(list, r.code) : new = Without(list, i)
         \/ r.op = "add" /\ FirstIndex(list, r.code) = {} /\ new = Append(list, r.reg)
         \/ /\ r.op = "add" /\ r.replace
            /\ \E i \in FirstIndex(list, r.code) : new = [list EXCEPT ![i] = r.reg]
<1>1. CASE r.op = "remove"
  BY <1>1 DEF Changed
<1>2. CASE r.op = "add" /\ FirstIndex(list, r.code) = {}
  BY <1>2 DEF Changed
<1>3. CASE r.op = "add" /\ FirstIndex(list, r.code) # {} /\ r.replace
  BY <1>3 DEF Changed
<1>4. CASE r.op = "add" /\ FirstIndex(list, r.code) # {} /\ ~r.replace
  BY <1>4 DEF Changed
<1> QED
  BY <1>1, <1>2, <1>3, <1>4 DEF Changes

LEMMA ChangedType ==
  ASSUME NEW r, Changes(r), NEW list \in Lists, NEW new \in Changed(r, list)
  PROVE  new \in Lists
<1>1. ASSUME NEW i \in FirstIndex(list, r.code), new = Without(list, i) PROVE new \in Lists
  BY <1>1, WithoutType DEF FirstIndex
<1>2. ASSUME r.op = "add", new = Append(list, r.reg) PROVE new \in Lists
  BY <1>2 DEF Changes, Lists
<1>3. ASSUME r.op = "add", NEW i \in FirstIndex(list, r.code), new = [list EXCEPT ![i] = r.reg]
      PROVE  new \in Lists
  BY <1>3 DEF Changes, Lists, FirstIndex
<1> QED
  BY <1>1, <1>2, <1>3, ChangedCases

LEMMA ChangedUnique ==
  ASSUME NEW r, Changes(r), NEW list \in Lists, NoDuplicates(list), NEW new \in Changed(r, list)
  PROVE  NoDuplicates(new)
<1> DEFINE I == FirstIndex(list, r.code)
<1>1. I = { i \in DOMAIN list : list[i].code = r.code }
  BY OnlyIndex
<1>2. ASSUME NEW i \in I, new = Without(list, i) PROVE NoDuplicates(new)
  BY <1>2, <1>1, WithoutUnique
<1>3. ASSUME r.op = "add", I = {}, new = Append(list, r.reg) PROVE NoDuplicates(new)
  <2>1. DOMAIN new = 1 .. (Len(list) + 1) /\ DOMAIN list = 1 .. Len(list) /\ Len(list) \in Nat
    BY <1>3 DEF Lists
  <2>2. new[Len(list) + 1] = r.reg /\ \A i \in 1 .. Len(list) : new[i] = list[i]
    BY <1>3 DEF Lists
  <2>3. \A i \in 1 .. Len(list) : list[i].code # r.reg.code
    BY <1>1, <1>3, <2>1 DEF Changes
  <2> QED
    BY <2>1, <2>2, <2>3 DEF NoDuplicates
<1>4. ASSUME r.op = "add", NEW i \in I, new = [list EXCEPT ![i] = r.reg] PROVE NoDuplicates(new)
  <2>1. i \in DOMAIN list /\ list[i].code = r.reg.code
    BY <1>1, <1>4 DEF Changes
  <2>2. DOMAIN new = DOMAIN list /\ \A j \in DOMAIN list : new[j].code = list[j].code
    BY <1>4, <2>1
  <2> QED
    BY <2>2 DEF NoDuplicates
<1> QED
  BY <1>2, <1>3, <1>4, ChangedCases

\* A code of which the request says nothing keeps its entry, and the request's own
\* code changes as it asks.
LEMMA ChangedAsAsked ==
  ASSUME NEW c, Changes(req[c]), NEW list \in Lists, NoDuplicates(list),
         NEW new \in Changed(req[c], list), NEW code \in Codes,
         NEW f, f.list = list, NEW g, g.list = new
  PROVE  OnlyAsAsked(c, code, Lookup(f, code), Lookup(g, code))
<1> DEFINE r == req[c]
           I == FirstIndex(list, r.code)
           old == Lookup(f, code)
           now == Lookup(g, code)
<1> USE NoRegAssumption
<1>1. I = { i \in DOMAIN list : list[i].code = r.code }
  BY OnlyIndex
<1>2. new \in Lists /\ NoDuplicates(new)
  BY ChangedType, ChangedUnique
<1>3. \A i \in DOMAIN list : list[i] \in Registration
  BY DEF Lists
<1>4. ASSUME r.op = "remove", NEW i \in I, new = Without(list, i)
      PROVE  OnlyAsAsked(c, code, old, now)
  <2>1. i \in DOMAIN list /\ list[i].code = r.code
    BY <1>1
  <2>2. CASE code = r.code
    <3>1. \A k \in DOMAIN new : new[k].code # code
      BY <1>4, <2>1, <2>2, WithoutUnique DEF NoDuplicates
    <3>2. now = NoReg
      BY <1>2, <3>1, LookupMisses
    <3>3. old # NoReg
      BY <2>1, <2>2, <1>3, LookupFinds
    <3> QED
      BY <1>4, <2>2, <3>2, <3>3 DEF OnlyAsAsked, Asked
  <2>3. CASE code # r.code
    <3>1. CASE \E j \in DOMAIN list : list[j].code = code
      <4>1. PICK j \in DOMAIN list : list[j].code = code
        BY <3>1
      <4>2. j \in DOMAIN list \ {i}
        BY <4>1, <2>1, <2>3
      <4>3. PICK k \in DOMAIN new : new[k] = list[j]
        BY <1>4, <2>1, <4>2, WithoutUnique
      <4>4. old = list[j] /\ now = list[j]
        BY <1>2, <4>1, <4>3, LookupFinds
      <4> QED
        BY <4>4 DEF OnlyAsAsked
    <3>2. CASE \A j \in DOMAIN list : list[j].code # code
      <4>1. \A k \in DOMAIN new : new[k].code # code
        BY <1>4, <2>1, <3>2, WithoutUnique
      <4>2. old = NoReg /\ now = NoReg
        BY <1>2, <3>2, <4>1, LookupMisses
      <4> QED
        BY <4>2 DEF OnlyAsAsked
    <3> QED
      BY <3>1, <3>2
  <2> QED
    BY <2>2, <2>3
<1>5. ASSUME r.op = "add", I = {}, new = Append(list, r.reg)
      PROVE  OnlyAsAsked(c, code, old, now)
  <2>1. DOMAIN new = 1 .. (Len(list) + 1) /\ DOMAIN list = 1 .. Len(list) /\ Len(list) \in Nat
    BY <1>5 DEF Lists
  <2>2. new[Len(list) + 1] = r.reg /\ \A i \in DOMAIN list : i \in DOMAIN new /\ new[i] = list[i]
    BY <1>5, <2>1 DEF Lists
  <2>3. r.reg.code = r.code /\ r.reg \in Registration
    BY <1>5 DEF Changes
  <2>4. CASE code = r.code
    <3>1. old = NoReg
      BY <1>1, <1>5, <2>4, LookupMisses
    <3>2. now = r.reg
      BY <1>2, <2>1, <2>2, <2>3, <2>4, LookupFinds
    <3> QED
      BY <1>5, <2>4, <3>1, <3>2 DEF OnlyAsAsked, Asked
  <2>5. CASE code # r.code
    <3>1. CASE \E j \in DOMAIN list : list[j].code = code
      <4>1. PICK j \in DOMAIN list : list[j].code = code
        BY <3>1
      <4>2. j \in DOMAIN new /\ new[j] = list[j]
        BY <2>2
      <4>3. old = list[j] /\ now = list[j]
        BY <1>2, <4>1, <4>2, LookupFinds
      <4> QED
        BY <4>3 DEF OnlyAsAsked
    <3>2. CASE \A j \in DOMAIN list : list[j].code # code
      <4>1. \A k \in DOMAIN new : new[k].code # code
        BY <2>1, <2>2, <2>3, <2>5, <3>2
      <4>2. old = NoReg /\ now = NoReg
        BY <1>2, <3>2, <4>1, LookupMisses
      <4> QED
        BY <4>2 DEF OnlyAsAsked
    <3> QED
      BY <3>1, <3>2
  <2> QED
    BY <2>4, <2>5
<1>6. ASSUME r.op = "add", r.replace, NEW i \in I, new = [list EXCEPT ![i] = r.reg]
      PROVE  OnlyAsAsked(c, code, old, now)
  <2>1. i \in DOMAIN list /\ list[i].code = r.code /\ r.reg.code = r.code /\ r.reg \in Registration
    BY <1>1, <1>6 DEF Changes
  <2>2. DOMAIN new = DOMAIN list /\ new[i] = r.reg /\ \A j \in DOMAIN list \ {i} : new[j] = list[j]
    BY <1>6, <2>1
  <2>3. CASE code = r.code
    <3>1. now = r.reg /\ old = list[i]
      BY <1>2, <2>1, <2>2, <2>3, LookupFinds
    <3> QED
      BY <1>3, <1>6, <2>1, <2>3, <3>1 DEF OnlyAsAsked, Asked
  <2>4. CASE code # r.code
    <3>1. CASE \E j \in DOMAIN list : list[j].code = code
      <4>1. PICK j \in DOMAIN list : list[j].code = code
        BY <3>1
      <4>2. j \in DOMAIN new /\ new[j] = list[j]
        BY <2>1, <2>2, <2>4, <4>1
      <4>3. old = list[j] /\ now = list[j]
        BY <1>2, <4>1, <4>2, LookupFinds
      <4> QED
        BY <4>3 DEF OnlyAsAsked
    <3>2. CASE \A j \in DOMAIN list : list[j].code # code
      <4>1. \A k \in DOMAIN new : new[k].code # code
        BY <2>1, <2>2, <2>4, <3>2
      <4>2. old = NoReg /\ now = NoReg
        BY <1>2, <3>2, <4>1, LookupMisses
      <4> QED
        BY <4>2 DEF OnlyAsAsked
    <3> QED
      BY <3>1, <3>2
  <2> QED
    BY <2>3, <2>4
<1> QED
  BY <1>4, <1>5, <1>6, ChangedCases

------------------------------------------------------------------------------
(* The steps.                                                              *)

LEMMA NextCases ==
  ASSUME Next
  PROVE  \/ \E c \in Callers :
              \/ BeginAdd(c) \/ BeginRemove(c) \/ BeginResolve(c)
              \/ Lock(c) \/ Load(c) \/ Store(c) \/ StoreFails(c) \/ StoreTorn(c)
              \/ Get(c) \/ StatRoot(c) \/ CheckIdentity(c)
         \/ Edit
         \/ \E p \in Processes : Crash(p)
BY DEF Next, Proceed

\* What a call knows at each place.
CallOK ==
  \A c \in Callers :
    /\ pc[c] = "idle" => req[c] = NoRequest
    /\ pc[c] \in {"lock", "load", "store"} => Changes(req[c])
    /\ pc[c] \in {"get", "stat", "check"} => req[c].op = "resolve" /\ req[c].code \in Codes
    /\ pc[c] \in {"stat", "check"} => found[c] \in Registration

LEMMA DiscoverType ==
  ASSUME TypeOK, NEW d \in Dirs
  PROVE  Discover(d) \subseteq Dirs
<1>1. <<d>> \o Enclosing[d] \in Seq(Dirs)
  BY DirsAssumption
<1> QED
  BY <1>1 DEF Discover

LEMMA RootType == ASSUME TypeOK, NEW d \in Dirs PROVE CanonicalRoot(d) \in Dirs
BY DEF TypeOK, CanonicalRoot

LEMMA LookupInType ==
  ASSUME NEW f \in Files, NEW code PROVE Lookup(f, code) \in Registration \cup {NoReg}
<1>1. f.list \in Lists
  BY DEF Files
<1> QED
  BY <1>1, LookupType DEF Lists

\* A rename adds what each code stands for afterwards.
LEMMA RenamedType ==
  ASSUME TypeOK, NEW c, file' \in Files, Renamed(c)
  PROVE  /\ stale' \in SUBSET Callers
         /\ window' \in [Callers -> SUBSET (Registration \cup {NoReg})]
<1>1. \A code : Lookup(file', code) \in Registration \cup {NoReg}
  BY LookupInType
<1> QED
  BY <1>1 DEF Renamed, TypeOK

\* A call that returns keeps the types.
LEMMA FinishType ==
  ASSUME TypeOK, CallOK, NEW c \in Callers, NEW result \in Answers, Finish(c, result)
  PROVE  /\ mu' \in [Processes -> Callers \cup {Nobody}]
         /\ pc' \in [Callers -> {"idle", "lock", "load", "store", "get", "stat", "check"}]
         /\ req' \in [Callers -> Request]
         /\ mem' \in [Callers -> Lists]
         /\ found' \in [Callers -> Registration \cup {NoReg}]
         /\ answer' \in [Callers -> Answers]
         /\ CallOK'
<1>1. NoRequest \in Request
  BY DEF NoRequest, Request
<1>2. <<>> \in Lists
  BY DEF Lists
<1>3. ProcessOf[c] \in Processes
  BY CallersAssumption
<1> QED
  BY <1>1, <1>2, <1>3 DEF Finish, TypeOK, CallOK

\* Type correctness: every variable of the registry stays in its type under every step,
\* failure and crash, and a call carries at each place what the code has checked before.
THEOREM TypeCorrect == Spec => [](TypeOK /\ CallOK)
<1>1. Init => TypeOK /\ CallOK
  <2> SUFFICES ASSUME Init PROVE TypeOK /\ CallOK
    OBVIOUS
  <2>1. holds \in [Dirs -> Contents]
    BY ContentAssumption DEF Init, Contents
  <2>2. file \in Files
    <3>1. Missing \in Files
      BY DEF Missing, Files, Lists
    <3>2. ASSUME NEW k \in Codes, NEW d \in Dirs, holds[d] \in Ids
          PROVE  Stored(<<[code |-> k, root |-> d, id |-> holds[d], key |-> KeyFor(holds[d], d)]>>) \in Files
      <4>1. CanonicalRoot(d) \in Dirs
        BY <2>1 DEF CanonicalRoot
      <4>2. [code |-> k, root |-> d, id |-> holds[d], key |-> KeyFor(holds[d], d)] \in Registration
        BY <3>2, <4>1 DEF Registration, KeyFor
      <4> QED
        BY <4>2 DEF Stored, Files, Lists
    <3>3. \/ file = Missing
          \/ \E k \in Codes, d \in Dirs :
               /\ holds[d] \in Ids
               /\ file = Stored(<<[code |-> k, root |-> d, id |-> holds[d], key |-> KeyFor(holds[d], d)]>>)
      BY DEF Init
    <3> QED
      BY <3>1, <3>2, <3>3
  <2> QED
    BY <2>1, <2>2, BoundsAssumption
    DEF Init, TypeOK, CallOK, NoRequest, Request, Lists, Answers
<1>2. TypeOK /\ CallOK /\ [Next]_vars => (TypeOK /\ CallOK)'
  <2> SUFFICES ASSUME TypeOK, CallOK, [Next]_vars PROVE (TypeOK /\ CallOK)'
    OBVIOUS
  <2> USE DEF boundVars, historyVars
  <2> HIDE DEF Lookup
  <2>1. ASSUME NEW c \in Callers, BeginAdd(c) PROVE (TypeOK /\ CallOK)'
    <3>1. calls' \in 0 .. MaxCalls
      BY <2>1, BoundsAssumption DEF BeginAdd, TypeOK
    <3>2. PICK s \in Spellings, folder \in Dirs, replace \in BOOLEAN :
            LET roots == { d \in Discover(folder) : Content(d) \in Ids }
            IN \/ /\ Canon[s] = BadCode \/ roots = {}
                  /\ Finish(c, "none")
               \/ \E d \in roots :
                    /\ Canon[s] # BadCode
                    /\ req' = [req EXCEPT ![c] =
                         [op |-> "add", code |-> Canon[s], replace |-> replace,
                          reg |-> [code |-> Canon[s], root |-> CanonicalRoot(d),
                                   id |-> Content(d), key |-> KeyFor(Content(d), d)]]]
                    /\ Go(c, "lock")
      BY <2>1 DEF BeginAdd
    <3>3. CASE Finish(c, "none")
      BY <2>1, <3>1, <3>3, FinishType DEF BeginAdd, TypeOK, Answers
    <3>4. ASSUME NEW d \in Discover(folder), Content(d) \in Ids, Canon[s] # BadCode,
                 req' = [req EXCEPT ![c] =
                   [op |-> "add", code |-> Canon[s], replace |-> replace,
                    reg |-> [code |-> Canon[s], root |-> CanonicalRoot(d),
                             id |-> Content(d), key |-> KeyFor(Content(d), d)]]],
                 Go(c, "lock")
          PROVE  (TypeOK /\ CallOK)'
      <4>1. d \in Dirs /\ CanonicalRoot(d) \in Dirs
        BY DiscoverType, RootType
      <4>2. Canon[s] \in Codes
        BY <3>4, CodesAssumption
      <4> DEFINE reg == [code |-> Canon[s], root |-> CanonicalRoot(d),
                         id |-> Content(d), key |-> KeyFor(Content(d), d)]
                 r == [op |-> "add", code |-> Canon[s], replace |-> replace, reg |-> reg]
      <4>3. reg \in Registration /\ reg.code = Canon[s]
        BY <3>4, <4>1, <4>2 DEF Registration, KeyFor
      <4>4. r \in Request /\ Changes(r)
        BY <4>2, <4>3 DEF Request, Changes
      <4> HIDE DEF r
      <4>5. req' = [req EXCEPT ![c] = r]
        BY <3>4 DEF r
      <4> QED
        BY <2>1, <3>1, <3>4, <4>4, <4>5 DEF BeginAdd, Go, TypeOK, CallOK, Answers
    <3> QED
      BY <3>2, <3>3, <3>4
  <2>2. ASSUME NEW c \in Callers, BeginRemove(c) PROVE (TypeOK /\ CallOK)'
    <3>1. calls' \in 0 .. MaxCalls
      BY <2>2, BoundsAssumption DEF BeginRemove, TypeOK
    <3>2. CASE Finish(c, "none")
      BY <2>2, <3>1, <3>2, FinishType DEF BeginRemove, TypeOK, Answers
    <3>3. ASSUME NEW s \in Spellings, Canon[s] # BadCode, Go(c, "lock"),
                 req' = [req EXCEPT ![c] = [NoRequest EXCEPT !.op = "remove", !.code = Canon[s]]]
          PROVE  (TypeOK /\ CallOK)'
      <4> DEFINE r == [NoRequest EXCEPT !.op = "remove", !.code = Canon[s]]
      <4>1. r \in Request /\ Changes(r)
        BY <3>3, CodesAssumption DEF NoRequest, Request, Changes
      <4> HIDE DEF r
      <4>2. req' = [req EXCEPT ![c] = r]
        BY <3>3 DEF r
      <4> QED
        BY <2>2, <3>1, <3>3, <4>1, <4>2 DEF BeginRemove, Go, TypeOK, CallOK, Answers
    <3> QED
      BY <2>2, <3>2, <3>3 DEF BeginRemove
  <2>3. ASSUME NEW c \in Callers, BeginResolve(c) PROVE (TypeOK /\ CallOK)'
    <3>1. calls' \in 0 .. MaxCalls /\ UNCHANGED <<holds, file, events, stale>> /\ pc[c] = "idle"
      BY <2>3, BoundsAssumption DEF BeginResolve, TypeOK
    <3>2. ASSUME Finish(c, "unknown"), UNCHANGED window PROVE (TypeOK /\ CallOK)'
      BY <3>1, <3>2, FinishType DEF TypeOK, Answers
    <3>3. ASSUME NEW s \in Spellings, Canon[s] # BadCode, Go(c, "get"),
                 req' = [req EXCEPT ![c] = [NoRequest EXCEPT !.op = "resolve", !.code = Canon[s]]],
                 window' = [window EXCEPT ![c] = {Lookup(file, Canon[s])}]
          PROVE  (TypeOK /\ CallOK)'
      <4> DEFINE r == [NoRequest EXCEPT !.op = "resolve", !.code = Canon[s]]
      <4>1. r \in Request /\ r.op = "resolve" /\ r.code \in Codes
        BY <3>3, CodesAssumption DEF NoRequest, Request
      <4> HIDE DEF r
      <4>2. req' = [req EXCEPT ![c] = r]
        BY <3>3 DEF r
      <4>3. answer' \in [Callers -> Answers] /\ UNCHANGED <<mem, found, mu>>
        BY <3>3 DEF Go, TypeOK, Answers
      <4>4. CallOK'
        BY <3>1, <3>3, <4>1, <4>2, <4>3 DEF Go, CallOK, TypeOK
      <4>5. window' \in [Callers -> SUBSET (Registration \cup {NoReg})]
        BY <3>3, LookupInType DEF TypeOK
      <4> QED
        BY <3>1, <3>3, <4>1, <4>2, <4>3, <4>4, <4>5 DEF Go, TypeOK
    <3> QED
      BY <2>3, <3>2, <3>3 DEF BeginResolve
  <2>4. ASSUME NEW c \in Callers, Lock(c) PROVE (TypeOK /\ CallOK)'
    BY <2>4, CallersAssumption DEF Lock, TypeOK, CallOK
  <2>5. ASSUME NEW c \in Callers, Load(c) PROVE (TypeOK /\ CallOK)'
    <3>1. CASE Finish(c, "none")
      BY <2>5, <3>1, FinishType DEF Load, TypeOK, Answers
    <3>2. ASSUME NEW list \in Changed(req[c], file.list), mem' = [mem EXCEPT ![c] = list],
                 pc' = [pc EXCEPT ![c] = "store"], stale' = stale \ {c},
                 UNCHANGED <<req, found, answer, mu>>
          PROVE  (TypeOK /\ CallOK)'
      <4>1. list \in Lists
        BY <2>5, ChangedType DEF Load, TypeOK, CallOK, Files
      <4>2. UNCHANGED <<holds, file, calls, events, window>> /\ pc[c] = "load"
        BY <2>5 DEF Load
      <4> QED
        BY <3>2, <4>1, <4>2 DEF TypeOK, CallOK
    <3> QED
      BY <2>5, <3>1, <3>2 DEF Load
  <2>6. ASSUME NEW c \in Callers, Store(c) PROVE (TypeOK /\ CallOK)'
    <3>1. file' \in Files
      BY <2>6 DEF Store, Stored, Files, TypeOK
    <3> QED
      BY <2>6, <3>1, FinishType, RenamedType DEF Store, TypeOK, Answers
  <2>7. ASSUME NEW c \in Callers, StoreFails(c) PROVE (TypeOK /\ CallOK)'
    BY <2>7, FinishType DEF StoreFails, TypeOK, Answers
  <2>8. ASSUME NEW c \in Callers, StoreTorn(c) PROVE (TypeOK /\ CallOK)'
    <3>1. file' \in Files
      BY <2>8 DEF StoreTorn, Torn, Files, Lists
    <3> QED
      BY <2>8, <3>1, FinishType, RenamedType DEF StoreTorn, TypeOK, Answers
  <2>9. ASSUME NEW c \in Callers, Get(c) PROVE (TypeOK /\ CallOK)'
    <3>1. CASE Finish(c, "unknown")
      BY <2>9, <3>1, FinishType DEF Get, TypeOK, Answers
    <3>2. CASE /\ Lookup(file, req[c].code) # NoReg
               /\ found' = [found EXCEPT ![c] = Lookup(file, req[c].code)]
               /\ pc' = [pc EXCEPT ![c] = "stat"]
               /\ UNCHANGED <<req, mem, answer, mu, window>>
      <4>1. Lookup(file, req[c].code) \in Registration
        BY <3>2, LookupInType DEF TypeOK
      <4> HIDE DEF Lookup
      <4> QED
        BY <2>9, <3>2, <4>1 DEF Get, TypeOK, CallOK
    <3> QED
      BY <2>9, <3>1, <3>2 DEF Get
  <2>10. ASSUME NEW c \in Callers, StatRoot(c) PROVE (TypeOK /\ CallOK)'
    <3>1. CASE Finish(c, "unavailable")
      BY <2>10, <3>1, FinishType DEF StatRoot, TypeOK, Answers
    <3>2. CASE req' = req /\ Go(c, "check") /\ UNCHANGED window
      BY <2>10, <3>2 DEF StatRoot, Go, TypeOK, CallOK, Answers
    <3> QED
      BY <2>10, <3>1, <3>2 DEF StatRoot
  <2>11. ASSUME NEW c \in Callers, CheckIdentity(c) PROVE (TypeOK /\ CallOK)'
    <3>1. found[c].root \in Dirs
      BY <2>11 DEF CheckIdentity, CallOK, Registration
    <3>2. Identity(found[c]) \in Answers
      BY <3>1 DEF Identity, Answers
    <3> QED
      BY <2>11, <3>2, FinishType DEF CheckIdentity, TypeOK
  <2>12. CASE Edit
    BY <2>12, BoundsAssumption DEF Edit, callVars, TypeOK, CallOK
  <2>13. ASSUME NEW p \in Processes, Crash(p) PROVE (TypeOK /\ CallOK)'
    <3>1. NoRequest \in Request /\ <<>> \in Lists
      BY DEF NoRequest, Request, Lists
    <3> QED
      BY <2>13, <3>1, BoundsAssumption DEF Crash, TypeOK, CallOK, Answers
  <2>14. CASE UNCHANGED vars
    BY <2>14 DEF vars, callVars, TypeOK, CallOK
  <2> QED
    BY <2>1, <2>2, <2>3, <2>4, <2>5, <2>6, <2>7, <2>8, <2>9, <2>10, <2>11, <2>12, <2>13, <2>14, NextCases
<1> QED
  BY <1>1, <1>2, PTL DEF Spec

\* Mutual exclusion: between load and store a call holds the mutex of its process, and a
\* call that has ended, in whatever way, holds none.
MutexDiscipline ==
  /\ \A c \in Callers : pc[c] \in {"load", "store"} => mu[ProcessOf[c]] = c
  /\ \A p \in Processes : mu[p] # Nobody => pc[mu[p]] \in {"load", "store"} /\ ProcessOf[mu[p]] = p

\* Every return and every death gives the mutex of registry.go back.
LEMMA Mutex == Spec => []MutexDiscipline
<1>1. Init => MutexDiscipline
  BY DEF Init, MutexDiscipline
<1>2. TypeOK /\ MutexDiscipline /\ [Next]_vars => MutexDiscipline'
  <2> SUFFICES ASSUME TypeOK, MutexDiscipline, [Next]_vars PROVE MutexDiscipline'
    OBVIOUS
  <2> USE CallersAssumption
  <2>1. ASSUME NEW c \in Callers, BeginAdd(c) PROVE MutexDiscipline'
    BY <2>1 DEF BeginAdd, Finish, Go, TypeOK, MutexDiscipline
  <2>2. ASSUME NEW c \in Callers, BeginRemove(c) PROVE MutexDiscipline'
    BY <2>2 DEF BeginRemove, Finish, Go, TypeOK, MutexDiscipline
  <2>3. ASSUME NEW c \in Callers, BeginResolve(c) PROVE MutexDiscipline'
    BY <2>3 DEF BeginResolve, Finish, Go, TypeOK, MutexDiscipline
  <2>4. ASSUME NEW c \in Callers, Lock(c) PROVE MutexDiscipline'
    BY <2>4 DEF Lock, Finish, Go, TypeOK, MutexDiscipline
  <2>5. ASSUME NEW c \in Callers, Load(c) PROVE MutexDiscipline'
    BY <2>5 DEF Load, Finish, Go, TypeOK, MutexDiscipline
  <2>6. ASSUME NEW c \in Callers, Store(c) PROVE MutexDiscipline'
    BY <2>6 DEF Store, Finish, Go, TypeOK, MutexDiscipline
  <2>7. ASSUME NEW c \in Callers, StoreFails(c) PROVE MutexDiscipline'
    BY <2>7 DEF StoreFails, Finish, Go, TypeOK, MutexDiscipline
  <2>8. ASSUME NEW c \in Callers, StoreTorn(c) PROVE MutexDiscipline'
    BY <2>8 DEF StoreTorn, Finish, Go, TypeOK, MutexDiscipline
  <2>9. ASSUME NEW c \in Callers, Get(c) PROVE MutexDiscipline'
    BY <2>9 DEF Get, Finish, Go, TypeOK, MutexDiscipline
  <2>10. ASSUME NEW c \in Callers, StatRoot(c) PROVE MutexDiscipline'
    BY <2>10 DEF StatRoot, Finish, Go, TypeOK, MutexDiscipline
  <2>11. ASSUME NEW c \in Callers, CheckIdentity(c) PROVE MutexDiscipline'
    BY <2>11 DEF CheckIdentity, Finish, Go, TypeOK, MutexDiscipline
  <2>12. CASE Edit
    BY <2>12 DEF Edit, callVars, MutexDiscipline
  <2>13. ASSUME NEW p \in Processes, Crash(p) PROVE MutexDiscipline'
    BY <2>13 DEF Crash, TypeOK, MutexDiscipline
  <2>14. CASE UNCHANGED vars
    BY <2>14 DEF vars, callVars, MutexDiscipline
  <2> QED
    BY <2>1, <2>2, <2>3, <2>4, <2>5, <2>6, <2>7, <2>8, <2>9, <2>10, <2>11, <2>12, <2>13, <2>14, NextCases
<1> QED
  BY <1>1, <1>2, TypeCorrect, PTL DEF Spec

\* A code never names two projects, whatever adds, replacements and removals of several
\* processes overlap, fail or are cut off.
THEOREM Unambiguous == Spec => []OneEntryPerCode
<1>1. Init => OneEntryPerCode
  BY DEF Init, OneEntryPerCode, NoDuplicates, Missing, Stored
<1>2. TypeOK /\ CallOK /\ OneEntryPerCode /\ [Next]_vars => OneEntryPerCode'
  <2> SUFFICES ASSUME TypeOK, CallOK, OneEntryPerCode, [Next]_vars PROVE OneEntryPerCode'
    OBVIOUS
  <2>1. ASSUME NEW c \in Callers, BeginAdd(c) PROVE OneEntryPerCode'
    BY <2>1 DEF BeginAdd, Finish, Go, TypeOK, OneEntryPerCode, NoDuplicates, Stored, Torn, Renamed
  <2>2. ASSUME NEW c \in Callers, BeginRemove(c) PROVE OneEntryPerCode'
    BY <2>2 DEF BeginRemove, Finish, Go, TypeOK, OneEntryPerCode, NoDuplicates, Stored, Torn, Renamed
  <2>3. ASSUME NEW c \in Callers, BeginResolve(c) PROVE OneEntryPerCode'
    BY <2>3 DEF BeginResolve, Finish, Go, TypeOK, OneEntryPerCode, NoDuplicates, Stored, Torn, Renamed
  <2>4. ASSUME NEW c \in Callers, Lock(c) PROVE OneEntryPerCode'
    BY <2>4 DEF Lock, Finish, Go, TypeOK, OneEntryPerCode, NoDuplicates, Stored, Torn, Renamed
  <2>5. ASSUME NEW c \in Callers, Load(c) PROVE OneEntryPerCode'
    <3>1. CASE Finish(c, "none")
      BY <2>5, <3>1 DEF Load, Finish, NoDuplicates, OneEntryPerCode, TypeOK
    <3>2. ASSUME NEW list \in Changed(req[c], file.list), mem' = [mem EXCEPT ![c] = list]
          PROVE  OneEntryPerCode'
      <4>1. NoDuplicates(list)
        BY <2>5, ChangedUnique DEF Load, TypeOK, Files, CallOK, OneEntryPerCode
      <4> HIDE DEF NoDuplicates
      <4> QED
        BY <2>5, <3>2, <4>1 DEF Load, OneEntryPerCode, TypeOK
    <3> QED
      BY <2>5, <3>1, <3>2 DEF Load
  <2>6. ASSUME NEW c \in Callers, Store(c) PROVE OneEntryPerCode'
    BY <2>6 DEF Store, Finish, Go, TypeOK, OneEntryPerCode, NoDuplicates, Stored, Torn, Renamed
  <2>7. ASSUME NEW c \in Callers, StoreFails(c) PROVE OneEntryPerCode'
    BY <2>7 DEF StoreFails, Finish, Go, TypeOK, OneEntryPerCode, NoDuplicates, Stored, Torn, Renamed
  <2>8. ASSUME NEW c \in Callers, StoreTorn(c) PROVE OneEntryPerCode'
    BY <2>8 DEF StoreTorn, Finish, Go, TypeOK, OneEntryPerCode, NoDuplicates, Stored, Torn, Renamed
  <2>9. ASSUME NEW c \in Callers, Get(c) PROVE OneEntryPerCode'
    BY <2>9 DEF Get, Finish, Go, TypeOK, OneEntryPerCode, NoDuplicates, Stored, Torn, Renamed
  <2>10. ASSUME NEW c \in Callers, StatRoot(c) PROVE OneEntryPerCode'
    BY <2>10 DEF StatRoot, Finish, Go, TypeOK, OneEntryPerCode, NoDuplicates, Stored, Torn, Renamed
  <2>11. ASSUME NEW c \in Callers, CheckIdentity(c) PROVE OneEntryPerCode'
    BY <2>11 DEF CheckIdentity, Finish, Go, TypeOK, OneEntryPerCode, NoDuplicates, Stored, Torn, Renamed
  <2>12. CASE Edit
    BY <2>12 DEF Edit, callVars, OneEntryPerCode
  <2>13. ASSUME NEW p \in Processes, Crash(p) PROVE OneEntryPerCode'
    BY <2>13 DEF Crash, TypeOK, OneEntryPerCode, NoDuplicates
  <2>14. CASE UNCHANGED vars
    BY <2>14 DEF vars, callVars, OneEntryPerCode
  <2> QED
    BY <2>1, <2>2, <2>3, <2>4, <2>5, <2>6, <2>7, <2>8, <2>9, <2>10, <2>11, <2>12, <2>13, <2>14, NextCases
<1> QED
  BY <1>1, <1>2, TypeCorrect, PTL DEF Spec

\* A list about to be stored is what its request makes of the file as it is now, unless
\* another process has replaced the file since; within a process the mutex prevents it.
Fresh ==
  \A c \in Callers :
    pc[c] = "store" /\ c \notin stale =>
      file.state # "torn" /\ mem[c] \in Changed(req[c], file.list)

\* What is stored is never an older list of the same process.
THEOREM Freshness == Spec => []Fresh
<1>1. Init => Fresh
  BY DEF Init, Fresh
<1>2. TypeOK /\ MutexDiscipline /\ Fresh /\ [Next]_vars => Fresh'
  <2> SUFFICES ASSUME TypeOK, MutexDiscipline, Fresh, [Next]_vars PROVE Fresh'
    OBVIOUS
  <2>1. ASSUME NEW c \in Callers, BeginAdd(c) PROVE Fresh'
    BY <2>1 DEF BeginAdd, Finish, Go, TypeOK, Fresh, historyVars, boundVars
  <2>2. ASSUME NEW c \in Callers, BeginRemove(c) PROVE Fresh'
    BY <2>2 DEF BeginRemove, Finish, Go, TypeOK, Fresh, historyVars, boundVars
  <2>3. ASSUME NEW c \in Callers, BeginResolve(c) PROVE Fresh'
    BY <2>3 DEF BeginResolve, Finish, Go, TypeOK, Fresh, historyVars, boundVars
  <2>4. ASSUME NEW c \in Callers, Lock(c) PROVE Fresh'
    BY <2>4 DEF Lock, Finish, Go, TypeOK, Fresh, historyVars, boundVars
  <2>5. ASSUME NEW c \in Callers, Load(c) PROVE Fresh'
    <3> HIDE DEF Changed
    <3> QED
      BY <2>5 DEF Load, Finish, TypeOK, Fresh
  <2>6. ASSUME NEW c \in Callers, Store(c) PROVE Fresh'
    <3> SUFFICES ASSUME NEW d \in Callers, pc'[d] = "store", d \notin stale'
                 PROVE  FALSE
      BY DEF Fresh
    <3>1. pc[d] = "store" /\ d # c
      BY <2>6 DEF Store, Finish, TypeOK
    <3>2. ProcessOf[d] = ProcessOf[c]
      BY <2>6, <3>1 DEF Store, Renamed
    <3> QED
      BY <2>6, <3>1, <3>2 DEF Store, MutexDiscipline
  <2>7. ASSUME NEW c \in Callers, StoreFails(c) PROVE Fresh'
    BY <2>7 DEF StoreFails, Finish, Go, TypeOK, Fresh, historyVars, boundVars
  <2>8. ASSUME NEW c \in Callers, StoreTorn(c) PROVE Fresh'
    <3> SUFFICES ASSUME NEW d \in Callers, pc'[d] = "store", d \notin stale'
                 PROVE  FALSE
      BY DEF Fresh
    <3>1. pc[d] = "store" /\ d # c
      BY <2>8 DEF StoreTorn, Finish, TypeOK
    <3>2. ProcessOf[d] = ProcessOf[c]
      BY <2>8, <3>1 DEF StoreTorn, Renamed
    <3> QED
      BY <2>8, <3>1, <3>2 DEF StoreTorn, MutexDiscipline
  <2>9. ASSUME NEW c \in Callers, Get(c) PROVE Fresh'
    BY <2>9 DEF Get, Finish, Go, TypeOK, Fresh, historyVars, boundVars
  <2>10. ASSUME NEW c \in Callers, StatRoot(c) PROVE Fresh'
    BY <2>10 DEF StatRoot, Finish, Go, TypeOK, Fresh, historyVars, boundVars
  <2>11. ASSUME NEW c \in Callers, CheckIdentity(c) PROVE Fresh'
    BY <2>11 DEF CheckIdentity, Finish, Go, TypeOK, Fresh, historyVars, boundVars
  <2>12. CASE Edit
    BY <2>12 DEF Edit, callVars, historyVars, Fresh
  <2>13. ASSUME NEW p \in Processes, Crash(p) PROVE Fresh'
    BY <2>13 DEF Crash, TypeOK, Fresh
  <2>14. CASE UNCHANGED vars
    BY <2>14 DEF vars, callVars, historyVars, Fresh
  <2> QED
    BY <2>1, <2>2, <2>3, <2>4, <2>5, <2>6, <2>7, <2>8, <2>9, <2>10, <2>11, <2>12, <2>13, <2>14, NextCases
<1> QED
  BY <1>1, <1>2, TypeCorrect, Mutex, PTL DEF Spec

\* The window of a resolution holds what the code stands for now, and what was found.
Windowed ==
  \A c \in Callers :
    /\ pc[c] \in {"get", "stat", "check"} => Lookup(file, req[c].code) \in window[c]
    /\ pc[c] \in {"stat", "check"} => found[c] \in window[c] /\ found[c].code = req[c].code

\* What a resolution has found was registered for its code at some time since it began.
THEOREM Currency == Spec => []ResolveIsCurrent
<1>1. Init => Windowed
  BY DEF Init, Windowed
<1>2. TypeOK /\ CallOK /\ Windowed /\ [Next]_vars => Windowed'
  <2> SUFFICES ASSUME TypeOK, CallOK, Windowed, [Next]_vars PROVE Windowed'
    OBVIOUS
  <2> HIDE DEF Lookup
  <2>1. ASSUME NEW c \in Callers, BeginAdd(c) PROVE Windowed'
    BY <2>1 DEF BeginAdd, Finish, Go, TypeOK, Windowed, historyVars, boundVars
  <2>2. ASSUME NEW c \in Callers, BeginRemove(c) PROVE Windowed'
    BY <2>2 DEF BeginRemove, Finish, Go, TypeOK, Windowed, historyVars, boundVars
  <2>3. ASSUME NEW c \in Callers, BeginResolve(c) PROVE Windowed'
    <3>1. pc[c] = "idle" /\ UNCHANGED file
      BY <2>3 DEF BeginResolve
    <3>2. ASSUME Finish(c, "unknown"), UNCHANGED window PROVE Windowed'
      BY <3>1, <3>2 DEF Finish, TypeOK, Windowed
    <3>3. ASSUME NEW s \in Spellings, Go(c, "get"),
                 req' = [req EXCEPT ![c] = [NoRequest EXCEPT !.op = "resolve", !.code = Canon[s]]],
                 window' = [window EXCEPT ![c] = {Lookup(file, Canon[s])}]
          PROVE  Windowed'
      <4>1. req'[c].code = Canon[s] /\ \A d \in Callers \ {c} : req'[d] = req[d]
        BY <3>3 DEF NoRequest, TypeOK
      <4> QED
        BY <3>1, <3>3, <4>1 DEF Go, TypeOK, Windowed
    <3> QED
      BY <2>3, <3>2, <3>3 DEF BeginResolve
  <2>4. ASSUME NEW c \in Callers, Lock(c) PROVE Windowed'
    BY <2>4 DEF Lock, Finish, Go, TypeOK, Windowed, historyVars, boundVars
  <2>5. ASSUME NEW c \in Callers, Load(c) PROVE Windowed'
    BY <2>5 DEF Load, Finish, Go, TypeOK, Windowed, historyVars, boundVars
  <2>6. ASSUME NEW c \in Callers, Store(c) PROVE Windowed'
    BY <2>6 DEF Store, Renamed, Finish, TypeOK, CallOK, Windowed
  <2>7. ASSUME NEW c \in Callers, StoreFails(c) PROVE Windowed'
    BY <2>7 DEF StoreFails, Finish, Go, TypeOK, Windowed, historyVars, boundVars
  <2>8. ASSUME NEW c \in Callers, StoreTorn(c) PROVE Windowed'
    BY <2>8 DEF StoreTorn, Renamed, Finish, TypeOK, CallOK, Windowed
  <2>9. ASSUME NEW c \in Callers, Get(c) PROVE Windowed'
    <3> DEFINE reg == Lookup(file, req[c].code)
    <3>1. reg = NoReg \/ reg.code = req[c].code
      BY LookupType DEF TypeOK, Files
    <3> QED
      BY <2>9, <3>1 DEF Get, Finish, TypeOK, Windowed, boundVars
  <2>10. ASSUME NEW c \in Callers, StatRoot(c) PROVE Windowed'
    BY <2>10 DEF StatRoot, Finish, Go, TypeOK, Windowed, historyVars, boundVars
  <2>11. ASSUME NEW c \in Callers, CheckIdentity(c) PROVE Windowed'
    BY <2>11 DEF CheckIdentity, Finish, Go, TypeOK, Windowed, historyVars, boundVars
  <2>12. CASE Edit
    BY <2>12 DEF Edit, callVars, historyVars, Windowed
  <2>13. ASSUME NEW p \in Processes, Crash(p) PROVE Windowed'
    BY <2>13 DEF Crash, TypeOK, Windowed
  <2>14. CASE UNCHANGED vars
    BY <2>14 DEF vars, callVars, historyVars, Windowed
  <2> QED
    BY <2>1, <2>2, <2>3, <2>4, <2>5, <2>6, <2>7, <2>8, <2>9, <2>10, <2>11, <2>12, <2>13, <2>14, NextCases
<1>3. Windowed => ResolveIsCurrent
  BY DEF Windowed, ResolveIsCurrent
<1> QED
  BY <1>1, <1>2, <1>3, TypeCorrect, PTL DEF Spec

\* Only a store renames: a refusal, a failure, an edit and a crash leave the file alone.
LEMMA RenameCases ==
  ASSUME TypeOK, [Next]_vars, NEW c \in Callers, Renames(c)
  PROVE  Store(c) \/ StoreTorn(c)
<1>1. ASSUME NEW d \in Callers, Store(d) \/ StoreTorn(d) PROVE c = d
  BY <1>1 DEF Store, StoreTorn, Finish, Renames, TypeOK
<1>2. ASSUME NEW d \in Callers, file' # file,
             \/ BeginAdd(d) \/ BeginRemove(d) \/ BeginResolve(d)
             \/ Lock(d) \/ Load(d) \/ Store(d) \/ StoreFails(d) \/ StoreTorn(d)
             \/ Get(d) \/ StatRoot(d) \/ CheckIdentity(d)
      PROVE  Store(d) \/ StoreTorn(d)
  BY <1>2 DEF BeginAdd, BeginRemove, BeginResolve, Lock, Load, StoreFails, Get, StatRoot, CheckIdentity
<1>3. file' # file
  BY DEF Renames
<1>4. ~ Edit /\ ~ UNCHANGED vars /\ ~ \E p \in Processes : Crash(p)
  BY <1>3 DEF Edit, vars, Crash
<1> QED
  BY <1>1, <1>2, <1>3, <1>4, NextCases

\* A step that changes the file is the rename of some caller.
LEMMA ChangeIsRename ==
  ASSUME TypeOK, [Next]_vars, file' # file
  PROVE  \E c \in Callers : Renames(c)
<1>1. ASSUME NEW d \in Callers,
             \/ BeginAdd(d) \/ BeginRemove(d) \/ BeginResolve(d)
             \/ Lock(d) \/ Load(d) \/ Store(d) \/ StoreFails(d) \/ StoreTorn(d)
             \/ Get(d) \/ StatRoot(d) \/ CheckIdentity(d)
      PROVE  Store(d) \/ StoreTorn(d)
  BY <1>1 DEF BeginAdd, BeginRemove, BeginResolve, Lock, Load, StoreFails, Get, StatRoot, CheckIdentity
<1>2. ASSUME NEW d \in Callers, Store(d) \/ StoreTorn(d) PROVE Renames(d)
  BY <1>2 DEF Store, StoreTorn, Finish, Renames, TypeOK
<1>3. ~ Edit /\ ~ UNCHANGED vars /\ ~ \E p \in Processes : Crash(p)
  BY DEF Edit, vars, Crash
<1> QED
  BY <1>1, <1>2, <1>3, NextCases

\* Entries change only as a request asks for its own code, unless another process has
\* replaced the file since the list was loaded.
THEOREM OnlyAsked == Spec => ChangedOnlyAsAsked
<1>1. ASSUME TypeOK, CallOK, OneEntryPerCode, Fresh, [Next]_vars,
             NEW c \in Callers, Renames(c), c \notin stale, file'.state # "torn",
             NEW code \in Codes
      PROVE  OnlyAsAsked(c, code, Lookup(file, code), Lookup(file', code))
  <2>1. Store(c)
    BY <1>1, RenameCases DEF StoreTorn, Torn
  <2>2. file'.list = mem[c]
    BY <2>1 DEF Store, Stored
  <2>3. mem[c] \in Changed(req[c], file.list)
    BY <1>1, <2>1 DEF Fresh, Store
  <2>4. Changes(req[c])
    BY <1>1, <2>1 DEF CallOK, Store
  <2>5. file.list \in Lists /\ NoDuplicates(file.list)
    BY <1>1 DEF TypeOK, Files, OneEntryPerCode
  <2> HIDE DEF Changed, Lookup, OnlyAsAsked
  <2> QED
    BY <2>2, <2>3, <2>4, <2>5, ChangedAsAsked
<1>2. TypeOK /\ CallOK /\ OneEntryPerCode /\ Fresh /\ [Next]_vars =>
        [\A c \in Callers : Renames(c) /\ c \notin stale /\ file'.state # "torn" =>
           \A code \in Codes : OnlyAsAsked(c, code, Lookup(file, code), Lookup(file', code))]_vars
  BY <1>1
<1> QED
  BY <1>2, TypeCorrect, Unambiguous, Freshness, PTL DEF Spec, ChangedOnlyAsAsked

\* A registry that cannot be read is never replaced by one made from nothing.
THEOREM DamageIsKept == Spec => CorruptionIsKept
<1>1. TypeOK /\ Fresh /\ [Next]_vars =>
        [file.state = "torn" /\ file' # file => \E c \in stale : Renames(c)]_vars
  <2> SUFFICES ASSUME TypeOK, Fresh, [Next]_vars, file.state = "torn", file' # file
               PROVE  \E c \in stale : Renames(c)
    OBVIOUS
  <2>1. PICK c \in Callers : Renames(c)
    BY ChangeIsRename
  <2>2. c \in stale
    BY <2>1 DEF Fresh, Renames
  <2> QED
    BY <2>1, <2>2
<1> QED
  BY <1>1, TypeCorrect, Freshness, PTL DEF Spec, CorruptionIsKept
================================================================================
