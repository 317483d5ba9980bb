------------------------- MODULE OAuthTokensProofs -------------------------
(***************************************************************************)
(* Theorems about OAuthTokens, for any number of accounts, requests, logins*)
(* and deletions, any lifetimes, and any number of faults.                 *)
(***************************************************************************)
EXTENDS OAuthTokens, TLAPS

(***************************************************************************)
(* The inductive invariant.  A grant belongs to one login and so to one    *)
(* account; nobody has it before that login is through.  No token is ahead *)
(* of the one its endpoint accepts.  A rotating endpoint serialises: while *)
(* a process is about to store a token of a grant, nobody else has one     *)
(* that is accepted.  A request that nobody met still works on what its    *)
(* account stores.                                                         *)
(***************************************************************************)
Unseen == \A f \in Flows : stage[f] \in {"idle", "asked"} =>
  /\ \A a \in Accounts : stored[a] # NoCred => stored[a].grant # f
  /\ \A p \in Processes : held[p] # NoCred => held[p].grant # f

Behind ==
  /\ \A a \in Accounts : stored[a] # NoCred => stored[a].refresh <= current[stored[a].grant]
  /\ \A p \in Processes : stage[p] \in {"refresh", "write"} =>
       held[p].refresh <= current[held[p].grant]

Roles == \A p \in Processes :
  /\ stage[p] = "refresh" => p \in Requests
  /\ stage[p] = "write" => p \in Requests \union Flows
  /\ stage[p] = "asked" => p \in Flows

Sole(p) ==
  /\ Accepted(held[p])
  /\ Provider(p) \in Rotating =>
       /\ \A q \in Processes \ {p} :
            stage[q] \in {"refresh", "write"} /\ held[q].grant = held[p].grant =>
              stage[q] = "refresh" /\ ~Accepted(held[q])
       /\ \A a \in Accounts :
            stored[a] # NoCred /\ stored[a].grant = held[p].grant => ~Accepted(stored[a])

Serial == faults = 0 => \A p \in Processes : stage[p] = "write" => Sole(p)

Unmet == faults = 0 => \A r \in Requests : stage[r] = "refresh" /\ ~raced[r] =>
  /\ held[r] = stored[target[r]] /\ Accepted(held[r])
  /\ \A p \in Processes \ {r} : ~Working(p, target[r])

IInv == /\ TypeOK /\ Roles /\ Unseen /\ Behind
        /\ Serial /\ RefreshTokenKept /\ Unmet

---------------------------------------------------------------------------

\* The account of a process is one.
LEMMA AccountType ==
  ASSUME TypeOK, NEW p \in Processes
  PROVE  Account(p) \in Accounts /\ Provider(p) \in Providers
  <1>1. CASE p \in Requests
    BY <1>1 DEF TypeOK, Account, Accounts, Provider
  <1>2. CASE p \notin Requests
    <2>1. For[p] \in Providers /\ Default \in Labels
      BY <1>2, OAuthAssumption DEF Processes
    <2>. QED
      BY <1>2, <2>1 DEF Account, Accounts, Provider
  <1>. QED
    BY <1>1, <1>2

\* A step of one process leaves the others where they are.
LEMMA GotoStep ==
  ASSUME TypeOK, NEW p \in Processes, NEW s \in Stages, NEW c \in Creds \union {NoCred},
         Goto(p, s, c)
  PROVE  /\ stage' \in [Processes -> Stages] /\ held' \in [Processes -> Creds \union {NoCred}]
         /\ listed' \in [Processes -> SUBSET Providers]
         /\ stage'[p] = s /\ held'[p] = c
         /\ \A q \in Processes : q # p => stage'[q] = stage[q] /\ held'[q] = held[q]
  BY DEF TypeOK, Goto

\* What an answer may be.
Outcomes == {"", "token", "not_found", "borrowed", "no_refresh", "failed"}

\* The end of a process leaves the others where they are.
LEMMA FinishStep ==
  ASSUME TypeOK, NEW p \in Processes, NEW o \in Outcomes, NEW c \in Creds \union {NoCred},
         Finish(p, o, c)
  PROVE  /\ stage' \in [Processes -> Stages] /\ held' \in [Processes -> Creds \union {NoCred}]
         /\ listed' \in [Processes -> SUBSET Providers]
         /\ answer' \in [outcome : Outcomes, cred : Creds \union {NoCred}]
         /\ stage'[p] = "done" /\ held'[p] = NoCred
         /\ \A q \in Processes : q # p => stage'[q] = stage[q] /\ held'[q] = held[q]
  <1>1. Goto(p, "done", NoCred) /\ "done" \in Stages
    BY DEF Finish, Stages
  <1>2. answer' \in [outcome : Outcomes, cred : Creds \union {NoCred}]
    BY DEF Finish, TypeOK, Outcomes
  <1>. QED
    BY <1>1, <1>2, GotoStep

\* What a refresh brings: a token of the same grant, the one that is accepted
\* next if the endpoint rotates them and the same one if it does not.
LEMMA RefreshedToken ==
  ASSUME TypeOK, NEW c \in Creds, NEW p \in Providers
  PROVE  /\ Refreshed(c, p) \in Creds
         /\ Refreshed(c, p).grant = c.grant
         /\ Refreshed(c, p).refresh = (IF p \in Rotating THEN c.refresh + 1 ELSE c.refresh)
  <1>1. c.refresh \in Nat /\ c.grant \in Grants
    BY DEF Creds
  <1>2. NextRefresh(c, p) = (IF p \in Rotating THEN c.refresh + 1 ELSE c.refresh)
    BY <1>1, OAuthAssumption, EndpointAssumption DEF NextRefresh, Replacement
  <1>3. now + Life \in Nat
    <2>1. now \in 0 .. MaxTime
      BY DEF TypeOK
    <2>2. MaxTime \in Nat /\ Life \in Nat
      BY OAuthAssumption
    <2>. QED
      BY <2>1, <2>2
  <1>. QED
    BY <1>1, <1>2, <1>3 DEF Refreshed, Creds

\* A grant is that of the processes and the entry of its own account only.
LEMMA SameAccount ==
  ASSUME TypeOK
  PROVE  /\ \A p, q \in Processes :
              held[p] # NoCred /\ held[q] # NoCred /\ held[p].grant = held[q].grant =>
                Account(p) = Account(q) /\ Provider(p) = Provider(q)
         /\ \A p \in Processes, a \in Accounts :
              held[p] # NoCred /\ stored[a] # NoCred /\ held[p].grant = stored[a].grant =>
                Account(p) = a
  BY DEF TypeOK, Provider

\* What a type holds of one process.
Working1(p) ==
  /\ stage[p] \in {"refresh", "write"} => held[p] # NoCred
  /\ held[p] # NoCred => Home(held[p].grant) = Account(p)
  /\ stage[p] \in {"idle", "asked", "done"} => held[p] = NoCred

\* What a type holds of everything but the processes.
Around ==
  /\ now \in 0 .. MaxTime /\ backend \in Backends /\ target \in [Requests -> Accounts]
  /\ stored \in [Accounts -> Creds \union {NoCred}]
  /\ \A a \in Accounts : stored[a] # NoCred => Home(stored[a].grant) = a
  /\ index \subseteq Providers /\ current \in [Grants -> Nat]
  /\ answer \in [outcome : Outcomes, cred : Creds \union {NoCred}]
  /\ faults \in 0 .. MaxFaults

\* The history has its type whatever happens.
LEMMA ObserveType ==
  ASSUME TypeOK, Observe
  PROVE  raced' \in [Requests -> BOOLEAN] /\ spoiled' \in BOOLEAN
  <1>1. raced' \in [Requests -> BOOLEAN]
    BY DEF Observe
  <1>2. spoiled' \in BOOLEAN
    BY DEF Observe, TypeOK
  <1>. QED
    BY <1>1, <1>2

\* A step of one process keeps the types if that process keeps its own.
LEMMA OneProcess ==
  ASSUME TypeOK, Observe, NEW p \in Processes, Around', target' = target, Working1(p)',
         stage' \in [Processes -> Stages], held' \in [Processes -> Creds \union {NoCred}],
         listed' \in [Processes -> SUBSET Providers],
         \A q \in Processes : q # p => stage'[q] = stage[q] /\ held'[q] = held[q]
  PROVE  TypeOK'
  <1>1. \A q \in Processes : Account(q)' = Account(q)
    BY DEF Account
  <1>2. \A q \in Processes : q # p => Working1(q)'
    BY <1>1 DEF Working1, TypeOK
  <1>3. \A q \in Processes : Working1(q)'
    BY <1>2
  <1>4. raced' \in [Requests -> BOOLEAN] /\ spoiled' \in BOOLEAN
    BY ObserveType
  <1>. QED
    BY <1>3, <1>4 DEF TypeOK, Around, Working1, Outcomes

\* The end of a process keeps the types.
LEMMA FinishType ==
  ASSUME TypeOK, Observe, NEW p \in Processes, NEW o \in Outcomes, NEW c \in Creds \union {NoCred},
         Finish(p, o, c), target' = target,
         now' \in 0 .. MaxTime, backend' \in Backends,
         stored' \in [Accounts -> Creds \union {NoCred}],
         \A a \in Accounts : stored'[a] # NoCred => Home(stored'[a].grant) = a,
         index' \subseteq Providers, current' \in [Grants -> Nat], faults' \in 0 .. MaxFaults
  PROVE  TypeOK'
  <1>1. Around'
    BY FinishStep DEF Around, TypeOK
  <1>2. Working1(p)'
    BY FinishStep DEF Working1
  <1>. QED
    BY <1>1, <1>2, FinishStep, OneProcess

\* A fault is counted.
LEMMA FaultType == ASSUME TypeOK, Fault PROVE faults' \in 0 .. MaxFaults /\ faults' # 0
  <1>1. MaxFaults \in Nat
    BY OAuthAssumption
  <1>2. faults \in 0 .. MaxFaults
    BY DEF TypeOK
  <1>3. faults < MaxFaults /\ faults' = faults + 1
    BY DEF Fault
  <1>. QED
    BY <1>1, <1>2, <1>3

\* Every step of a request up to its answer keeps the types.
LEMMA RequestType ==
  ASSUME TypeOK, Roles, Observe, NEW r \in Requests, Resolve(r) \/ Exchange(r) \/ AnswerLost(r)
  PROVE  TypeOK'
  <1>. USE DEF Outcomes
  <1>1. /\ r \in Processes /\ Account(r) = target[r] /\ target[r] \in Accounts
        /\ Provider(r) \in Providers
    BY AccountType DEF Processes, Account
  <1>2. CASE Resolve(r)
    <2>1. /\ UNCHANGED <<now, backend, target, stored, index, current, faults>>
          /\ stored[target[r]] \in Creds \union {NoCred} /\ NoCred \notin Creds
      BY <1>1, <1>2, OAuthAssumption DEF Resolve, TypeOK
    <2>2. CASE \E o \in Outcomes, c \in Creds \union {NoCred} : Finish(r, o, c)
      <3>1. PICK o \in Outcomes, c \in Creds \union {NoCred} : Finish(r, o, c)
        BY <2>2
      <3>2. /\ target' = target /\ now' \in 0 .. MaxTime /\ backend' \in Backends
            /\ stored' \in [Accounts -> Creds \union {NoCred}]
            /\ \A a \in Accounts : stored'[a] # NoCred => Home(stored'[a].grant) = a
            /\ index' \subseteq Providers /\ current' \in [Grants -> Nat]
            /\ faults' \in 0 .. MaxFaults
        BY <2>1 DEF TypeOK
      <3>. HIDE DEF Outcomes
      <3>. QED
        BY <1>1, <3>1, <3>2, FinishType
    <2>3. CASE /\ Load(r) # NoCred /\ Goto(r, "refresh", Load(r)) /\ UNCHANGED answer
      <3>1. Load(r) \in Creds /\ "refresh" \in Stages /\ Home(Load(r).grant) = Account(r)
        BY <1>1, <2>1, <2>3 DEF Load, Stages, TypeOK
      <3>2. /\ stage'[r] = "refresh" /\ held'[r] = Load(r)
            /\ stage' \in [Processes -> Stages] /\ held' \in [Processes -> Creds \union {NoCred}]
            /\ listed' \in [Processes -> SUBSET Providers]
            /\ \A q \in Processes : q # r => stage'[q] = stage[q] /\ held'[q] = held[q]
        BY <1>1, <2>3, <3>1, GotoStep
      <3>3. Around'
        BY <2>1, <2>3 DEF Around, TypeOK
      <3>4. Account(r)' = Account(r)
        BY <2>1 DEF Account
      <3>5. Working1(r)'
        BY <2>3, <3>1, <3>2, <3>4 DEF Working1
      <3>. QED
        BY <1>1, <2>1, <3>2, <3>3, <3>5, OneProcess
    <2>. QED
      BY <1>2, <2>1, <2>2, <2>3 DEF Resolve, Load
  <1>3. CASE Exchange(r)
    <2>. DEFINE c == held[r]
    <2>1. /\ UNCHANGED <<now, backend, target, stored, index, faults>> /\ stage[r] = "refresh"
          /\ c \in Creds /\ c.refresh \in Nat /\ c.grant \in Grants
          /\ Home(c.grant) = Account(r)
      BY <1>1, <1>3 DEF Exchange, TypeOK, Creds
    <2>2. CASE ~Accepted(c)
      <3>1. Finish(r, "failed", NoCred) /\ UNCHANGED current
        BY <1>3, <2>2 DEF Exchange
      <3>. QED
        BY <1>1, <2>1, <3>1, FinishType DEF TypeOK
    <2>3. CASE Accepted(c)
      <3>1. /\ Rotate(c, Provider(r)) /\ Goto(r, "write", Refreshed(c, Provider(r)))
            /\ UNCHANGED answer
        BY <1>3, <2>3 DEF Exchange
      <3>2. current' \in [Grants -> Nat]
        <4>. HIDE DEF c
        <4>1. c.refresh + 1 \in Nat
          BY <2>1
        <4>2. current \in [Grants -> Nat]
          BY DEF TypeOK
        <4>. QED
          BY <2>1, <3>1, <4>1, <4>2 DEF Rotate
      <3>3. "write" \in Stages /\ Refreshed(c, Provider(r)) \in Creds
            /\ Refreshed(c, Provider(r)).grant = c.grant
        BY <1>1, <2>1, RefreshedToken DEF Stages
      <3>4. /\ stage'[r] = "write" /\ held'[r] = Refreshed(c, Provider(r))
            /\ stage' \in [Processes -> Stages] /\ held' \in [Processes -> Creds \union {NoCred}]
            /\ listed' \in [Processes -> SUBSET Providers]
            /\ \A q \in Processes : q # r => stage'[q] = stage[q] /\ held'[q] = held[q]
        BY <1>1, <3>1, <3>3, GotoStep
      <3>5. Around'
        BY <2>1, <3>1, <3>2 DEF Around, TypeOK
      <3>6. Account(r)' = Account(r)
        BY <2>1 DEF Account
      <3>7. Working1(r)'
        BY <2>1, <3>3, <3>4, <3>6, OAuthAssumption DEF Working1
      <3>. QED
        BY <1>1, <2>1, <3>4, <3>5, <3>7, OneProcess
    <2>. QED
      BY <2>2, <2>3
  <1>4. CASE AnswerLost(r)
    <2>1. /\ UNCHANGED <<now, backend, target, stored, index>> /\ Fault
          /\ Finish(r, "failed", NoCred) /\ Rotate(held[r], Provider(r)) /\ stage[r] = "refresh"
      BY <1>4 DEF AnswerLost
    <2>2. held[r] \in Creds /\ faults' \in 0 .. MaxFaults
      BY <1>1, <2>1, FaultType DEF TypeOK
    <2>3. current' \in [Grants -> Nat]
      <3>1. held[r].refresh \in Nat /\ held[r].grant \in Grants
        BY <2>2 DEF Creds
      <3>2. current \in [Grants -> Nat]
        BY DEF TypeOK
      <3>. QED
        BY <2>1, <3>1, <3>2 DEF Rotate
    <2>4. /\ now' \in 0 .. MaxTime /\ backend' \in Backends
          /\ stored' \in [Accounts -> Creds \union {NoCred}]
          /\ \A a \in Accounts : stored'[a] # NoCred => Home(stored'[a].grant) = a
          /\ index' \subseteq Providers
      BY <2>1 DEF TypeOK
    <2>. QED
      BY <1>1, <2>1, <2>2, <2>3, <2>4, FinishType
  <1>. QED
    BY <1>2, <1>3, <1>4

\* Every step of a login keeps the types.
LEMMA LoginType ==
  ASSUME TypeOK, Observe, NEW f \in Flows, Login(f) \/ Callback(f)
  PROVE  TypeOK'
  <1>1. /\ f \in Processes /\ Account(f) = <<For[f], Default>>
        /\ f \in Grants /\ Home(f) = <<For[f], Default>>
    BY OAuthAssumption DEF Processes, Account, Grants, Home
  <1>2. UNCHANGED <<now, backend, target, stored, index, faults, answer>>
    BY DEF Login, Callback
  <1>3. Account(f)' = Account(f)
    BY <1>2 DEF Account
  <1>4. CASE Login(f)
    <2>1. Goto(f, "asked", NoCred) /\ UNCHANGED current /\ "asked" \in Stages
      BY <1>4 DEF Login, Stages
    <2>2. Around'
      BY <1>2, <2>1 DEF TypeOK, Around, Outcomes
    <2>3. Working1(f)'
      BY <1>1, <2>1, GotoStep DEF Working1
    <2>. QED
      BY <1>1, <1>2, <2>1, <2>2, <2>3, GotoStep, OneProcess
  <1>5. CASE Callback(f)
    <2>1. PICK n \in {0, 1}, e \in {now + Life, now + Never} :
            /\ Goto(f, "write", [grant |-> f, refresh |-> n, expires |-> e, owned |-> TRUE])
            /\ current' = [current EXCEPT ![f] = n]
      BY <1>5 DEF Callback
    <2>2. e \in Nat
      <3>1. now \in 0 .. MaxTime
        BY DEF TypeOK
      <3>2. Life \in Nat /\ Never \in Nat
        BY OAuthAssumption
      <3>. QED
        BY <3>1, <3>2
    <2>3. /\ "write" \in Stages
          /\ [grant |-> f, refresh |-> n, expires |-> e, owned |-> TRUE] \in Creds
      BY <1>1, <2>2 DEF Stages, Creds
    <2>4. current' \in [Grants -> Nat]
      <3>1. current \in [Grants -> Nat]
        BY DEF TypeOK
      <3>2. n \in Nat
        OBVIOUS
      <3>. QED
        BY <2>1, <3>1, <3>2
    <2>5. Around'
      BY <1>2, <2>4 DEF TypeOK, Around, Outcomes
    <2>6. /\ stage'[f] = "write"
          /\ held'[f] = [grant |-> f, refresh |-> n, expires |-> e, owned |-> TRUE]
          /\ stage' \in [Processes -> Stages] /\ held' \in [Processes -> Creds \union {NoCred}]
          /\ listed' \in [Processes -> SUBSET Providers]
          /\ \A q \in Processes : q # f => stage'[q] = stage[q] /\ held'[q] = held[q]
      BY <1>1, <2>1, <2>3, GotoStep
    <2>7. Working1(f)'
      <3>1. held'[f].grant = f /\ stage'[f] = "write"
        BY <2>6
      <3>2. held'[f] # NoCred
        BY <2>3, <2>6, OAuthAssumption
      <3>3. Home(held'[f].grant) = Account(f)'
        BY <1>1, <1>3, <3>1
      <3>. QED
        BY <3>1, <3>2, <3>3 DEF Working1
    <2>. QED
      BY <1>1, <1>2, <2>5, <2>6, <2>7, OneProcess
  <1>. QED
    BY <1>4, <1>5

\* Every step of the store keeps the types.
LEMMA StoreType ==
  ASSUME TypeOK, Observe, NEW p \in Processes,
         \/ Upsert(p) \/ ReadIndex(p) \/ WriteIndex(p)
         \/ MisreadIndex(p) \/ StoreFails(p)
  PROVE  TypeOK'
  <1>. USE DEF Outcomes
  <1>1. /\ Account(p) \in Accounts /\ Provider(p) \in Providers
        /\ held[p] \in Creds \union {NoCred}
    BY AccountType DEF TypeOK
  <1>2. UNCHANGED <<now, backend, target, current>>
    BY DEF Upsert, ReadIndex, ReadList, MisreadIndex, WriteIndex, StoreFails
  <1>3. CASE Upsert(p)
    <2>1. /\ stored' = [stored EXCEPT ![Account(p)] = held[p]] /\ stage[p] = "write"
          /\ UNCHANGED <<index, faults>>
      BY <1>3 DEF Upsert, Target
    <2>2. /\ stored' \in [Accounts -> Creds \union {NoCred}]
          /\ \A a \in Accounts : stored'[a] # NoCred => Home(stored'[a].grant) = a
      BY <1>1, <2>1 DEF TypeOK
    <2>3. CASE Finish(p, "token", held[p])
      BY <1>1, <1>2, <2>1, <2>2, <2>3, FinishType DEF TypeOK
    <2>4. CASE Goto(p, "index", held[p]) /\ UNCHANGED answer
      <3>1. "index" \in Stages
        BY DEF Stages
      <3>2. Around'
        BY <1>2, <2>1, <2>2, <2>4 DEF TypeOK, Around
      <3>3. Account(p)' = Account(p)
        BY <1>2 DEF Account
      <3>4. Working1(p)'
        BY <1>1, <2>4, <3>1, <3>3, GotoStep DEF Working1, TypeOK
      <3>. QED
        BY <1>1, <1>2, <2>4, <3>1, <3>2, <3>4, GotoStep, OneProcess
    <2>. QED
      BY <1>3, <2>3, <2>4 DEF Upsert
  <1>4. CASE ReadIndex(p) \/ MisreadIndex(p)
    <2>0. PICK list \in SUBSET Providers : ReadList(p, list)
      BY <1>4 DEF ReadIndex, MisreadIndex, TypeOK
    <2>1. UNCHANGED <<stored, index>> /\ stage[p] = "index" /\ faults' \in 0 .. MaxFaults
      BY <1>4, <2>0, FaultType DEF ReadIndex, MisreadIndex, ReadList, TypeOK
    <2>2. CASE Finish(p, "token", held[p])
      BY <1>1, <1>2, <2>1, <2>2, FinishType DEF TypeOK
    <2>3. CASE /\ stage' = [stage EXCEPT ![p] = "put"]
               /\ listed' = [listed EXCEPT ![p] = list]
               /\ UNCHANGED <<held, answer>>
      <3>1. /\ stage' \in [Processes -> Stages] /\ stage'[p] = "put"
            /\ listed' \in [Processes -> SUBSET Providers]
            /\ held' \in [Processes -> Creds \union {NoCred}]
            /\ \A q \in Processes : q # p => stage'[q] = stage[q] /\ held'[q] = held[q]
        BY <2>3 DEF TypeOK, Stages
      <3>2. Around'
        BY <1>2, <2>1, <2>3 DEF TypeOK, Around
      <3>3. Working1(p)'
        BY <1>2, <2>3, <3>1 DEF Working1, TypeOK, Account
      <3>. QED
        BY <1>2, <3>1, <3>2, <3>3, OneProcess
    <2>. QED
      BY <2>0, <2>2, <2>3 DEF ReadList
  <1>5. CASE WriteIndex(p)
    <2>1. UNCHANGED <<stored, faults>> /\ index' = Edited(p, listed[p])
      BY <1>5 DEF WriteIndex
    <2>2. Finish(p, "token", held[p])
      BY <1>5 DEF WriteIndex
    <2>3. index' \subseteq Providers
      BY <1>1, <2>1 DEF Edited, TypeOK
    <2>4. /\ now' \in 0 .. MaxTime /\ backend' \in Backends
          /\ stored' \in [Accounts -> Creds \union {NoCred}]
          /\ \A a \in Accounts : stored'[a] # NoCred => Home(stored'[a].grant) = a
          /\ current' \in [Grants -> Nat] /\ faults' \in 0 .. MaxFaults
      BY <1>2, <2>1 DEF TypeOK
    <2>5. "token" \in Outcomes
      OBVIOUS
    <2>. HIDE DEF Outcomes
    <2>. QED
      BY <1>1, <1>2, <2>2, <2>3, <2>4, <2>5, FinishType
  <1>6. CASE StoreFails(p)
    <2>1. UNCHANGED <<stored, index>> /\ Fault /\ Finish(p, "failed", NoCred)
      BY <1>6 DEF StoreFails
    <2>2. /\ now' \in 0 .. MaxTime /\ backend' \in Backends
          /\ stored' \in [Accounts -> Creds \union {NoCred}]
          /\ \A a \in Accounts : stored'[a] # NoCred => Home(stored'[a].grant) = a
          /\ index' \subseteq Providers /\ current' \in [Grants -> Nat]
      BY <1>2, <2>1 DEF TypeOK
    <2>3. "failed" \in Outcomes
      OBVIOUS
    <2>. HIDE DEF Outcomes
    <2>. QED
      BY <1>1, <1>2, <2>1, <2>2, <2>3, FaultType, FinishType
  <1>. QED
    BY <1>3, <1>4, <1>5, <1>6

\* Every step keeps the types.
LEMMA StepType ==
  ASSUME TypeOK, Roles, [Next]_vars
  PROVE  TypeOK'
  <1>1. ASSUME Tick, Observe PROVE TypeOK'
    <2>1. /\ now' \in 0 .. MaxTime
          /\ UNCHANGED <<backend, target, stored, index, current, stage, held, listed, answer,
                         faults>>
      <3>1. now \in 0 .. MaxTime /\ now < MaxTime /\ now' = now + 1
        BY <1>1 DEF Tick, TypeOK
      <3>. QED
        BY <1>1, <3>1, OAuthAssumption DEF Tick
    <2>2. \A p \in Processes : Account(p)' = Account(p)
      BY <2>1 DEF Account
    <2>. QED
      BY <1>1, <2>1, <2>2, ObserveType DEF TypeOK
  <1>2. ASSUME Crash, Observe PROVE TypeOK'
    <2>1. /\ UNCHANGED <<now, backend, target, stored, index, current, answer>> /\ Fault
          /\ held' = [p \in Processes |-> NoCred] /\ listed' = [p \in Processes |-> {}]
          /\ stage' = [p \in Processes |-> IF stage[p] = "idle" THEN "idle" ELSE "done"]
      BY <1>2 DEF Crash
    <2>2. /\ stage' \in [Processes -> {"idle", "done"}] /\ {"idle", "done"} \subseteq Stages
          /\ \A p \in Processes : held'[p] = NoCred
      BY <2>1 DEF Stages
    <2>3. Around'
      BY <2>1, FaultType DEF TypeOK, Around, Outcomes
    <2>4. raced' \in [Requests -> BOOLEAN] /\ spoiled' \in BOOLEAN
      BY <1>2, ObserveType
    <2>5. \A p \in Processes : Working1(p)'
      BY <2>2 DEF Working1
    <2>6. /\ held' \in [Processes -> Creds \union {NoCred}] /\ stage' \in [Processes -> Stages]
          /\ listed' \in [Processes -> SUBSET Providers]
      BY <2>1, <2>2
    <2>. QED
      BY <2>3, <2>4, <2>5, <2>6 DEF TypeOK, Around, Working1, Outcomes
  <1>3. ASSUME NEW d \in Deletions, Delete(d), Observe PROVE TypeOK'
    <2>1. d \in Processes /\ Account(d) \in Accounts
      BY AccountType DEF Processes
    <2>2. /\ UNCHANGED <<now, backend, target, index, current, faults>>
          /\ stored' = [stored EXCEPT ![Account(d)] = NoCred]
      BY <1>3 DEF Delete
    <2>3. /\ stored' \in [Accounts -> Creds \union {NoCred}]
          /\ \A a \in Accounts : stored'[a] # NoCred => Home(stored'[a].grant) = a
      BY <2>1, <2>2 DEF TypeOK
    <2>4. CASE Finish(d, "", NoCred)
      BY <1>3, <2>1, <2>2, <2>3, <2>4, FinishType DEF TypeOK, Outcomes
    <2>5. CASE Goto(d, "index", NoCred) /\ UNCHANGED answer
      <3>1. "index" \in Stages
        BY DEF Stages
      <3>2. Around'
        BY <2>2, <2>3, <2>5 DEF TypeOK, Around, Outcomes
      <3>3. Working1(d)'
        BY <2>1, <2>5, <3>1, GotoStep DEF Working1
      <3>. QED
        BY <1>3, <2>1, <2>2, <2>5, <3>1, <3>2, <3>3, GotoStep, OneProcess
    <2>. QED
      BY <1>3, <2>4, <2>5 DEF Delete
  <1>4. CASE UNCHANGED vars
    <2>1. \A p \in Processes : Account(p)' = Account(p)
      BY <1>4 DEF vars, Account
    <2>. QED
      BY <1>4, <2>1 DEF vars, TypeOK
  <1>. QED
    BY <1>1, <1>2, <1>3, <1>4, RequestType, LoginType, StoreType DEF Next

---------------------------------------------------------------------------

(* What a step does to tokens, for any of the actions that do the same.    *)

Others(p) == \A q \in Processes \ {p} : stage'[q] = stage[q] /\ held'[q] = held[q]

\* No token is read, traded in or written.
Still ==
  /\ UNCHANGED <<stored, current, target>>
  /\ faults' = 0 => faults = 0
  /\ \A q \in Processes :
       \/ stage'[q] = stage[q] /\ held'[q] = held[q]
       \/ /\ stage'[q] \notin {"refresh", "write"} /\ held'[q] \in {held[q], NoCred}
          /\ stage'[q] = "idle" => stage[q] = "idle"
          /\ stage'[q] = "asked" => stage[q] = "idle" /\ q \in Flows
          /\ faults' = 0 => stage[q] \notin {"refresh", "write"}

Loaded(r) ==
  /\ stage[r] = "idle" /\ stage'[r] = "refresh"
  /\ stored[target[r]] # NoCred /\ held'[r] = stored[target[r]]
  /\ Others(r) /\ UNCHANGED <<stored, current, target, faults>>

Exchanged(r) ==
  /\ stage[r] = "refresh" /\ stage'[r] = "write"
  /\ Accepted(held[r]) /\ held'[r] = Refreshed(held[r], Provider(r))
  /\ Rotate(held[r], Provider(r))
  /\ Others(r) /\ UNCHANGED <<stored, target, faults>>

Refused(r) ==
  /\ stage[r] = "refresh" /\ stage'[r] = "done" /\ held'[r] = NoCred
  /\ ~Accepted(held[r])
  /\ Others(r) /\ UNCHANGED <<stored, current, target, faults>>

Lost(r) ==
  /\ stage[r] = "refresh" /\ stage'[r] = "done" /\ held'[r] = NoCred
  /\ Accepted(held[r]) /\ Rotate(held[r], Provider(r)) /\ faults' # 0
  /\ Others(r) /\ UNCHANGED <<stored, target>>

CalledBack(f) ==
  /\ stage[f] = "asked" /\ stage'[f] = "write"
  /\ held'[f] \in Creds /\ held'[f].grant = f
  /\ current' = [current EXCEPT ![f] = held'[f].refresh]
  /\ Others(f) /\ UNCHANGED <<stored, target, faults>>

Upserted(p) ==
  /\ stage[p] = "write" /\ stage'[p] \in {"index", "done"} /\ held'[p] \in {held[p], NoCred}
  /\ stored' = [stored EXCEPT ![Account(p)] = held[p]]
  /\ Others(p) /\ UNCHANGED <<current, target, faults>>

Deleted(d) ==
  /\ stage[d] = "idle" /\ stage'[d] \in {"index", "done"} /\ held'[d] = NoCred
  /\ stored' = [stored EXCEPT ![Account(d)] = NoCred]
  /\ Others(d) /\ UNCHANGED <<current, target, faults>>

Kinds ==
  \/ Still
  \/ \E r \in Requests : Loaded(r) \/ Exchanged(r) \/ Refused(r) \/ Lost(r)
  \/ \E f \in Flows : CalledBack(f)
  \/ \E p \in Processes : Upserted(p)
  \/ \E d \in Deletions : Deleted(d)

\* Every step is one of these.
LEMMA EveryStep ==
  ASSUME TypeOK, [Next]_vars
  PROVE  Kinds
  <1>1. {"idle", "asked", "refresh", "write", "index", "put", "done"} = Stages
    BY DEF Stages
  <1>2. ASSUME NEW p \in Processes, NEW o \in Outcomes, NEW c \in Creds \union {NoCred},
               Finish(p, o, c)
        PROVE  stage'[p] = "done" /\ held'[p] = NoCred /\ Others(p)
    BY <1>2, FinishStep DEF Others
  <1>3. ASSUME NEW p \in Processes, NEW s \in Stages, NEW c \in Creds \union {NoCred},
               Goto(p, s, c)
        PROVE  stage'[p] = s /\ held'[p] = c /\ Others(p)
    BY <1>3, GotoStep DEF Others
  <1>4. CASE Tick
    BY <1>4 DEF Tick, Kinds, Still
  <1>5. CASE Crash
    <2>1. /\ UNCHANGED <<stored, current, target>> /\ faults' # 0
          /\ \A q \in Processes : /\ stage'[q] = IF stage[q] = "idle" THEN "idle" ELSE "done"
                                  /\ held'[q] = NoCred
      BY <1>5, FaultType DEF Crash
    <2>. QED
      BY <2>1 DEF Kinds, Still
  <1>6. ASSUME NEW r \in Requests, Resolve(r) PROVE Kinds
    <2>1. /\ r \in Processes /\ stage[r] = "idle" /\ Load(r) = stored[target[r]]
          /\ UNCHANGED <<stored, current, target, faults>>
          /\ Load(r) \in Creds \union {NoCred}
      BY <1>6 DEF Resolve, Load, Processes, TypeOK
    <2>2. CASE Goto(r, "refresh", Load(r)) /\ Load(r) # NoCred
      <3>1. stage'[r] = "refresh" /\ held'[r] = Load(r) /\ Others(r)
        BY <1>1, <1>3, <2>1, <2>2
      <3>. QED
        BY <2>1, <2>2, <3>1 DEF Kinds, Loaded
    <2>3. CASE \E o \in Outcomes, c \in Creds \union {NoCred} : Finish(r, o, c)
      <3>1. stage'[r] = "done" /\ held'[r] = NoCred /\ Others(r)
        BY <1>2, <2>1, <2>3
      <3>. QED
        BY <2>1, <3>1 DEF Kinds, Still, Others
    <2>. QED
      BY <1>6, <2>1, <2>2, <2>3 DEF Resolve, Outcomes
  <1>7. ASSUME NEW r \in Requests, Exchange(r) PROVE Kinds
    <2>1. /\ r \in Processes /\ stage[r] = "refresh" /\ Provider(r) \in Providers
          /\ UNCHANGED <<stored, target, faults>> /\ held[r] \in Creds
      BY <1>7, AccountType DEF Exchange, Processes, TypeOK
    <2>2. CASE Accepted(held[r])
      <3>1. /\ Goto(r, "write", Refreshed(held[r], Provider(r)))
            /\ Rotate(held[r], Provider(r))
        BY <1>7, <2>2 DEF Exchange
      <3>2. Refreshed(held[r], Provider(r)) \in Creds
        BY <2>1, RefreshedToken
      <3>3. stage'[r] = "write" /\ held'[r] = Refreshed(held[r], Provider(r)) /\ Others(r)
        BY <1>1, <1>3, <2>1, <3>1, <3>2
      <3>. QED
        BY <2>1, <2>2, <3>1, <3>3 DEF Kinds, Exchanged
    <2>3. CASE ~Accepted(held[r])
      <3>1. Finish(r, "failed", NoCred) /\ UNCHANGED current
        BY <1>7, <2>3 DEF Exchange
      <3>2. stage'[r] = "done" /\ held'[r] = NoCred /\ Others(r)
        BY <1>2, <2>1, <3>1 DEF Outcomes
      <3>. QED
        BY <2>1, <2>3, <3>1, <3>2 DEF Kinds, Refused
    <2>. QED
      BY <2>2, <2>3
  <1>8. ASSUME NEW r \in Requests, AnswerLost(r) PROVE Kinds
    <2>1. /\ r \in Processes /\ stage[r] = "refresh" /\ Accepted(held[r])
          /\ Rotate(held[r], Provider(r)) /\ Finish(r, "failed", NoCred)
          /\ UNCHANGED <<stored, target>> /\ faults' # 0
      BY <1>8, FaultType DEF AnswerLost, Processes
    <2>2. stage'[r] = "done" /\ held'[r] = NoCred /\ Others(r)
      BY <1>2, <2>1 DEF Outcomes
    <2>. QED
      BY <2>1, <2>2 DEF Kinds, Lost
  <1>9. ASSUME NEW f \in Flows, Login(f) PROVE Kinds
    <2>1. /\ f \in Processes /\ stage[f] = "idle" /\ Goto(f, "asked", NoCred)
          /\ UNCHANGED <<stored, current, target, faults>>
      BY <1>9 DEF Login, Processes
    <2>2. stage'[f] = "asked" /\ held'[f] = NoCred /\ Others(f)
      BY <1>1, <1>3, <2>1
    <2>. QED
      BY <2>1, <2>2 DEF Kinds, Still, Others
  <1>10. ASSUME NEW f \in Flows, Callback(f) PROVE Kinds
    <2>1. PICK n \in {0, 1}, e \in {now + Life, now + Never} :
            /\ Goto(f, "write", [grant |-> f, refresh |-> n, expires |-> e, owned |-> TRUE])
            /\ current' = [current EXCEPT ![f] = n]
      BY <1>10 DEF Callback
    <2>2. /\ f \in Processes /\ stage[f] = "asked" /\ UNCHANGED <<stored, target, faults>>
      BY <1>10 DEF Callback, Processes
    <2>3. e \in Nat
      <3>1. now \in 0 .. MaxTime
        BY DEF TypeOK
      <3>2. Life \in Nat /\ Never \in Nat
        BY OAuthAssumption
      <3>. QED
        BY <3>1, <3>2
    <2>4. [grant |-> f, refresh |-> n, expires |-> e, owned |-> TRUE] \in Creds
      BY <2>3 DEF Creds, Grants
    <2>5. /\ stage'[f] = "write" /\ Others(f)
          /\ held'[f] = [grant |-> f, refresh |-> n, expires |-> e, owned |-> TRUE]
      BY <1>1, <1>3, <2>1, <2>2, <2>4
    <2>6. held'[f] \in Creds /\ held'[f].grant = f /\ held'[f].refresh = n
      BY <2>4, <2>5
    <2>. QED
      BY <2>1, <2>2, <2>5, <2>6 DEF Kinds, CalledBack
  <1>11. ASSUME NEW d \in Deletions, Delete(d) PROVE Kinds
    <2>1. /\ d \in Processes /\ stage[d] = "idle"
          /\ stored' = [stored EXCEPT ![Account(d)] = NoCred]
          /\ UNCHANGED <<current, target, faults>>
          /\ Goto(d, "index", NoCred) \/ Finish(d, "", NoCred)
      BY <1>11 DEF Delete, Processes
    <2>2. stage'[d] \in {"index", "done"} /\ held'[d] = NoCred /\ Others(d)
      BY <1>1, <1>2, <1>3, <2>1 DEF Outcomes
    <2>. QED
      BY <2>1, <2>2 DEF Kinds, Deleted
  <1>12. ASSUME NEW p \in Processes, Upsert(p) PROVE Kinds
    <2>1. /\ stage[p] = "write" /\ stored' = [stored EXCEPT ![Account(p)] = held[p]]
          /\ UNCHANGED <<current, target, faults>>
          /\ Goto(p, "index", held[p]) \/ Finish(p, "token", held[p])
          /\ held[p] \in Creds \union {NoCred}
      BY <1>12 DEF Upsert, Target, TypeOK
    <2>2. stage'[p] \in {"index", "done"} /\ held'[p] \in {held[p], NoCred} /\ Others(p)
      BY <1>1, <1>2, <1>3, <2>1 DEF Outcomes
    <2>. QED
      BY <2>1, <2>2 DEF Kinds, Upserted
  <1>13. ASSUME NEW p \in Processes,
                \/ ReadIndex(p) \/ WriteIndex(p) \/ MisreadIndex(p) \/ StoreFails(p)
         PROVE  Kinds
    <2>1. /\ UNCHANGED <<stored, current, target>> /\ held[p] \in Creds \union {NoCred}
          /\ stage[p] \in {"write", "index", "put"}
      BY <1>13 DEF ReadIndex, ReadList, MisreadIndex, WriteIndex, StoreFails, TypeOK
    <2>0. faults' = 0 => faults = 0
      BY <1>13, FaultType DEF ReadIndex, MisreadIndex, WriteIndex, StoreFails
    <2>2. CASE /\ stage[p] \in {"index", "put"}
               /\ Finish(p, "token", held[p])
      <3>1. stage'[p] = "done" /\ held'[p] = NoCred /\ Others(p)
        BY <1>2, <2>1, <2>2 DEF Outcomes
      <3>. QED
        BY <2>0, <2>1, <2>2, <3>1 DEF Kinds, Still, Others
    <2>3. CASE /\ stage[p] = "index" /\ held' = held
               /\ stage' = [stage EXCEPT ![p] = "put"]
      <3>1. \A q \in Processes : q # p => stage'[q] = stage[q]
        BY <2>3 DEF TypeOK
      <3>2. stage'[p] = "put"
        BY <2>3 DEF TypeOK
      <3>. QED
        BY <2>0, <2>1, <2>3, <3>1, <3>2 DEF Kinds, Still
    <2>4. CASE Fault /\ Finish(p, "failed", NoCred)
      <3>1. stage'[p] = "done" /\ held'[p] = NoCred /\ Others(p)
        BY <1>2, <2>4 DEF Outcomes
      <3>. QED
        BY <2>1, <2>4, <3>1, FaultType DEF Kinds, Still, Others
    <2>. QED
      BY <1>13, <2>2, <2>3, <2>4 DEF ReadIndex, ReadList, MisreadIndex, WriteIndex, StoreFails
  <1>14. CASE UNCHANGED vars
    BY <1>14 DEF vars, Kinds, Still
  <1>. QED
    BY <1>4, <1>5, <1>6, <1>7, <1>8, <1>9, <1>10, <1>11, <1>12, <1>13, <1>14 DEF Next

\* Only requests refresh, and only requests and logins write.
LEMMA StepRoles == ASSUME Roles, Kinds PROVE Roles'
  <1>1. CASE Still
    BY <1>1 DEF Roles, Still
  <1>2. ASSUME NEW r \in Requests, Loaded(r) \/ Exchanged(r) \/ Refused(r) \/ Lost(r) PROVE Roles'
    BY <1>2 DEF Roles, Loaded, Exchanged, Refused, Lost, Others
  <1>3. ASSUME NEW f \in Flows, CalledBack(f) PROVE Roles'
    BY <1>3 DEF Roles, CalledBack, Others
  <1>4. ASSUME NEW p \in Processes, Upserted(p) PROVE Roles'
    BY <1>4 DEF Roles, Upserted, Others
  <1>5. ASSUME NEW d \in Deletions, Deleted(d) PROVE Roles'
    BY <1>5 DEF Roles, Deleted, Others
  <1>. QED
    BY <1>1, <1>2, <1>3, <1>4, <1>5 DEF Kinds

\* What a process works on, where it works on something.
LEMMA HeldType ==
  ASSUME TypeOK, NEW p \in Processes, stage[p] \in {"refresh", "write"}
  PROVE  /\ held[p] \in Creds /\ held[p] # NoCred /\ held[p].grant \in Grants
         /\ held[p].refresh \in Nat
         /\ Account(p) \in Accounts /\ Provider(p) \in Providers
  <1>1. held[p] \in Creds /\ held[p] # NoCred
    BY OAuthAssumption DEF TypeOK
  <1>. QED
    BY <1>1, AccountType DEF Creds

\* What an account stores, where it stores something.
LEMMA StoredType ==
  ASSUME TypeOK, NEW a \in Accounts, stored[a] # NoCred
  PROVE  /\ stored[a] \in Creds /\ stored[a].grant \in Grants
         /\ stored[a].refresh \in Nat
  <1>1. stored[a] \in Creds
    BY DEF TypeOK
  <1>. QED
    BY <1>1 DEF Creds

\* The grant of a login is nobody's before its callback.
LEMMA StepUnseen == ASSUME TypeOK, Unseen, Kinds PROVE Unseen'
  <1>. SUFFICES ASSUME NEW f \in Flows, stage'[f] \in {"idle", "asked"}
                PROVE  /\ \A a \in Accounts : stored'[a] # NoCred => stored'[a].grant # f
                       /\ \A p \in Processes : held'[p] # NoCred => held'[p].grant # f
    BY DEF Unseen
  <1>1. f \in Processes
    BY DEF Processes
  <1>2. stage[f] \in {"idle", "asked"} =>
          /\ \A a \in Accounts : stored[a] # NoCred => stored[a].grant # f
          /\ \A p \in Processes : held[p] # NoCred => held[p].grant # f
    BY DEF Unseen
  <1>3. CASE Still
    BY <1>1, <1>2, <1>3 DEF Still
  <1>4. ASSUME NEW r \in Requests, Loaded(r)
        PROVE  /\ \A a \in Accounts : stored'[a] # NoCred => stored'[a].grant # f
               /\ \A p \in Processes : held'[p] # NoCred => held'[p].grant # f
    <2>1. target[r] \in Accounts /\ r \in Processes
      BY DEF TypeOK, Processes
    <2>. QED
      BY <1>1, <1>2, <1>4, <2>1 DEF Loaded, Others
  <1>5. ASSUME NEW r \in Requests, Exchanged(r)
        PROVE  /\ \A a \in Accounts : stored'[a] # NoCred => stored'[a].grant # f
               /\ \A p \in Processes : held'[p] # NoCred => held'[p].grant # f
    <2>1. r \in Processes /\ held[r] # NoCred /\ held'[r].grant = held[r].grant
      BY <1>5, HeldType, RefreshedToken DEF Exchanged, Processes
    <2>. QED
      BY <1>1, <1>2, <1>5, <2>1 DEF Exchanged, Others
  <1>6. ASSUME NEW r \in Requests, Refused(r) \/ Lost(r)
        PROVE  /\ \A a \in Accounts : stored'[a] # NoCred => stored'[a].grant # f
               /\ \A p \in Processes : held'[p] # NoCred => held'[p].grant # f
    BY <1>1, <1>2, <1>6 DEF Refused, Lost, Others
  <1>7. ASSUME NEW g \in Flows, CalledBack(g)
        PROVE  /\ \A a \in Accounts : stored'[a] # NoCred => stored'[a].grant # f
               /\ \A p \in Processes : held'[p] # NoCred => held'[p].grant # f
    BY <1>1, <1>2, <1>7 DEF CalledBack, Others
  <1>8. ASSUME NEW p \in Processes, Upserted(p)
        PROVE  /\ \A a \in Accounts : stored'[a] # NoCred => stored'[a].grant # f
               /\ \A q \in Processes : held'[q] # NoCred => held'[q].grant # f
    <2>1. /\ \A a \in Accounts : stored'[a] \in {stored[a], held[p]}
          /\ held[p] # NoCred /\ stage[f] \in {"idle", "asked"}
      BY <1>1, <1>8, HeldType DEF Upserted, Others, TypeOK
    <2>. QED
      BY <1>2, <1>8, <2>1 DEF Upserted, Others
  <1>9. ASSUME NEW d \in Deletions, Deleted(d)
        PROVE  /\ \A a \in Accounts : stored'[a] # NoCred => stored'[a].grant # f
               /\ \A q \in Processes : held'[q] # NoCred => held'[q].grant # f
    <2>1. \A a \in Accounts : stored'[a] \in {stored[a], NoCred}
      BY <1>9 DEF Deleted, TypeOK
    <2>. QED
      BY <1>1, <1>2, <1>9, <2>1 DEF Deleted, Others
  <1>. QED
    BY <1>3, <1>4, <1>5, <1>6, <1>7, <1>8, <1>9 DEF Kinds

\* No exchange lowers what an endpoint accepts.
LEMMA RotateUp ==
  ASSUME TypeOK, NEW p \in Processes, stage[p] = "refresh", Accepted(held[p]),
         Rotate(held[p], Provider(p))
  PROVE  /\ current' \in [Grants -> Nat]
         /\ \A g \in Grants : current[g] <= current'[g]
         /\ \A g \in Grants : g # held[p].grant => current'[g] = current[g]
         /\ Provider(p) \in Rotating => current'[held[p].grant] = held[p].refresh + 1
         /\ Provider(p) \notin Rotating => current' = current
  <1>1. /\ held[p].grant \in Grants /\ held[p].refresh \in Nat
        /\ current[held[p].grant] = held[p].refresh
    BY HeldType DEF Accepted
  <1>2. current \in [Grants -> Nat]
    BY DEF TypeOK
  <1>. QED
    BY <1>1, <1>2 DEF Rotate

\* No token that is kept is ahead of the one that is accepted.
LEMMA StepBehind == ASSUME TypeOK, Roles, Unseen, Behind, Kinds PROVE Behind'
  <1>. DEFINE Rows == \A a \in Accounts : stored[a] # NoCred =>
                        stored[a].refresh <= current[stored[a].grant]
              Work == \A p \in Processes : stage[p] \in {"refresh", "write"} =>
                        held[p].refresh <= current[held[p].grant]
              Goal == (Rows /\ Work)'
  <1>1. Rows /\ Work
    BY DEF Behind
  <1>2. /\ \A a \in Accounts : stored[a] # NoCred =>
             stored[a].grant \in Grants /\ stored[a].refresh \in Nat
        /\ \A p \in Processes : stage[p] \in {"refresh", "write"} =>
             held[p].grant \in Grants /\ held[p].refresh \in Nat
        /\ current \in [Grants -> Nat]
    BY HeldType, StoredType DEF TypeOK
  <1>3. ASSUME Still PROVE Goal
    BY <1>1, <1>3 DEF Still
  <1>4. ASSUME NEW r \in Requests, Loaded(r) PROVE Goal
    <2>1. target[r] \in Accounts /\ r \in Processes
      BY DEF TypeOK, Processes
    <2>. QED
      BY <1>1, <1>4, <2>1 DEF Loaded, Others
  <1>5. ASSUME NEW r \in Requests, stage[r] = "refresh", Accepted(held[r]),
               Rotate(held[r], Provider(r)), stored' = stored, Others(r),
               \/ stage'[r] = "done"
               \/ held'[r] = Refreshed(held[r], Provider(r))
        PROVE Goal
    <2>1. r \in Processes
      BY DEF Processes
    <2>2. /\ current' \in [Grants -> Nat]
          /\ \A g \in Grants : current[g] <= current'[g]
          /\ Provider(r) \in Rotating => current'[held[r].grant] = held[r].refresh + 1
          /\ Provider(r) \notin Rotating => current' = current
      BY <1>5, <2>1, RotateUp
    <2>3. Rows'
      BY <1>1, <1>2, <1>5, <2>2
    <2>4. ASSUME NEW q \in Processes, stage'[q] \in {"refresh", "write"}
          PROVE  held'[q].refresh <= current'[held'[q].grant]
      <3>1. CASE q = r
        <4>1. /\ held'[r].grant = held[r].grant
              /\ held'[r].refresh =
                   (IF Provider(r) \in Rotating THEN held[r].refresh + 1 ELSE held[r].refresh)
          BY <1>5, <2>1, <2>4, <3>1, HeldType, RefreshedToken
        <4>2. held[r].refresh = current[held[r].grant] /\ held[r].refresh \in Nat
          BY <1>2, <1>5, <2>1 DEF Accepted
        <4>. QED
          BY <2>2, <3>1, <4>1, <4>2
      <3>2. CASE q # r
        BY <1>1, <1>2, <1>5, <2>2, <2>4, <3>2 DEF Others
      <3>. QED
        BY <3>1, <3>2
    <2>. QED
      BY <2>3, <2>4
  <1>6. ASSUME NEW r \in Requests, Refused(r) PROVE Goal
    BY <1>1, <1>6 DEF Refused, Others
  <1>7. ASSUME NEW f \in Flows, CalledBack(f) PROVE Goal
    <2>1. /\ f \in Processes /\ f \in Grants /\ held'[f].refresh \in Nat
      BY <1>7 DEF CalledBack, Processes, Grants, Creds
    <2>2. /\ \A a \in Accounts : stored[a] # NoCred => stored[a].grant # f
          /\ \A p \in Processes : stage[p] \in {"refresh", "write"} => held[p].grant # f
      BY <1>7, HeldType DEF CalledBack, Unseen
    <2>3. /\ current'[f] = held'[f].refresh
          /\ \A g \in Grants : g # f => current'[g] = current[g]
      BY <1>2, <1>7, <2>1 DEF CalledBack
    <2>4. Rows'
      BY <1>1, <1>2, <1>7, <2>2, <2>3 DEF CalledBack
    <2>5. Work'
      BY <1>1, <1>2, <1>7, <2>1, <2>2, <2>3 DEF CalledBack, Others
    <2>. QED
      BY <2>4, <2>5
  <1>8. ASSUME NEW p \in Processes, Upserted(p) PROVE Goal
    <2>1. \A a \in Accounts : stored'[a] \in {stored[a], held[p]}
      BY <1>8 DEF Upserted, TypeOK
    <2>. QED
      BY <1>1, <1>8, <2>1 DEF Upserted, Others
  <1>9. ASSUME NEW d \in Deletions, Deleted(d) PROVE Goal
    <2>1. \A a \in Accounts : stored'[a] \in {stored[a], NoCred}
      BY <1>9 DEF Deleted, TypeOK
    <2>. QED
      BY <1>1, <1>9, <2>1 DEF Deleted, Others
  <1>10. Goal
    <2>. HIDE DEF Goal
    <2>. QED
      BY <1>3, <1>4, <1>5, <1>6, <1>7, <1>8, <1>9 DEF Kinds, Exchanged, Lost
  <1>. QED
    BY <1>10 DEF Behind

\* A step leaves the accounts of the processes as they are.
LEMMA SameTarget == ASSUME Kinds PROVE /\ target' = target
                                       /\ \A p \in Processes : Account(p)' = Account(p)
                                       /\ \A p \in Processes : Provider(p)' = Provider(p)
  <1>1. target' = target
    BY DEF Kinds, Still, Loaded, Exchanged, Refused, Lost, CalledBack, Upserted, Deleted
  <1>. QED
    BY <1>1 DEF Account, Provider

\* One process at a time trades in a rotating token of a grant: who is about
\* to write is the only one with a token that is accepted.
LEMMA StepSerial ==
  ASSUME TypeOK, Roles, Unseen, Behind, Serial, Kinds
  PROVE  Serial'
  <1>. DEFINE Goal == \A p \in Processes : stage'[p] = "write" => Sole(p)'
  <1>. SUFFICES ASSUME faults' = 0 PROVE Goal
    BY DEF Serial
  <1>1. faults = 0 => \A p \in Processes : stage[p] = "write" => Sole(p)
    BY DEF Serial
  <1>2. \A p \in Processes : Provider(p)' = Provider(p)
    BY SameTarget
  <1>3. /\ \A a \in Accounts : stored[a] # NoCred =>
             /\ stored[a].grant \in Grants /\ stored[a].refresh \in Nat
             /\ stored[a].refresh <= current[stored[a].grant]
        /\ \A p \in Processes : stage[p] \in {"refresh", "write"} =>
             /\ held[p] # NoCred
             /\ held[p].grant \in Grants /\ held[p].refresh \in Nat
             /\ held[p].refresh <= current[held[p].grant]
        /\ current \in [Grants -> Nat]
    BY HeldType, StoredType DEF TypeOK, Behind
  <1>4. ASSUME Still PROVE Goal
    BY <1>1, <1>2, <1>4 DEF Still, Sole, Accepted
  <1>5. ASSUME NEW r \in Requests, Loaded(r) PROVE Goal
    <2>1. r \in Processes /\ target[r] \in Accounts
      BY DEF TypeOK, Processes
    <2>. QED
      BY <1>1, <1>2, <1>5, <2>1 DEF Loaded, Others, Sole, Accepted
  <1>6. ASSUME NEW r \in Requests, Exchanged(r) PROVE Goal
    <2>1. /\ r \in Processes /\ stage[r] = "refresh" /\ stage'[r] = "write"
          /\ Accepted(held[r]) /\ faults = 0 /\ stored' = stored
          /\ \A q \in Processes \ {r} : stage'[q] = stage[q] /\ held'[q] = held[q]
      BY <1>6 DEF Exchanged, Processes, Others
    <2>2. /\ \A g \in Grants : g # held[r].grant => current'[g] = current[g]
          /\ Provider(r) \in Rotating => current'[held[r].grant] = held[r].refresh + 1
          /\ Provider(r) \notin Rotating => current' = current
      BY <1>6, <2>1, RotateUp DEF Exchanged
    <2>3. /\ held'[r].grant = held[r].grant
          /\ held'[r].refresh =
               (IF Provider(r) \in Rotating THEN held[r].refresh + 1 ELSE held[r].refresh)
      BY <1>6, <2>1, HeldType, RefreshedToken DEF Exchanged
    <2>4. held[r].refresh = current[held[r].grant]
      BY <2>1 DEF Accepted
    <2>5. \A q \in Processes \ {r} :
            stage[q] = "write" /\ held[q].grant = held[r].grant =>
              Provider(q) = Provider(r) /\ Provider(q) \notin Rotating
      <3>. SUFFICES ASSUME NEW q \in Processes \ {r}, stage[q] = "write",
                           held[q].grant = held[r].grant
                    PROVE  Provider(q) = Provider(r) /\ Provider(q) \notin Rotating
        OBVIOUS
      <3>1. Provider(q) = Provider(r)
        BY <1>3, <2>1, SameAccount
      <3>2. Provider(q) \notin Rotating
        BY <1>1, <2>1 DEF Sole
      <3>. QED
        BY <3>1, <3>2
    <2>6. Sole(r)'
      <3>1. Accepted(held[r])'
        BY <1>3, <2>1, <2>2, <2>3, <2>4 DEF Accepted
      <3>2. ASSUME Provider(r) \in Rotating, NEW q \in Processes \ {r},
                   stage'[q] \in {"refresh", "write"}, held'[q].grant = held'[r].grant
            PROVE  stage'[q] = "refresh" /\ ~Accepted(held[q])'
        BY <1>3, <2>1, <2>2, <2>3, <2>4, <2>5, <3>2 DEF Accepted
      <3>3. ASSUME Provider(r) \in Rotating, NEW a \in Accounts, stored'[a] # NoCred,
                   stored'[a].grant = held'[r].grant
            PROVE  ~Accepted(stored[a])'
        BY <1>3, <2>1, <2>2, <2>3, <2>4, <3>3 DEF Accepted
      <3>. QED
        BY <1>2, <2>1, <3>1, <3>2, <3>3 DEF Sole
    <2>7. ASSUME NEW q \in Processes \ {r}, stage'[q] = "write" PROVE Sole(q)'
      <3>1. stage[q] = "write" /\ held'[q] = held[q] /\ Sole(q) /\ Provider(q)' = Provider(q)
        BY <1>1, <1>2, <2>1, <2>7
      <3>2. CASE held[q].grant = held[r].grant
        <4>1. Provider(q) \notin Rotating /\ current' = current
          BY <2>2, <2>5, <3>1, <3>2
        <4>. QED
          BY <3>1, <4>1 DEF Sole, Accepted
      <3>3. CASE held[q].grant # held[r].grant
        <4>1. current'[held[q].grant] = current[held[q].grant] /\ held'[r].grant # held[q].grant
          BY <1>3, <2>2, <2>3, <3>1, <3>3
        <4>. QED
          BY <2>1, <3>1, <4>1 DEF Sole, Accepted
      <3>. QED
        BY <3>2, <3>3
    <2>. QED
      BY <2>6, <2>7
  <1>7. ASSUME NEW r \in Requests, Refused(r) PROVE Goal
    BY <1>1, <1>2, <1>7 DEF Refused, Others, Sole, Accepted
  <1>8. ASSUME NEW f \in Flows, CalledBack(f) PROVE Goal
    <2>1. /\ f \in Processes /\ f \in Grants /\ stage'[f] = "write" /\ held'[f].grant = f
          /\ faults = 0 /\ stored' = stored
          /\ \A q \in Processes \ {f} : stage'[q] = stage[q] /\ held'[q] = held[q]
      BY <1>8 DEF CalledBack, Processes, Grants, Others
    <2>2. /\ \A a \in Accounts : stored[a] # NoCred => stored[a].grant # f
          /\ \A p \in Processes : stage[p] \in {"refresh", "write"} => held[p].grant # f
      BY <1>3, <1>8 DEF CalledBack, Unseen
    <2>3. /\ current'[f] = held'[f].refresh
          /\ \A g \in Grants : g # f => current'[g] = current[g]
      BY <1>3, <1>8, <2>1 DEF CalledBack
    <2>4. Sole(f)'
      BY <2>1, <2>2, <2>3 DEF Sole, Accepted
    <2>5. ASSUME NEW q \in Processes \ {f}, stage'[q] = "write" PROVE Sole(q)'
      <3>1. /\ stage[q] = "write" /\ held'[q] = held[q] /\ Sole(q) /\ Provider(q)' = Provider(q)
            /\ held[q].grant # f /\ current'[held[q].grant] = current[held[q].grant]
        BY <1>1, <1>2, <1>3, <2>1, <2>2, <2>3, <2>5
      <3>. QED
        BY <2>1, <3>1 DEF Sole, Accepted
    <2>. QED
      BY <2>4, <2>5
  <1>9. ASSUME NEW p \in Processes, Upserted(p) PROVE Goal
    <2>1. /\ stage[p] = "write" /\ stage'[p] \notin {"refresh", "write"}
          /\ faults = 0 /\ current' = current
          /\ \A q \in Processes \ {p} : stage'[q] = stage[q] /\ held'[q] = held[q]
          /\ \A a \in Accounts : stored'[a] \in {stored[a], held[p]}
      BY <1>9 DEF Upserted, Others, TypeOK
    <2>2. ASSUME NEW q \in Processes, stage'[q] = "write" PROVE Sole(q)'
      <3>1. /\ q # p /\ stage[q] = "write" /\ held'[q] = held[q] /\ Sole(q)
            /\ Provider(q)' = Provider(q)
        BY <1>1, <1>2, <2>1, <2>2
      <3>2. Provider(q) \in Rotating => held[p].grant # held[q].grant
        BY <2>1, <3>1 DEF Sole
      <3>. QED
        BY <2>1, <3>1, <3>2 DEF Sole, Accepted
    <2>. QED
      BY <2>2
  <1>10. ASSUME NEW d \in Deletions, Deleted(d) PROVE Goal
    <2>1. \A a \in Accounts : stored'[a] \in {stored[a], NoCred}
      BY <1>10 DEF Deleted, TypeOK
    <2>. QED
      BY <1>1, <1>2, <1>10, <2>1 DEF Deleted, Others, Sole, Accepted
  <1>11. ASSUME NEW r \in Requests, Lost(r) PROVE Goal
    BY <1>11 DEF Lost
  <1>. QED
    <2>. HIDE DEF Goal
    <2>. QED
      BY <1>4, <1>5, <1>6, <1>7, <1>8, <1>9, <1>10, <1>11 DEF Kinds

\* What RefreshTokenKept says of one account.
Kept(a) ==
  stored[a] # NoCred =>
    \/ Accepted(stored[a])
    \/ \E r \in Requests : /\ stage[r] = "write" /\ target[r] = a
                           /\ held[r].grant = stored[a].grant
                           /\ Accepted(held[r])

\* A token that is traded in is replaced by the one who traded it in, and what
\* is written is a token that is accepted.
LEMMA StepKept ==
  ASSUME TypeOK, Roles, Unseen, Behind, Serial, RefreshTokenKept, Kinds
  PROVE  RefreshTokenKept'
  <1>. DEFINE Goal == \A a \in Accounts : Kept(a)'
  <1>. SUFFICES ASSUME faults' = 0 PROVE Goal
    BY DEF RefreshTokenKept, Kept
  <1>1. faults = 0 => \A a \in Accounts : Kept(a)
    BY DEF RefreshTokenKept, Kept
  <1>2. target' = target /\ Requests \subseteq Processes
    BY SameTarget DEF Processes
  <1>3. /\ \A a \in Accounts : stored[a] # NoCred => stored[a].grant \in Grants
        /\ \A p \in Processes : stage[p] \in {"refresh", "write"} =>
             held[p] # NoCred /\ held[p].grant \in Grants /\ held[p].refresh \in Nat
        /\ current \in [Grants -> Nat]
    BY HeldType, StoredType DEF TypeOK
  <1>4. ASSUME Still PROVE Goal
    BY <1>1, <1>2, <1>4 DEF Still, Kept, Accepted
  <1>5. ASSUME NEW r \in Requests, Loaded(r) PROVE Goal
    BY <1>1, <1>2, <1>5 DEF Loaded, Others, Kept, Accepted
  <1>6. ASSUME NEW r \in Requests, Exchanged(r) PROVE Goal
    <2>1. /\ r \in Processes /\ stage[r] = "refresh" /\ stage'[r] = "write"
          /\ Accepted(held[r]) /\ faults = 0 /\ stored' = stored
          /\ \A q \in Processes \ {r} : stage'[q] = stage[q] /\ held'[q] = held[q]
      BY <1>2, <1>6 DEF Exchanged, Others
    <2>2. /\ \A g \in Grants : g # held[r].grant => current'[g] = current[g]
          /\ Provider(r) \in Rotating => current'[held[r].grant] = held[r].refresh + 1
          /\ Provider(r) \notin Rotating => current' = current
      BY <1>6, <2>1, RotateUp DEF Exchanged
    <2>3. Provider(r) \in Rotating =>
            held'[r].grant = held[r].grant /\ held'[r].refresh = held[r].refresh + 1
      BY <1>6, <2>1, HeldType, RefreshedToken DEF Exchanged
    <2>4. SUFFICES ASSUME NEW a \in Accounts, stored[a] # NoCred PROVE Kept(a)'
      BY <2>1 DEF Kept
    <2>5. CASE Provider(r) \notin Rotating
      BY <1>1, <1>2, <2>1, <2>2, <2>5 DEF Kept, Accepted
    <2>6. CASE Provider(r) \in Rotating /\ stored[a].grant = held[r].grant
      <3>1. target[r] = a
        BY <1>3, <2>1, <2>4, <2>6, SameAccount DEF Account
      <3>. QED
        BY <1>2, <1>3, <2>1, <2>2, <2>3, <2>6, <3>1 DEF Kept, Accepted
    <2>7. CASE Provider(r) \in Rotating /\ stored[a].grant # held[r].grant
      <3>1. current'[stored[a].grant] = current[stored[a].grant]
        BY <1>3, <2>2, <2>4, <2>7
      <3>2. \A q \in Requests : stage[q] = "write" => q # r
        BY <2>1
      <3>. QED
        BY <1>1, <1>2, <2>1, <2>4, <3>1, <3>2 DEF Kept, Accepted
    <2>. QED
      BY <2>5, <2>6, <2>7
  <1>7. ASSUME NEW r \in Requests, Refused(r) PROVE Goal
    BY <1>1, <1>2, <1>7 DEF Refused, Others, Kept, Accepted
  <1>8. ASSUME NEW f \in Flows, CalledBack(f) PROVE Goal
    <2>1. /\ f \in Processes /\ f \in Grants /\ faults = 0 /\ stored' = stored
          /\ stage[f] = "asked"
          /\ \A q \in Processes \ {f} : stage'[q] = stage[q] /\ held'[q] = held[q]
      BY <1>8 DEF CalledBack, Processes, Grants, Others
    <2>2. \A a \in Accounts : stored[a] # NoCred => stored[a].grant # f
      BY <1>8 DEF CalledBack, Unseen
    <2>3. \A g \in Grants : g # f => current'[g] = current[g]
      BY <1>3, <1>8 DEF CalledBack
    <2>. QED
      BY <1>1, <1>2, <1>3, <2>1, <2>2, <2>3 DEF Kept, Accepted
  <1>9. ASSUME NEW p \in Processes, Upserted(p) PROVE Goal
    <2>1. /\ stage[p] = "write" /\ faults = 0 /\ current' = current
          /\ stored' = [stored EXCEPT ![Account(p)] = held[p]]
          /\ \A q \in Processes \ {p} : stage'[q] = stage[q] /\ held'[q] = held[q]
      BY <1>9 DEF Upserted, Others
    <2>2. Accepted(held[p])
      BY <2>1 DEF Serial, Sole
    <2>3. stored \in [Accounts -> Creds \union {NoCred}]
      BY DEF TypeOK
    <2>4. ASSUME NEW a \in Accounts PROVE Kept(a)'
      <3>1. CASE a = Account(p)
        BY <2>1, <2>2, <2>3, <3>1 DEF Kept, Accepted
      <3>2. CASE a # Account(p)
        <4>1. stored'[a] = stored[a] /\ \A r \in Requests : target[r] = a => r # p
          BY <2>1, <2>3, <3>2 DEF Account
        <4>. QED
          BY <1>1, <1>2, <2>1, <4>1 DEF Kept, Accepted
      <3>. QED
        BY <3>1, <3>2
    <2>. QED
      BY <2>4
  <1>10. ASSUME NEW d \in Deletions, Deleted(d) PROVE Goal
    <2>1. \A a \in Accounts : stored'[a] \in {stored[a], NoCred}
      BY <1>10 DEF Deleted, TypeOK
    <2>. QED
      BY <1>1, <1>2, <1>10, <2>1 DEF Deleted, Others, Kept, Accepted
  <1>11. ASSUME NEW r \in Requests, Lost(r) PROVE Goal
    BY <1>11 DEF Lost
  <1>. QED
    <2>. HIDE DEF Goal
    <2>. QED
      BY <1>4, <1>5, <1>6, <1>7, <1>8, <1>9, <1>10, <1>11 DEF Kinds

\* What an endpoint accepts changes by a refresh of that grant or its login.
LEMMA CurrentChanges ==
  ASSUME TypeOK, Kinds
  PROVE  \/ current' = current
         \/ \E q \in Requests : /\ stage[q] = "refresh" /\ stage'[q] # "refresh"
                                /\ \A g \in Grants : g # held[q].grant => current'[g] = current[g]
         \/ \E f \in Flows : /\ stage[f] = "asked"
                             /\ \A g \in Grants : g # f => current'[g] = current[g]
  <1>1. Requests \subseteq Processes /\ current \in [Grants -> Nat]
    BY DEF Processes, TypeOK
  <1>2. ASSUME NEW q \in Requests, Exchanged(q) \/ Lost(q)
        PROVE  /\ stage[q] = "refresh" /\ stage'[q] # "refresh"
               /\ \A g \in Grants : g # held[q].grant => current'[g] = current[g]
    BY <1>1, <1>2, RotateUp DEF Exchanged, Lost
  <1>3. ASSUME NEW f \in Flows, CalledBack(f)
        PROVE  /\ stage[f] = "asked"
               /\ \A g \in Grants : g # f => current'[g] = current[g]
    BY <1>1, <1>3 DEF CalledBack
  <1>4. ASSUME NEW r \in Requests, Loaded(r) \/ Refused(r) PROVE current' = current
    BY <1>4 DEF Loaded, Refused
  <1>5. \/ Still \/ (\E p \in Processes : Upserted(p)) \/ (\E d \in Deletions : Deleted(d)) =>
          current' = current
    BY DEF Still, Upserted, Deleted
  <1>. QED
    BY <1>2, <1>3, <1>4, <1>5 DEF Kinds

\* A request refreshes what it refreshed, or the token it read just now.
LEMMA RefreshStarts ==
  ASSUME Kinds, NEW r \in Requests, stage'[r] = "refresh"
  PROVE  \/ stage[r] = "refresh" /\ held'[r] = held[r]
         \/ stage[r] = "idle" /\ stored[target[r]] # NoCred /\ held'[r] = stored[target[r]]
  <1>1. r \in Processes
    BY DEF Processes
  <1>2. CASE Still
    BY <1>1, <1>2 DEF Still
  <1>3. ASSUME NEW p \in Processes, p # r, Others(p)
        PROVE  stage[r] = "refresh" /\ held'[r] = held[r]
    BY <1>1, <1>3 DEF Others
  <1>4. ASSUME NEW q \in Requests, Loaded(q) \/ Exchanged(q) \/ Refused(q) \/ Lost(q)
        PROVE  /\ q \in Processes /\ Others(q)
               /\ q = r => /\ stage[r] = "idle" /\ stored[target[r]] # NoCred
                           /\ held'[r] = stored[target[r]]
    BY <1>4 DEF Loaded, Exchanged, Refused, Lost, Processes
  <1>5. ASSUME NEW p \in Processes, Upserted(p) PROVE p # r /\ Others(p)
    BY <1>5 DEF Upserted
  <1>6. ASSUME NEW f \in Flows, CalledBack(f) PROVE f \in Processes /\ f # r /\ Others(f)
    BY <1>6 DEF CalledBack, Processes
  <1>7. ASSUME NEW d \in Deletions, Deleted(d) PROVE d \in Processes /\ d # r /\ Others(d)
    BY <1>7 DEF Deleted, Processes
  <1>. QED
    BY <1>2, <1>3, <1>4, <1>5, <1>6, <1>7 DEF Kinds

\* A request that nobody met still works on what its account stores.
LEMMA StepUnmet ==
  ASSUME TypeOK, Unseen, RefreshTokenKept, Unmet, Kinds, Observe
  PROVE  Unmet'
  <1>. SUFFICES ASSUME faults' = 0, NEW r \in Requests, stage'[r] = "refresh", ~raced'[r]
                PROVE  /\ held'[r] = stored'[target'[r]] /\ Accepted(held[r])'
                       /\ \A p \in Processes \ {r} : ~Working(p, target[r])'
    BY DEF Unmet
  <1>1. /\ target' = target /\ r \in Processes /\ target[r] \in Accounts /\ Account(r) = target[r]
    BY SameTarget DEF Processes, TypeOK, Account
  <1>2. /\ ~raced[r] /\ stored'[target[r]] = stored[target[r]]
        /\ \A p \in Processes \ {r} : ~Working(p, target[r]) /\ ~Working(p, target[r])'
    BY <1>1 DEF Observe
  <1>3. faults = 0
    BY DEF Kinds, Still, Loaded, Exchanged, Refused, Lost, CalledBack, Upserted, Deleted
  <1>4. /\ held'[r] = stored[target[r]] /\ Accepted(held'[r]) /\ held'[r] # NoCred
    <2>1. CASE stage[r] = "refresh" /\ held'[r] = held[r]
      BY <1>1, <1>2, <1>3, <2>1, HeldType DEF Unmet
    <2>2. CASE stage[r] = "idle" /\ stored[target[r]] # NoCred /\ held'[r] = stored[target[r]]
      <3>1. \A q \in Requests : ~(stage[q] = "write" /\ target[q] = target[r])
        BY <1>2, <2>2 DEF Working, Account, Processes
      <3>. QED
        BY <1>1, <1>3, <2>2, <3>1 DEF RefreshTokenKept
    <2>. QED
      BY <2>1, <2>2, RefreshStarts
  <1>5. current'[held'[r].grant] = current[held'[r].grant]
    <2>. DEFINE g == stored[target[r]].grant
    <2>1. /\ g \in Grants /\ stored[target[r]] # NoCred
      BY <1>1, <1>4, StoredType
    <2>2. ASSUME NEW q \in Requests, stage[q] = "refresh", stage'[q] # "refresh"
          PROVE  held[q].grant # g
      <3>1. q \in Processes \ {r} /\ held[q] # NoCred
        BY <2>2, HeldType DEF Processes
      <3>2. Account(q) # target[r]
        BY <1>2, <2>2, <3>1 DEF Working
      <3>. QED
        BY <1>1, <2>1, <3>1, <3>2, SameAccount
    <2>3. ASSUME NEW f \in Flows, stage[f] = "asked" PROVE f # g
      BY <1>1, <2>1, <2>3 DEF Unseen
    <2>4. current'[g] = current[g]
      <3>. HIDE DEF g
      <3>. QED
        BY <2>1, <2>2, <2>3, CurrentChanges
    <2>. QED
      BY <1>4, <2>4
  <1>. QED
    BY <1>1, <1>2, <1>4, <1>5 DEF Accepted

---------------------------------------------------------------------------

\* It holds at the start.
LEMMA InitIInv == Init => IInv
  <1>. SUFFICES ASSUME Init PROVE IInv
    OBVIOUS
  <1>1. /\ \A p \in Processes : stage[p] = "idle" /\ held[p] = NoCred
        /\ stage = [p \in Processes |-> "idle"] /\ held = [p \in Processes |-> NoCred]
        /\ listed = [p \in Processes |-> {}] /\ now = 0 /\ faults = 0
    BY DEF Init
  <1>2. /\ target \in [Requests -> Accounts]
        /\ \A a \in Accounts : stored[a] \in Initially[a]
        /\ stored \in [Accounts -> UNION {Initially[a] : a \in Accounts}]
    BY DEF Init
  <1>3. /\ stored \in [Accounts -> Creds \union {NoCred}]
        /\ \A a \in Accounts : stored[a] # NoCred => stored[a] \in Creds /\ stored[a].grant = a
    <2>1. \A a \in Accounts : Initially[a] \subseteq Creds \union {NoCred}
      BY OAuthAssumption
    <2>2. \A a \in Accounts : \A c \in Initially[a] \ {NoCred} : c.grant = a
      BY OAuthAssumption
    <2>. QED
      BY <1>2, <2>1, <2>2
  <1>4. \A a \in Accounts : a \notin Flows /\ a \in Grants /\ Home(a) = a
    BY OAuthAssumption DEF Grants, Home
  <1>5. /\ current = [g \in Grants |->
             IF g \in Accounts /\ stored[g] # NoCred THEN stored[g].refresh ELSE 0]
    BY DEF Init
  <1>6. current \in [Grants -> Nat]
    BY <1>3, <1>5 DEF Creds
  <1>7. \A a \in Accounts : stored[a] # NoCred =>
          /\ stored[a].grant = a /\ Home(stored[a].grant) = a
          /\ current[a] = stored[a].refresh /\ stored[a].refresh \in Nat
    BY <1>3, <1>4, <1>5 DEF Creds
  <1>8. TypeOK
    <2>1. now \in 0 .. MaxTime /\ faults \in 0 .. MaxFaults
      BY <1>1, OAuthAssumption
    <2>2. /\ stage \in [Processes -> Stages] /\ held \in [Processes -> Creds \union {NoCred}]
          /\ listed \in [Processes -> SUBSET Providers]
      BY <1>1 DEF Stages
    <2>3. raced \in [Requests -> BOOLEAN] /\ spoiled \in BOOLEAN
      BY DEF Init
    <2>4. /\ backend \in Backends /\ index \subseteq Providers
          /\ answer \in [outcome : {"", "token", "not_found", "borrowed", "no_refresh", "failed"},
                         cred : Creds \union {NoCred}]
      BY DEF Init
    <2>. QED
      BY <1>1, <1>2, <1>3, <1>6, <1>7, <2>1, <2>2, <2>3, <2>4 DEF TypeOK
  <1>9. Roles /\ Unseen /\ Serial /\ Unmet
    <2>1. \A r \in Requests : stage[r] = "idle"
      BY <1>1 DEF Processes
    <2>2. Roles /\ Serial /\ Unmet
      BY <1>1, <2>1 DEF Roles, Serial, Unmet
    <2>3. Unseen
      BY <1>1, <1>4, <1>7 DEF Unseen
    <2>. QED
      BY <2>2, <2>3
  <1>10. Behind
    BY <1>1, <1>7 DEF Behind
  <1>11. RefreshTokenKept
    BY <1>7 DEF RefreshTokenKept, Accepted
  <1>. QED
    BY <1>8, <1>9, <1>10, <1>11 DEF IInv

\* Every step keeps it.
LEMMA NextIInv == IInv /\ [Next]_vars => IInv'
  <1>. SUFFICES ASSUME IInv, [Next]_vars PROVE IInv'
    OBVIOUS
  <1>1. TypeOK /\ Roles /\ Unseen /\ Behind /\ Serial /\ RefreshTokenKept /\ Unmet
    BY DEF IInv
  <1>2. Kinds
    BY <1>1, EveryStep
  <1>3. TypeOK' /\ Roles' /\ Unseen' /\ Behind' /\ Serial' /\ RefreshTokenKept'
    BY <1>1, <1>2, StepType, StepRoles, StepUnseen, StepBehind, StepSerial, StepKept
  <1>4. Unmet'
    <2>1. CASE Next
      BY <1>1, <1>2, <2>1, StepUnmet DEF Next
    <2>2. CASE UNCHANGED vars
      BY <1>1, <2>2 DEF vars, Unmet, Accepted, Working, Account
    <2>. QED
      BY <2>1, <2>2
  <1>. QED
    BY <1>3, <1>4 DEF IInv

\* The inductive invariant.
THEOREM Invariance == Spec => []IInv
  BY InitIInv, NextIInv, PTL DEF Spec

\* Credentials stay with their account: what is stored, refreshed and written
\* back for an account is a token of a login of that account.
THEOREM TypeCorrect == Spec => []TypeOK
  <1>1. IInv => TypeOK
    BY DEF IInv
  <1>. QED
    BY <1>1, Invariance, PTL

\* No refresh token is lost (resolve_oauth_access_token_using_client): without
\* faults, what an account stores is accepted, or its successor is on its way.
THEOREM RefreshTokensAreKept == Spec => []RefreshTokenKept
  <1>1. IInv => RefreshTokenKept
    BY DEF IInv
  <1>. QED
    BY <1>1, Invariance, PTL

\* A refresh fails only by a fault or in a race (RefreshFailed).
THEOREM FailuresAreExplained == Spec => FailureExplained
  <1>. DEFINE Explained == \A r \in Requests :
         stage[r] = "refresh" /\ stage'[r] = "done" => faults' > 0 \/ raced[r]
  <1>1. IInv /\ [Next]_vars => [Explained]_vars
    <2>. SUFFICES ASSUME IInv, [Next]_vars, NEW r \in Requests,
                         stage[r] = "refresh", stage'[r] = "done", ~(faults' > 0)
                  PROVE  raced[r]
      OBVIOUS
    <2>1. TypeOK /\ Unmet /\ TypeOK' /\ Kinds /\ r \in Processes
      BY NextIInv, EveryStep DEF IInv, Processes
    <2>2. faults' = 0
      <3>1. faults' \in 0 .. MaxFaults
        BY <2>1 DEF TypeOK
      <3>2. MaxFaults \in Nat
        BY OAuthAssumption
      <3>. QED
        BY <3>1, <3>2
    <2>3. faults = 0
      BY <2>1, <2>2 DEF Kinds, Still, Loaded, Exchanged, Refused, Lost, CalledBack, Upserted,
                        Deleted
    <2>4. ~Accepted(held[r])
      <3>1. ~Still
        BY <2>1, <2>2 DEF Still
      <3>2. \A q \in Processes : Others(q) => q = r
        BY <2>1 DEF Others
      <3>3. \A q \in Requests : Loaded(q) \/ Exchanged(q) => Others(q) /\ stage'[q] # "done"
        BY DEF Loaded, Exchanged
      <3>4. \A q \in Requests : ~Lost(q)
        BY <2>2 DEF Lost
      <3>5. /\ \A q \in Processes : Upserted(q) => Others(q) /\ stage[q] # "refresh"
            /\ \A q \in Flows : CalledBack(q) => Others(q) /\ stage[q] # "refresh"
            /\ \A q \in Deletions : Deleted(q) => Others(q) /\ stage[q] # "refresh"
        BY DEF Upserted, CalledBack, Deleted
      <3>6. PICK q \in Requests : Refused(q)
        BY <2>1, <3>1, <3>2, <3>3, <3>4, <3>5 DEF Kinds, Processes
      <3>. QED
        BY <3>2, <3>6 DEF Refused, Processes
    <2>. QED
      BY <2>1, <2>3, <2>4 DEF Unmet
  <1>. QED
    <2>1. Spec => [][Explained]_vars
      BY <1>1, Invariance, PTL DEF Spec
    <2>. QED
      BY <2>1 DEF FailureExplained

---------------------------------------------------------------------------
(* The keychain's list of providers.                                       *)

\* The list is right about provider v.
Right(v) ==
  /\ stored[<<v, Default>>] # NoCred => v \in index
  /\ v \in index => \E l \in Labels : stored[<<v, l>>] # NoCred

(***************************************************************************)
(* One process at a time edits the list.  It knows what the list holds,    *)
(* and what it is to add is stored, or what it is to remove is not; the    *)
(* list is right about every provider that nobody is editing.              *)
(***************************************************************************)
ListInv == backend = "keychain" /\ ~spoiled =>
  /\ \A p, q \in Processes : InList(p) /\ InList(q) => p = q
  /\ \A p \in Processes : InList(p) => (p \in Deletions <=> stored[Account(p)] = NoCred)
  /\ \A p \in Processes : stage[p] = "put" => listed[p] = index
  /\ \A v \in Providers : (\A p \in Processes : InList(p) => Provider(p) # v) => Right(v)

\* A step that leaves the store and the list alone, and whoever edits it.
OutsideList ==
  /\ UNCHANGED <<stored, index>>
  /\ \A p \in Processes :
       /\ InList(p)' <=> InList(p)
       /\ stage'[p] = "put" => stage[p] = "put" /\ listed'[p] = listed[p]

\* Such a step keeps the invariant.
LEMMA OutsideKeeps ==
  ASSUME ListInv, OutsideList, UNCHANGED <<backend, target>>, ~spoiled' => ~spoiled
  PROVE  ListInv'
  <1>1. \A p \in Processes : Account(p)' = Account(p) /\ Provider(p)' = Provider(p)
    BY DEF Account, Provider
  <1>. QED
    BY <1>1 DEF ListInv, OutsideList, Right

\* Unless it is spoiled, nobody enters the list while another process is inside,
\* and a fault finds nobody there.
LEMMA NoClash ==
  ASSUME Observe, ~spoiled'
  PROVE  /\ ~spoiled
         /\ \A p, q \in Processes : InList(p)' /\ InList(q)' => p = q
         /\ faults' # faults => \A p \in Processes : ~InList(p)
  BY DEF Observe

\* A refresh, a login or a tick happens outside the list.
LEMMA StaysOutside ==
  ASSUME TypeOK,
         \/ Tick
         \/ \E r \in Requests : Resolve(r) \/ Exchange(r)
         \/ \E f \in Flows : Login(f) \/ Callback(f)
  PROVE  OutsideList /\ UNCHANGED <<backend, target, faults>>
  <1>1. CASE Tick
    BY <1>1 DEF Tick, OutsideList, InList
  <1>2. ASSUME NEW p \in Processes, stage[p] \in {"idle", "asked", "refresh"},
               UNCHANGED <<stored, index>>,
               \E s \in {"refresh", "asked", "write", "done"} : \E c : Goto(p, s, c)
        PROVE  OutsideList
    <2>1. \A q \in Processes : q # p => stage'[q] = stage[q] /\ listed'[q] = listed[q]
      BY <1>2 DEF TypeOK, Goto
    <2>2. stage'[p] \notin {"index", "put"}
      BY <1>2 DEF TypeOK, Goto
    <2>. QED
      BY <1>2, <2>1, <2>2 DEF OutsideList, InList
  <1>3. Requests \subseteq Processes /\ Flows \subseteq Processes
    BY DEF Processes
  <1>4. ASSUME NEW r \in Requests, Resolve(r)
        PROVE  /\ stage[r] = "idle" /\ UNCHANGED <<stored, index, backend, target, faults>>
               /\ \E s \in {"refresh", "asked", "write", "done"} : \E c : Goto(r, s, c)
    BY <1>4 DEF Resolve, Finish
  <1>5. ASSUME NEW r \in Requests, Exchange(r)
        PROVE  /\ stage[r] = "refresh" /\ UNCHANGED <<stored, index, backend, target, faults>>
               /\ \E s \in {"refresh", "asked", "write", "done"} : \E c : Goto(r, s, c)
    BY <1>5 DEF Exchange, Finish
  <1>6. ASSUME NEW f \in Flows, Login(f) \/ Callback(f)
        PROVE  /\ stage[f] \in {"idle", "asked"}
               /\ UNCHANGED <<stored, index, backend, target, faults>>
               /\ \E s \in {"refresh", "asked", "write", "done"} : \E c : Goto(f, s, c)
    BY <1>6 DEF Login, Callback
  <1>7. UNCHANGED <<backend, target, faults>>
    BY <1>4, <1>5, <1>6 DEF Tick
  <1>. QED
    BY <1>1, <1>2, <1>3, <1>4, <1>5, <1>6, <1>7

\* Only p moves, and the store and the bindings of the keys are what they were.
Moves(p) ==
  /\ UNCHANGED <<backend, target, faults>>
  /\ \A q \in Processes : q # p => stage'[q] = stage[q] /\ listed'[q] = listed[q]

\* An entry is stored or deleted, and its process enters the list.
LEMMA EntersList ==
  ASSUME TypeOK, ListInv, Observe, ~spoiled', NEW p \in Processes, Moves(p),
         ~InList(p), stage'[p] = "index", index' = index,
         NEW c, p \in Deletions <=> c = NoCred,
         stored' = [stored EXCEPT ![Account(p)] = c]
  PROVE  ListInv'
  <1>. SUFFICES ASSUME backend = "keychain" PROVE ListInv'
    BY DEF ListInv, Moves
  <1>1. \A q \in Processes : Account(q)' = Account(q) /\ Provider(q)' = Provider(q)
    BY DEF Account, Provider, Moves
  <1>2. ~spoiled /\ \A q \in Processes : InList(q)' => q = p
    BY NoClash DEF InList
  <1>3. \A q \in Processes : ~InList(q)
    BY <1>2 DEF InList, Moves
  <1>4. \A v \in Providers : Right(v)
    BY <1>2, <1>3 DEF ListInv
  <1>5. Account(p) \in Accounts /\ stored \in [Accounts -> Creds \union {NoCred}]
    BY AccountType DEF TypeOK
  <1>6. stored'[Account(p)] = c
    BY <1>5
  <1>7. ASSUME NEW v \in Providers, v # Provider(p) PROVE Right(v)'
    <2>1. \A l : <<v, l>> # Account(p)
      BY <1>7 DEF Provider
    <2>2. \A l \in Labels : stored'[<<v, l>>] = stored[<<v, l>>]
      BY <1>5, <2>1 DEF Accounts
    <2>3. Default \in Labels
      BY OAuthAssumption
    <2>. QED
      BY <1>4, <2>2, <2>3 DEF Right
  <1>8. InList(p)' /\ \A q \in Processes : stage'[q] # "put"
    BY <1>2 DEF InList
  <1>. QED
    BY <1>1, <1>2, <1>6, <1>7, <1>8 DEF ListInv

\* The process reads the list to edit it.
LEMMA ReadsList ==
  ASSUME TypeOK, ListInv, NEW p \in Processes, Moves(p), ~spoiled' => ~spoiled,
         InList(p), stage'[p] = "put", listed'[p] = index, UNCHANGED <<stored, index>>
  PROVE  ListInv'
  <1>1. \A q \in Processes : Account(q)' = Account(q) /\ Provider(q)' = Provider(q)
    BY DEF Account, Provider, Moves
  <1>2. \A q \in Processes : InList(q)' <=> InList(q)
    BY DEF InList, Moves
  <1>3. \A q \in Processes \ {p} : stage'[q] = "put" => stage[q] = "put" /\ listed'[q] = listed[q]
    BY DEF Moves
  <1>4. UNCHANGED <<backend, faults>>
    BY DEF Moves
  <1>. QED
    BY <1>1, <1>2, <1>3, <1>4 DEF ListInv, Right

\* The process leaves the list as it has to be.
LEMMA LeavesList ==
  ASSUME TypeOK, ListInv, NEW p \in Processes, Moves(p), ~spoiled' => ~spoiled,
         InList(p), stage'[p] = "done", stored' = stored, ~spoiled => index' = Edited(p, index)
  PROVE  ListInv'
  <1>. SUFFICES ASSUME backend = "keychain", ~spoiled PROVE ListInv'
    BY DEF ListInv, Moves
  <1>1. \A q \in Processes : ~InList(q)' /\ stage'[q] # "put"
    BY DEF ListInv, InList, Moves
  <1>2. /\ \A v \in Providers \ {Provider(p)} : Right(v)
        /\ p \in Deletions <=> stored[Account(p)] = NoCred
    BY DEF ListInv
  <1>3. \A v \in Providers \ {Provider(p)} : Right(v)'
    BY <1>2 DEF Right, Edited
  <1>4. ASSUME NEW v \in Providers, v = Provider(p) PROVE Right(v)'
    <2>1. CASE p \in Deletions
      <3>1. Account(p) = <<v, Default>> /\ stored'[<<v, Default>>] = NoCred
        BY <1>2, <1>4, <2>1, OAuthAssumption DEF Account, Provider
      <3>2. v \notin index'
        BY <1>4, <2>1 DEF Edited
      <3>. QED
        BY <3>1, <3>2 DEF Right
    <2>2. CASE p \notin Deletions
      <3>1. PICK l \in Labels : Account(p) = <<v, l>>
        BY <1>4, AccountType DEF Accounts, Provider
      <3>2. v \in index' /\ stored'[<<v, l>>] # NoCred
        BY <1>2, <1>4, <2>2, <3>1 DEF Edited
      <3>. QED
        BY <3>2 DEF Right
    <2>. QED
      BY <2>1, <2>2
  <1>. QED
    BY <1>1, <1>3, <1>4 DEF ListInv

\* Every step keeps the invariant.
LEMMA ListStep ==
  ASSUME TypeOK, Roles, ListInv, [Next]_vars
  PROVE  ListInv'
  <1>1. CASE UNCHANGED vars
    <2>1. OutsideList /\ UNCHANGED <<backend, target, spoiled>>
      BY <1>1 DEF vars, OutsideList, InList
    <2>. QED
      BY <2>1, OutsideKeeps
  <1>. SUFFICES ASSUME Next, Observe PROVE ListInv'
    BY <1>1 DEF Next
  <1>2. ~spoiled' => ~spoiled
    BY NoClash
  <1>3. ASSUME \/ Tick
               \/ \E r \in Requests : Resolve(r) \/ Exchange(r)
               \/ \E f \in Flows : Login(f) \/ Callback(f)
        PROVE  ListInv'
    BY <1>2, <1>3, StaysOutside, OutsideKeeps
  <1>4. ASSUME Fault, \A p \in Processes : ~InList(p) => ~InList(p)',
               UNCHANGED <<backend, target, stored, index>>
        PROVE  ListInv'
    <2>. SUFFICES ASSUME ~spoiled' PROVE ListInv'
      BY DEF ListInv
    <2>1. \A p \in Processes : ~InList(p) /\ ~InList(p)'
      <3>1. faults \in 0 .. MaxFaults /\ faults' = faults + 1
        BY <1>4 DEF Fault, TypeOK
      <3>2. faults' # faults
        BY <3>1
      <3>. QED
        BY <1>4, <3>2, NoClash
    <2>2. OutsideList
      BY <1>4, <2>1 DEF OutsideList, InList
    <2>. QED
      BY <1>2, <1>4, <2>2, OutsideKeeps
  <1>5. ASSUME spoiled' PROVE ListInv'
    BY <1>5 DEF ListInv
  <1>6. ASSUME backend' # "keychain" PROVE ListInv'
    BY <1>6 DEF ListInv
  <1>7. ASSUME NEW p \in Processes, Upsert(p) PROVE ListInv'
    <2>. SUFFICES ASSUME ~spoiled', backend' = "keychain" PROVE ListInv'
      BY <1>5, <1>6
    <2>1. /\ Goto(p, "index", held[p]) /\ index' = index /\ stage[p] = "write"
          /\ stored' = [stored EXCEPT ![Account(p)] = held[p]]
          /\ UNCHANGED <<backend, target, faults>> /\ p \notin Deletions
      BY <1>7 DEF Upsert, Target
    <2>2. held[p] # NoCred /\ ~InList(p)
      BY <2>1 DEF TypeOK, InList
    <2>3. Moves(p) /\ stage'[p] = "index"
      BY <2>1 DEF TypeOK, Goto, Moves
    <2>. QED
      BY <2>1, <2>2, <2>3, EntersList
  <1>8. ASSUME NEW d \in Deletions, Delete(d) PROVE ListInv'
    <2>. SUFFICES ASSUME ~spoiled', backend' = "keychain" PROVE ListInv'
      BY <1>5, <1>6
    <2>1. /\ d \in Processes /\ index' = index /\ stage[d] = "idle" /\ ~InList(d)
          /\ stored' = [stored EXCEPT ![Account(d)] = NoCred]
          /\ UNCHANGED <<backend, target, faults>>
      BY <1>8 DEF Delete, Processes, InList
    <2>2. CASE stored[Account(d)] # NoCred
      <3>1. Goto(d, "index", NoCred)
        BY <1>8, <2>1, <2>2 DEF Delete
      <3>2. Moves(d) /\ stage'[d] = "index"
        BY <2>1, <3>1 DEF TypeOK, Goto, Moves
      <3>. QED
        BY <2>1, <3>2, EntersList
    <2>3. CASE stored[Account(d)] = NoCred
      <3>1. Goto(d, "done", NoCred)
        BY <1>8, <2>3 DEF Delete, Finish
      <3>2. stored' = stored
        <4>1. stored \in [Accounts -> Creds \union {NoCred}]
          BY DEF TypeOK
        <4>. QED
          BY <2>1, <2>3, <4>1
      <3>3. OutsideList
        BY <2>1, <3>1, <3>2 DEF TypeOK, Goto, OutsideList, InList
      <3>. QED
        BY <1>2, <2>1, <3>3, OutsideKeeps
    <2>. QED
      BY <2>2, <2>3
  <1>9. ASSUME NEW p \in Processes, ReadIndex(p) PROVE ListInv'
    <2>1. /\ InList(p) /\ UNCHANGED <<backend, target, stored, index, faults>>
      BY <1>9 DEF ReadIndex, ReadList, InList
    <2>2. CASE Edited(p, index) = index
      <3>1. Goto(p, "done", NoCred)
        BY <1>9, <2>2 DEF ReadIndex, ReadList, Finish
      <3>2. Moves(p) /\ stage'[p] = "done"
        BY <2>1, <3>1 DEF TypeOK, Goto, Moves
      <3>. QED
        BY <1>2, <2>1, <2>2, <3>2, LeavesList
    <2>3. CASE Edited(p, index) # index
      <3>1. /\ stage' = [stage EXCEPT ![p] = "put"] /\ listed' = [listed EXCEPT ![p] = index]
        BY <1>9, <2>3 DEF ReadIndex, ReadList
      <3>2. Moves(p) /\ stage'[p] = "put" /\ listed'[p] = index
        BY <2>1, <3>1 DEF TypeOK, Moves
      <3>. QED
        BY <1>2, <2>1, <3>2, ReadsList
    <2>. QED
      BY <2>2, <2>3
  <1>10. ASSUME NEW p \in Processes, WriteIndex(p) PROVE ListInv'
    <2>. SUFFICES ASSUME ~spoiled', backend' = "keychain" PROVE ListInv'
      BY <1>5, <1>6
    <2>1. /\ InList(p) /\ UNCHANGED <<backend, target, stored, faults>> /\ stage[p] = "put"
          /\ Goto(p, "done", NoCred) /\ index' = Edited(p, listed[p])
      BY <1>10 DEF WriteIndex, InList, Finish
    <2>2. index' = Edited(p, index)
      BY <1>2, <2>1 DEF ListInv
    <2>3. Moves(p) /\ stage'[p] = "done"
      BY <2>1 DEF TypeOK, Goto, Moves
    <2>. QED
      BY <1>2, <2>1, <2>2, <2>3, LeavesList
  <1>11. CASE Crash
    <2>1. \A p \in Processes : ~InList(p)'
      BY <1>11 DEF Crash, InList
    <2>. QED
      BY <1>4, <1>11, <2>1 DEF Crash
  <1>12. ASSUME NEW p \in Processes,
                \/ p \in Requests /\ AnswerLost(p)
                \/ StoreFails(p)
         PROVE  ListInv'
    <2>1. Finish(p, "failed", NoCred) /\ Fault /\ UNCHANGED <<backend, target, stored, index>>
      BY <1>12 DEF AnswerLost, StoreFails
    <2>2. \A q \in Processes : ~InList(q) => ~InList(q)'
      BY <2>1 DEF Finish, Goto, InList, TypeOK
    <2>. QED
      BY <1>4, <2>1, <2>2
  <1>13. ASSUME NEW p \in Processes, MisreadIndex(p) PROVE ListInv'
    <2>1. /\ Fault /\ InList(p) /\ UNCHANGED <<backend, target, stored, index>>
          /\ \A q \in Processes : ~InList(q) => ~InList(q)'
      BY <1>13 DEF MisreadIndex, ReadList, Finish, Goto, InList, TypeOK
    <2>. QED
      BY <1>4, <2>1
  <1>14. Requests \subseteq Processes
    BY DEF Processes
  <1>. QED
    BY <1>3, <1>7, <1>8, <1>9, <1>10, <1>11, <1>12, <1>13, <1>14 DEF Next

\* The keychain's list goes wrong only from inside (index_add, index_remove): it
\* names every provider with a default login and none without any, unless two
\* processes met in it, or a failed write, a misread entry or a crash hit one that
\* was in it, whatever else is lost, fails or crashes.
THEOREM TheListIsRight == Spec => []IndexRight
  <1>1. Init => ListInv
    <2>. SUFFICES ASSUME Init PROVE ListInv
      OBVIOUS
    <2>1. Default \in Labels
      BY OAuthAssumption
    <2>2. \A v \in Providers : Right(v)
      BY <2>1 DEF Init, Right
    <2>3. \A p \in Processes : stage[p] = "idle"
      BY DEF Init
    <2>. QED
      BY <2>2, <2>3 DEF ListInv, InList
  <1>2. IInv => TypeOK /\ Roles
    BY DEF IInv
  <1>3. TypeOK /\ Roles /\ ListInv /\ [Next]_vars => ListInv'
    BY ListStep
  <1>4. ListInv => IndexRight
    BY DEF ListInv, IndexRight, Right
  <1>. QED
    BY <1>1, <1>2, <1>3, <1>4, Invariance, PTL DEF Spec
=============================================================================
