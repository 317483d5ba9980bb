--------------------------- MODULE KeyUsageProofs ---------------------------
(***************************************************************************)
(* Theorems about KeyUsage, for any keys, budgets, windows and costs, any  *)
(* finite number of concurrent requests, and any bounds.                   *)
(***************************************************************************)
EXTENDS KeyUsage, FiniteSetTheorems, TLAPS

\* What a window's spending stays below, also when a set of workers S adds to it.
Cap(k) == Budget[k] + Cardinality(Workers) * MaxCost

Fits(k, window, S) == window + Cardinality(S) * MaxCost < Cap(k)

Upstream(k) == {w \in Workers : work[w].at = "upstream" /\ work[w].key = k}

Enabled(k) == ~row[k].disabled

\* Every request knows a key that exists.
WorkOnKeys ==
  \A w \in Workers : work[w].at # "idle" => work[w].key \in DOMAIN row

\* Only a disabled key is evicted, so an enabled one is always cached.
EnabledAreCached ==
  /\ \A k \in evicting : k \in DOMAIN row /\ ~Enabled(k)
  /\ \A k \in DOMAIN row : Enabled(k) => k \in DOMAIN cache

\* The background task holds usage only while it syncs, of one key at a time.
SyncShape ==
  /\ ~syncing => flush = {} /\ DOMAIN held = {}
  /\ DOMAIN held \subseteq DOMAIN row
  /\ \A j, k \in DOMAIN held : j = k

\* Spending, and what the requests that were admitted may still add to it.
CapKept ==
  \A k \in DOMAIN row : Budget[k] > 0 /\ Enabled(k) =>
    /\ row[k].usage.window < Cap(k)
    /\ k \in DOMAIN held => held[k].window < Cap(k)
    /\ Fits(k, cache[k].usage.window, Upstream(k))

\* The row is behind what the sync holds, which is behind the cache.
TotalsOrdered ==
  \A k \in DOMAIN row : Enabled(k) =>
    /\ row[k].usage.total <= cache[k].usage.total
    /\ k \in DOMAIN held => /\ row[k].usage.total <= held[k].total
                            /\ held[k].total <= cache[k].usage.total

\* Another sync of the key is asked for or will be, or nobody expects one.
Followed(k) == chan[k] > 0 \/ Charging(k) # {} \/ k \in dropped \/ ~Enabled(k)

\* Usage that was charged after the sync read it will be synced again.
HeldIsCurrentOrFollowed ==
  \A k \in DOMAIN held :
    (k \in DOMAIN cache /\ held[k] = cache[k].usage) \/ Followed(k)

IInv ==
  /\ TypeOK
  /\ WorkOnKeys
  /\ EnabledAreCached
  /\ SyncShape
  /\ CapKept
  /\ TotalsOrdered
  /\ HeldIsCurrentOrFollowed
  /\ UnsyncedIsScheduled

-----------------------------------------------------------------------------
(* Types.                                                                  *)

\* Put changes one entry, Drop takes one out, and neither touches another.
LEMMA PutAt ==
  ASSUME NEW f, NEW x, NEW v
  PROVE  /\ DOMAIN Put(f, x, v) = DOMAIN f \cup {x}
         /\ Put(f, x, v)[x] = v
         /\ \A y \in DOMAIN f \ {x} : Put(f, x, v)[y] = f[y]
  BY DEF Put

\* See PutAt.
LEMMA DropAt ==
  ASSUME NEW f, NEW x
  PROVE  /\ DOMAIN Drop(f, x) = DOMAIN f \ {x}
         /\ \A y \in DOMAIN f \ {x} : Drop(f, x)[y] = f[y]
  BY DEF Drop

\* Both keep a function's values in a set.
LEMMA PutType ==
  ASSUME NEW R, NEW f, f \in [DOMAIN f -> R], NEW x, NEW v \in R
  PROVE  Put(f, x, v) \in [DOMAIN Put(f, x, v) -> R]
  BY DEF Put

\* See PutType.
LEMMA DropType ==
  ASSUME NEW R, NEW f, f \in [DOMAIN f -> R], NEW x
  PROVE  Drop(f, x) \in [DOMAIN Drop(f, x) -> R]
  BY DEF Drop

\* A charge adds its cost to the total and sets the window to at most the old
\* spending plus the cost.
LEMMA ChargedFacts ==
  ASSUME now \in Nat, NEW k \in Keys, NEW u \in Usage, NEW c \in Costs
  PROVE  /\ Charged(k, u, c) \in Usage
         /\ Charged(k, u, c).total = u.total + c
         /\ Charged(k, u, c).window \in {c, u.window + c}
         /\ c \in Nat /\ c <= MaxCost
  <1>1. c \in Nat /\ c <= MaxCost
    BY KeyUsageAssumption
  <1>2. u.total \in Nat /\ u.window \in Nat /\ u.start \in Nat \cup {Unset}
    BY DEF Usage
  <1>3. CASE ShouldReset(Window[k], u.start, now)
    <2>1. Charged(k, u, c) = [total |-> u.total + c, window |-> c, start |-> now]
      BY <1>3 DEF Charged
    <2>. QED
      BY <1>1, <1>2, <2>1 DEF Usage
  <1>4. CASE ~ShouldReset(Window[k], u.start, now)
    <2>1. Charged(k, u, c) = [u EXCEPT !.total = @ + c, !.window = @ + c]
      BY <1>4 DEF Charged
    <2>2. Charged(k, u, c)
            = [total |-> u.total + c, window |-> u.window + c, start |-> u.start]
      BY <2>1 DEF Usage
    <2>. QED
      BY <1>1, <1>2, <2>2 DEF Usage
  <1>. QED
    BY <1>3, <1>4

\* What is published has the shape of a row, and a cached key's own usage.
LEMMA PublishedFacts ==
  ASSUME TypeOK, NEW k \in Keys, NEW r \in Row
  PROVE  /\ Published(k, r) \in Row
         /\ Published(k, r).disabled = r.disabled
         /\ k \in DOMAIN cache => Published(k, r).usage = cache[k].usage
  BY DEF Published, TypeOK, Row

\* Every step keeps every variable in its type.
LEMMA TypeStep == IInv /\ [Next]_vars => TypeOK'
  <1>. SUFFICES ASSUME IInv, [Next]_vars PROVE TypeOK'
    OBVIOUS
  <1>a. row \in [DOMAIN row -> Row] /\ cache \in [DOMAIN cache -> Row]
        /\ held \in [DOMAIN held -> Usage]
    BY DEF IInv, TypeOK
  <1>. USE KeyUsageAssumption DEF IInv, TypeOK, store, sync
  <1>1. CASE Tick
    BY <1>1 DEF Tick
  <1>2. ASSUME NEW k \in Keys, CreateKey(k) PROVE TypeOK'
    <2>. DEFINE r == [disabled |-> FALSE, usage |-> NoUsage]
    <2>1. r \in Row
      BY DEF Row, Usage, NoUsage
    <2>2. row' = Put(row, k, r) /\ cache' = Put(cache, k, r)
      BY <1>2 DEF CreateKey
    <2>. HIDE DEF r
    <2>3. /\ DOMAIN row' = DOMAIN row \cup {k} /\ row' \in [DOMAIN row' -> Row]
          /\ DOMAIN cache' = DOMAIN cache \cup {k}
          /\ cache' \in [DOMAIN cache' -> Row]
      BY <1>a, <2>1, <2>2, PutAt, PutType
    <2>. QED
      BY <1>2, <2>3 DEF CreateKey
  <1>3. ASSUME NEW k \in Keys, Disable(k) PROVE TypeOK'
    BY <1>3 DEF Disable, Row
  <1>4. ASSUME NEW k \in Keys, Evict(k) PROVE TypeOK'
    <2>1. cache' = Drop(cache, k)
      BY <1>4 DEF Evict
    <2>2. DOMAIN cache' = DOMAIN cache \ {k}
      BY <2>1, DropAt
    <2>3. cache' \in [DOMAIN cache' -> Row]
      BY <1>a, <2>1, DropType
    <2>. QED
      BY <1>4, <2>2, <2>3 DEF Evict
  <1>5. ASSUME NEW w \in Workers, NEW k \in Keys, AuthRead(w, k) PROVE TypeOK'
    <2>1. [at |-> "read", key |-> k, row |-> row[k]] \in Work
      BY <1>5 DEF AuthRead, Work
    <2>. QED
      BY <1>5, <2>1 DEF AuthRead
  <1>6. ASSUME NEW w \in Workers, Admit(w) \/ Refuse(w) PROVE TypeOK'
    <2>. DEFINE k == work[w].key
                key == Published(k, work[w].row)
    <2>1. k \in Keys /\ work[w].row \in Row /\ k \in DOMAIN row
      BY <1>6 DEF Admit, Refuse, Work, WorkOnKeys
    <2>2. key \in Row
      BY <2>1, PublishedFacts
    <2>3. cache' = Put(cache, k, key)
      BY <1>6 DEF Admit, Refuse
    <2>. HIDE DEF key
    <2>4. DOMAIN cache' = DOMAIN cache \cup {k}
      BY <2>3, PutAt
    <2>5. cache' \in [DOMAIN cache' -> Row]
      BY <1>a, <2>2, <2>3, PutType
    <2>6. work' \in [Workers -> Work]
      <3>1. [at |-> "upstream", key |-> k] \in Work /\ Idle \in Work
        BY <2>1 DEF Work, Idle
      <3>. QED
        BY <1>6, <3>1 DEF Admit, Refuse
    <2>. QED
      BY <1>6, <2>1, <2>4, <2>5, <2>6 DEF Admit, Refuse
  <1>7. ASSUME NEW w \in Workers, UpstreamFails(w) PROVE TypeOK'
    <2>1. Idle \in Work
      BY DEF Work, Idle
    <2>. QED
      BY <1>7, <2>1 DEF UpstreamFails
  <1>8. ASSUME NEW w \in Workers, NEW c \in Costs, Charge(w, c) PROVE TypeOK'
    <2>. DEFINE k == work[w].key
    <2>1. k \in Keys
      BY <1>8 DEF Charge, Work
    <2>2. c \in Nat
      OBVIOUS
    <2>3. [at |-> "charged", key |-> k, cost |-> c] \in Work
      BY <2>1, <2>2 DEF Work
    <2>4. DOMAIN cache' = DOMAIN cache /\ cache' \in [DOMAIN cache' -> Row]
      <3>1. CASE k \in DOMAIN cache
        <4>1. cache[k].usage \in Usage
          BY <3>1 DEF Row
        <4>2. Charged(k, cache[k].usage, c) \in Usage
          BY <2>1, <4>1, ChargedFacts
        <4>. QED
          BY <1>8, <3>1, <4>2 DEF Charge, Row
      <3>2. CASE k \notin DOMAIN cache
        BY <1>8, <3>2 DEF Charge
      <3>. QED
        BY <3>1, <3>2
    <2>5. real' \in [Keys -> [spent: Nat, opened: Nat \cup {Unset}, lost: Nat]]
      <3>1. \A s \in Nat \cup {Unset} :
              Billed(k, s, c) \in [spent: Nat, opened: Nat \cup {Unset}, lost: Nat]
        <4>1. real[k] \in [spent: Nat, opened: Nat \cup {Unset}, lost: Nat] /\ now \in Nat
          BY <2>1
        <4>2. /\ real[k].spent + c \in Nat /\ real[k].opened \in Nat \cup {Unset}
              /\ real[k].lost \in Nat /\ now \in Nat
          BY ONLY <2>2, <4>1
        <4>3. real[k] = [spent |-> real[k].spent, opened |-> real[k].opened,
                         lost |-> real[k].lost]
          BY ONLY <4>1
        <4>. SUFFICES ASSUME NEW s \in Nat \cup {Unset}
                      PROVE  Billed(k, s, c)
                               \in [spent: Nat, opened: Nat \cup {Unset}, lost: Nat]
          OBVIOUS
        <4>4. \/ Billed(k, s, c) = [spent |-> c, opened |-> now, lost |-> real[k].lost]
              \/ Billed(k, s, c) = [spent |-> real[k].spent + c, opened |-> real[k].opened,
                                    lost |-> real[k].lost]
          BY <4>3 DEF Billed
        <4>. QED
          BY ONLY <2>2, <4>2, <4>4
      <3>2. k \in DOMAIN cache => cache[k].usage.start \in Nat \cup {Unset}
        BY DEF Row, Usage
      <3>. QED
        BY <1>8, <2>1, <3>1, <3>2 DEF Charge
    <2>6. UNCHANGED <<now, row, history, evicting, sync, dropped, crashes>> /\ bills' \in Nat
      BY <1>8 DEF Charge
    <2>7. work' \in [Workers -> Work]
      BY <1>8, <2>3 DEF Charge
    <2>. QED
      BY <2>4, <2>5, <2>6, <2>7
  <1>9. ASSUME NEW w \in Workers, Record(w) \/ RecordFails(w) PROVE TypeOK'
    <2>1. work[w].key \in Keys /\ work[w].cost \in Nat
      BY <1>9 DEF Record, RecordFails, Work
    <2>2. Idle \in Work
      BY DEF Work, Idle
    <2>3. work' \in [Workers -> Work] /\ dropped' \subseteq Keys
      BY <1>9, <2>1, <2>2 DEF Record, RecordFails
    <2>4. history' \in [Keys -> Nat] /\ chan' \in [Keys -> Nat]
      <3>1. CASE Record(w)
        BY <2>1, <3>1 DEF Record
      <3>2. CASE RecordFails(w)
        BY <3>2 DEF RecordFails
      <3>. QED
        BY <1>9, <3>1, <3>2
    <2>5. UNCHANGED <<now, row, cache, evicting, pending, flush, syncing, held, bills, real,
                    crashes>>
      BY <1>9 DEF Record, RecordFails
    <2>. QED
      BY <2>3, <2>4, <2>5
  <1>10. ASSUME NEW k \in Keys, Receive(k) PROVE TypeOK'
    BY <1>10 DEF Receive
  <1>11. CASE SyncStart
    BY <1>11 DEF SyncStart
  <1>12. ASSUME NEW k \in Keys, SyncRead(k) PROVE TypeOK'
    <2>1. DOMAIN held' \subseteq DOMAIN held \cup {k} /\ held' \in [DOMAIN held' -> Usage]
      <3>1. CASE k \in DOMAIN cache
        <4>1. cache[k].usage \in Usage
          BY <3>1 DEF Row
        <4>2. held' = Put(held, k, cache[k].usage)
          BY <1>12, <3>1 DEF SyncRead
        <4>3. DOMAIN held' = DOMAIN held \cup {k}
          BY <4>2, PutAt
        <4>4. held' \in [DOMAIN held' -> Usage]
          BY <1>a, <4>1, <4>2, PutType
        <4>. QED
          BY <4>3, <4>4
      <3>2. CASE k \notin DOMAIN cache
        BY <1>12, <3>2 DEF SyncRead
      <3>. QED
        BY <3>1, <3>2
    <2>. QED
      BY <1>12, <2>1 DEF SyncRead
  <1>13. ASSUME NEW k \in Keys, SyncWrite(k) \/ SyncWriteFails(k) PROVE TypeOK'
    <2>1. DOMAIN held' \subseteq DOMAIN held /\ held' \in [DOMAIN held' -> Usage]
      <3>1. held' = Drop(held, k)
        BY <1>13 DEF SyncWrite, SyncWriteFails
      <3>2. DOMAIN held' = DOMAIN held \ {k}
        BY <3>1, DropAt
      <3>3. held' \in [DOMAIN held' -> Usage]
        BY <1>a, <3>1, DropType
      <3>. QED
        BY <3>2, <3>3
    <2>2. DOMAIN row' = DOMAIN row /\ row' \in [DOMAIN row' -> Row]
      BY <1>13 DEF SyncWrite, SyncWriteFails, Row
    <2>. QED
      BY <1>13, <2>1, <2>2 DEF SyncWrite, SyncWriteFails
  <1>14. CASE SyncEnd
    BY <1>14 DEF SyncEnd
  <1>15. CASE Restart
    <2>1. Idle \in Work
      BY DEF Work, Idle
    <2>2. DOMAIN cache' \subseteq DOMAIN row /\ cache' \in [DOMAIN cache' -> Row]
      BY <1>15 DEF Restart
    <2>3. DOMAIN held' = {} /\ held' \in [DOMAIN held' -> Usage]
      BY <1>15 DEF Restart
    <2>4. chan' \in [Keys -> Nat] /\ work' \in [Workers -> Work]
      BY <1>15, <2>1 DEF Restart
    <2>5. evicting' = {} /\ pending' = {} /\ flush' = {} /\ syncing' \in BOOLEAN
      BY <1>15 DEF Restart
    <2>6. crashes' \in Nat
      BY <1>15 DEF Restart
    <2>7. UNCHANGED <<now, row, history, dropped, bills>>
      BY <1>15 DEF Restart
    <2>8. real' \in [Keys -> [spent: Nat, opened: Nat \cup {Unset}, lost: Nat]]
      <3>. DEFINE more(k) == cache[k].usage.total - row[k].usage.total
                  there(k) == k \in DOMAIN cache' /\ k \in DOMAIN cache
      <3>1. \A k \in Keys : there(k) => more(k) \in Nat
        <4>. SUFFICES ASSUME NEW k \in Keys, there(k) PROVE more(k) \in Nat
          OBVIOUS
        <4>1. k \in DOMAIN row /\ ~row[k].disabled /\ k \in DOMAIN cache
          BY <1>15 DEF Restart
        <4>2. row[k].usage.total <= cache[k].usage.total
          BY <4>1 DEF TotalsOrdered, Enabled
        <4>3. row[k].usage.total \in Nat /\ cache[k].usage.total \in Nat
          BY <4>1, <1>a DEF Row, Usage
        <4>. QED
          BY <4>2, <4>3
      <3>2. real' = [k \in Keys |-> IF there(k) THEN [real[k] EXCEPT !.lost = @ + more(k)]
                                               ELSE real[k]]
        BY <1>15 DEF Restart
      <3>. HIDE DEF more, there
      <3>3. \A k \in Keys : there(k) =>
              [real[k] EXCEPT !.lost = @ + more(k)]
                \in [spent: Nat, opened: Nat \cup {Unset}, lost: Nat]
        BY <3>1
      <3>. QED
        BY <3>2, <3>3
    <2>. QED
      BY <2>2, <2>3, <2>4, <2>5, <2>6, <2>7, <2>8
  <1>16. CASE UNCHANGED vars
    BY <1>16 DEF vars
  <1>. QED
    BY <1>1, <1>2, <1>3, <1>4, <1>5, <1>6, <1>7, <1>8, <1>9, <1>10, <1>11,
       <1>12, <1>13, <1>14, <1>15, <1>16 DEF Next, Background

-----------------------------------------------------------------------------
(* Keys, workers and the sync.                                             *)

\* An admission or a refusal publishes a key that exists and changes nobody's
\* usage in the cache.
LEMMA PublishStep ==
  ASSUME IInv, NEW w \in Workers, Admit(w) \/ Refuse(w)
  PROVE  /\ work[w].key \in DOMAIN row
         /\ DOMAIN cache' = DOMAIN cache \cup {work[w].key}
         /\ \A j \in DOMAIN cache : cache'[j].usage = cache[j].usage
  <1>. DEFINE k == work[w].key
              key == Published(k, work[w].row)
  <1>1. work[w].at = "read" /\ cache' = Put(cache, k, key)
    BY DEF Admit, Refuse
  <1>2. k \in Keys /\ work[w].row \in Row /\ k \in DOMAIN row
    BY <1>1 DEF IInv, TypeOK, Work, WorkOnKeys
  <1>3. k \in DOMAIN cache => key.usage = cache[k].usage
    BY <1>2, PublishedFacts DEF IInv
  <1>a. cache' = Put(cache, k, key)
    BY <1>1
  <1>. HIDE DEF k, key
  <1>4. DOMAIN cache' = DOMAIN cache \cup {k}
    BY <1>a, PutAt
  <1>5. cache'[k] = key
    BY <1>a DEF Put
  <1>6. \A j \in DOMAIN cache \ {k} : cache'[j] = cache[j]
    BY <1>a DEF Put
  <1>7. \A j \in DOMAIN cache : cache'[j].usage = cache[j].usage
    BY <1>3, <1>5, <1>6
  <1>. QED
    BY <1>2, <1>4, <1>7 DEF k

\* A charge changes the usage of its own key in the cache, and nothing else.
LEMMA ChargeStep ==
  ASSUME IInv, NEW w \in Workers, NEW c \in Costs, Charge(w, c)
  PROVE  /\ work[w].key \in DOMAIN row
         /\ DOMAIN cache' = DOMAIN cache
         /\ \A j \in DOMAIN cache \ {work[w].key} : cache'[j] = cache[j]
         /\ work[w].key \in DOMAIN cache =>
              LET old == cache[work[w].key].usage
                  new == cache'[work[w].key].usage
              IN  /\ old \in Usage /\ new \in Usage
                  /\ new.total = old.total + c
                  /\ new.window \in {c, old.window + c}
                  /\ c \in Nat /\ c <= MaxCost
  <1>. DEFINE k == work[w].key
  <1>1. k \in Keys /\ k \in DOMAIN row
    BY DEF Charge, IInv, TypeOK, Work, WorkOnKeys
  <1>2. CASE k \notin DOMAIN cache
    BY <1>1, <1>2 DEF Charge
  <1>3. CASE k \in DOMAIN cache
    <2>1. cache[k] \in Row /\ cache[k].usage \in Usage /\ now \in Nat
      BY <1>3 DEF IInv, TypeOK, Row
    <2>2. cache' = [cache EXCEPT ![k].usage = Charged(k, cache[k].usage, c)]
      BY <1>3 DEF Charge
    <2>3. cache'[k].usage = Charged(k, cache[k].usage, c)
      BY <1>3, <2>1, <2>2 DEF Row
    <2>4. DOMAIN cache' = DOMAIN cache /\ \A j \in DOMAIN cache \ {k} : cache'[j] = cache[j]
      BY <2>2
    <2>. QED
      BY <1>1, <2>1, <2>3, <2>4, ChargedFacts
  <1>. QED
    BY <1>2, <1>3

\* Every step keeps requests on existing keys, enabled keys cached, and the
\* background task's variables in shape.
LEMMA ShapeStep ==
  IInv /\ [Next]_vars => WorkOnKeys' /\ EnabledAreCached' /\ SyncShape'
  <1>. DEFINE Shape == WorkOnKeys /\ EnabledAreCached /\ SyncShape
  <1>. SUFFICES ASSUME IInv, [Next]_vars PROVE Shape'
    OBVIOUS
  <1>. USE DEF IInv, WorkOnKeys, EnabledAreCached, SyncShape, Enabled, store, sync
  <1>0. DOMAIN cache \subseteq DOMAIN row /\ flush \subseteq pending
    BY DEF TypeOK
  <1>a. work \in [Workers -> Work]
    BY DEF TypeOK
  <1>1. CASE Tick
    BY <1>1 DEF Tick
  <1>2. ASSUME NEW k \in Keys, CreateKey(k) PROVE Shape'
    BY <1>2 DEF CreateKey, Put
  <1>3. ASSUME NEW k \in Keys, Disable(k) PROVE Shape'
    <2>1. k \in DOMAIN row /\ row' = [row EXCEPT ![k].disabled = TRUE]
          /\ row[k] \in Row
      BY <1>3 DEF Disable, TypeOK
    <2>2. DOMAIN row' = DOMAIN row /\ row'[k].disabled = TRUE
          /\ \A j \in DOMAIN row \ {k} : row'[j] = row[j]
      BY <2>1 DEF Row
    <2>. QED
      BY <1>3, <2>1, <2>2 DEF Disable
  <1>4. ASSUME NEW k \in Keys, Evict(k) PROVE Shape'
    BY <1>4 DEF Evict, Drop
  <1>5. ASSUME NEW w \in Workers, NEW k \in Keys, AuthRead(w, k) PROVE Shape'
    BY <1>a, <1>5 DEF AuthRead
  <1>6. ASSUME NEW w \in Workers, Admit(w) \/ Refuse(w) PROVE Shape'
    <2>1. /\ work[w].key \in DOMAIN row
          /\ DOMAIN cache' = DOMAIN cache \cup {work[w].key}
      BY <1>6, PublishStep
    <2>2. WorkOnKeys'
      BY <1>a, <1>6, <2>1 DEF Admit, Refuse, Idle
    <2>. QED
      BY <1>6, <2>1, <2>2 DEF Admit, Refuse
  <1>7. ASSUME NEW w \in Workers,
               UpstreamFails(w) \/ Record(w) \/ RecordFails(w)
        PROVE  Shape'
    BY <1>a, <1>7 DEF UpstreamFails, Record, RecordFails, Idle
  <1>8. ASSUME NEW w \in Workers, NEW c \in Costs, Charge(w, c) PROVE Shape'
    <2>1. work[w].key \in DOMAIN row /\ DOMAIN cache' = DOMAIN cache
      BY <1>8, ChargeStep
    <2>2. WorkOnKeys'
      BY <1>a, <1>8, <2>1 DEF Charge
    <2>. QED
      BY <1>8, <2>1, <2>2 DEF Charge
  <1>9. ASSUME NEW k \in Keys, Receive(k) PROVE Shape'
    BY <1>9 DEF Receive
  <1>10. CASE SyncStart
    BY <1>10 DEF SyncStart
  <1>11. ASSUME NEW k \in Keys, SyncRead(k) PROVE Shape'
    <2>1. syncing /\ DOMAIN held' \subseteq {k} \cap DOMAIN row
      BY <1>0, <1>11 DEF SyncRead, Put
    <2>. QED
      BY <1>11, <2>1 DEF SyncRead
  <1>12. ASSUME NEW k \in Keys, SyncWrite(k) \/ SyncWriteFails(k) PROVE Shape'
    <2>1. DOMAIN held' = DOMAIN held \ {k}
      BY <1>12, DropAt DEF SyncWrite, SyncWriteFails
    <2>2. DOMAIN row' = DOMAIN row
          /\ \A j \in DOMAIN row : row'[j].disabled = row[j].disabled
      <3>1. row \in [DOMAIN row -> Row]
        BY DEF TypeOK
      <3>. QED
        BY ONLY <1>12, <3>1 DEF SyncWrite, SyncWriteFails, Row, store
    <2>. QED
      BY <1>12, <2>1, <2>2 DEF SyncWrite, SyncWriteFails
  <1>13. CASE SyncEnd
    BY <1>13 DEF SyncEnd
  <1>14. CASE Restart
    BY <1>14 DEF Restart, Idle
  <1>15. CASE UNCHANGED vars
    BY <1>15 DEF vars
  <1>. QED
    BY <1>1, <1>2, <1>3, <1>4, <1>5, <1>6, <1>7, <1>8, <1>9, <1>10, <1>11,
       <1>12, <1>13, <1>14, <1>15 DEF Next, Background

-----------------------------------------------------------------------------
(* Totals.                                                                 *)

\* What the typing of the three copies of a key's usage says of their totals.
LEMMA TotalsAreNumbers ==
  ASSUME IInv
  PROVE  /\ \A k \in DOMAIN row : row[k].usage.total \in Nat
         /\ \A k \in DOMAIN cache : cache[k].usage.total \in Nat
         /\ \A k \in DOMAIN held : held[k].total \in Nat
  BY DEF IInv, TypeOK, Row, Usage

\* Every step keeps the order of the totals, and the stored total of an
\* enabled key grows.
LEMMA TotalsStep ==
  ASSUME IInv, [Next]_vars
  PROVE  /\ TotalsOrdered'
         /\ \A k \in DOMAIN row :
              Enabled(k) => row'[k].usage.total >= row[k].usage.total
  <1>. DEFINE Grows == /\ TotalsOrdered'
                       /\ \A k \in DOMAIN row :
                            Enabled(k) => row'[k].usage.total >= row[k].usage.total
  <1>. SUFFICES Grows
    OBVIOUS
  <1>. USE TotalsAreNumbers DEF TotalsOrdered, Enabled, store, sync
  <1>0. /\ TotalsOrdered /\ DOMAIN cache \subseteq DOMAIN row
        /\ \A k \in DOMAIN row : Enabled(k) => k \in DOMAIN cache
        /\ DOMAIN held \subseteq DOMAIN row
    BY DEF IInv, TypeOK, EnabledAreCached, SyncShape
  <1>1. CASE UNCHANGED <<row, cache, held>>
    BY <1>0, <1>1
  <1>2. ASSUME NEW k \in Keys, CreateKey(k) PROVE Grows
    <2>1. /\ k \notin DOMAIN row /\ DOMAIN row' = DOMAIN row \cup {k}
          /\ row'[k] = cache'[k] /\ row'[k].usage.total = 0 /\ held' = held
      BY <1>2 DEF CreateKey, Put, NoUsage
    <2>2. \A j \in DOMAIN row : row'[j] = row[j]
      BY <1>2 DEF CreateKey, Put
    <2>3. \A j \in DOMAIN cache : cache'[j] = cache[j]
      BY <1>0, <1>2 DEF CreateKey, Put
    <2>. QED
      BY <1>0, <2>1, <2>2, <2>3
  <1>3. ASSUME NEW k \in Keys, Disable(k) PROVE Grows
    <2>1. k \in DOMAIN row /\ row' = [row EXCEPT ![k].disabled = TRUE]
          /\ row[k] \in Row /\ UNCHANGED <<cache, held>>
      BY <1>3 DEF Disable, IInv, TypeOK
    <2>2. DOMAIN row' = DOMAIN row /\ row'[k].disabled = TRUE
          /\ row'[k].usage = row[k].usage
          /\ \A j \in DOMAIN row \ {k} : row'[j] = row[j]
      BY <2>1 DEF Row
    <2>. QED
      BY <1>0, <2>1, <2>2
  <1>4. ASSUME NEW k \in Keys, Evict(k) PROVE Grows
    <2>1. row[k].disabled /\ UNCHANGED <<row, held>>
      BY <1>4 DEF Evict, IInv, EnabledAreCached
    <2>2. \A j \in DOMAIN cache \ {k} : cache'[j] = cache[j]
      BY <1>4 DEF Evict, Drop
    <2>. QED
      BY <1>0, <2>1, <2>2
  <1>5. ASSUME NEW w \in Workers, Admit(w) \/ Refuse(w) PROVE Grows
    <2>1. \A j \in DOMAIN cache : cache'[j].usage = cache[j].usage
      BY <1>5, PublishStep
    <2>2. UNCHANGED <<row, held>>
      BY <1>5 DEF Admit, Refuse
    <2>. QED
      BY <1>0, <2>1, <2>2
  <1>6. ASSUME NEW w \in Workers, NEW c \in Costs, Charge(w, c) PROVE Grows
    <2>1. \A j \in DOMAIN cache : cache'[j].usage.total \in Nat
                               /\ cache'[j].usage.total >= cache[j].usage.total
      BY <1>6, ChargeStep DEF Usage
    <2>2. UNCHANGED <<row, held>>
      BY <1>6 DEF Charge
    <2>. QED
      BY <1>0, <2>1, <2>2
  <1>7. ASSUME NEW k \in Keys, SyncRead(k) PROVE Grows
    <2>1. UNCHANGED <<row, cache>>
      BY <1>7 DEF SyncRead
    <2>2. \A j \in DOMAIN held' : j \in DOMAIN cache /\ held'[j] = cache[j].usage
      BY <1>7 DEF SyncRead, Put
    <2>. QED
      BY <1>0, <2>1, <2>2
  <1>8. ASSUME NEW k \in Keys, SyncWrite(k) PROVE Grows
    <2>1. /\ k \in DOMAIN held /\ k \in DOMAIN row /\ cache' = cache
          /\ row' = [row EXCEPT ![k].usage = held[k]] /\ row[k] \in Row
      BY <1>0, <1>8 DEF SyncWrite, IInv, TypeOK
    <2>2. DOMAIN row' = DOMAIN row /\ row'[k].usage = held[k]
          /\ row'[k].disabled = row[k].disabled
          /\ \A j \in DOMAIN row \ {k} : row'[j] = row[j]
      BY <2>1 DEF Row
    <2>3. DOMAIN held' = DOMAIN held \ {k}
          /\ \A j \in DOMAIN held \ {k} : held'[j] = held[j]
      BY <1>8 DEF SyncWrite, Drop
    <2>. QED
      BY <1>0, <2>1, <2>2, <2>3
  <1>9. ASSUME NEW k \in Keys, SyncWriteFails(k) PROVE Grows
    <2>1. UNCHANGED <<row, cache>>
      BY <1>9 DEF SyncWriteFails
    <2>2. DOMAIN held' = DOMAIN held \ {k}
          /\ \A j \in DOMAIN held \ {k} : held'[j] = held[j]
      BY <1>9 DEF SyncWriteFails, Drop
    <2>. QED
      BY <1>0, <2>1, <2>2
  <1>10. CASE Restart
    <2>1. row' = row /\ DOMAIN held' = {}
      BY <1>10 DEF Restart
    <2>2. \A k \in DOMAIN row : Enabled(k) => cache'[k] = row[k]
      BY <1>10 DEF Restart
    <2>. QED
      BY <1>0, <2>1, <2>2
  <1>11. Next => \/ UNCHANGED <<row, cache, held>>
                 \/ \E k \in Keys : \/ CreateKey(k) \/ Disable(k) \/ Evict(k)
                                    \/ SyncRead(k) \/ SyncWrite(k) \/ SyncWriteFails(k)
                 \/ \E w \in Workers : \/ Admit(w) \/ Refuse(w)
                                       \/ \E c \in Costs : Charge(w, c)
                 \/ Restart
    BY DEF Next, Background, Tick, AuthRead, UpstreamFails, Record, RecordFails,
           Receive, SyncStart, SyncEnd
  <1>. QED
    BY <1>1, <1>2, <1>3, <1>4, <1>5, <1>6, <1>7, <1>8, <1>9, <1>10, <1>11 DEF vars

-----------------------------------------------------------------------------
(* Write-behind.                                                           *)

\* What UnsyncedIsScheduled says of one key.
Scheduled(k) ==
  \/ cache[k].usage = row[k].usage
  \/ k \in DOMAIN held /\ held[k] = cache[k].usage
  \/ k \in (IF syncing THEN flush ELSE pending)
  \/ Followed(k)

\* UnsyncedIsScheduled by keys.
LEMMA ScheduledFacts ==
  /\ UnsyncedIsScheduled <=> \A k \in DOMAIN cache : Scheduled(k)
  /\ UnsyncedIsScheduled' <=> \A k \in DOMAIN cache' : Scheduled(k)'
  BY DEF UnsyncedIsScheduled, Scheduled, Followed, Enabled

\* A key stays followed until its message is received or the process stops.
LEMMA FollowedStep ==
  ASSUME IInv, Next, crashes' = crashes, NEW k \in DOMAIN row, Followed(k),
         chan'[k] >= chan[k]
  PROVE  Followed(k)'
  <1>. USE DEF Followed, Enabled, Charging, store, sync
  <1>0. /\ work \in [Workers -> Work] /\ chan \in [Keys -> Nat] /\ k \in Keys
        /\ row \in [DOMAIN row -> Row]
    BY DEF IInv, TypeOK
  <1>r. ~Restart /\ ~Receive(k)
    BY <1>0 DEF Restart, Receive, IInv, TypeOK
  <1>1. CASE ~Enabled(k)
    <2>1. row'[k].disabled
      BY <1>0, <1>r, <1>1 DEF Next, Background, Tick, CreateKey, Disable, Evict, AuthRead,
         Charge, Admit, Refuse, UpstreamFails, Record, RecordFails, Receive, SyncRead,
         SyncWrite, SyncWriteFails, SyncStart, SyncEnd, Put, Row
    <2>. QED
      BY <2>1
  <1>2. CASE k \in dropped
    <2>1. k \in dropped'
      BY <1>r, <1>2 DEF Next, Background, Tick, CreateKey, Disable, Evict, AuthRead, Charge,
         Admit, Refuse, UpstreamFails, Record, RecordFails, Receive, SyncRead,
         SyncWrite, SyncWriteFails, SyncStart, SyncEnd
    <2>. QED
      BY <2>1
  <1>3. CASE chan[k] > 0
    <2>1. ASSUME NEW w \in Workers, Record(w) PROVE chan'[k] > 0
      BY <1>0, <1>3, <2>1 DEF Record
    <2>2. ASSUME NEW j \in Keys, Receive(j) PROVE chan'[k] > 0
      BY <1>0, <1>r, <1>3, <2>2 DEF Receive
    <2>3. \/ chan' = chan
          \/ \E w \in Workers : Record(w)
          \/ \E j \in Keys : Receive(j)
      BY <1>r DEF Next, Background, Tick, CreateKey, Disable, Evict, AuthRead, Charge,
         Admit, Refuse, UpstreamFails, RecordFails, SyncRead, SyncWrite,
         SyncWriteFails, SyncStart, SyncEnd
    <2>. QED
      BY <1>3, <2>1, <2>2, <2>3
  <1>4. ASSUME NEW w \in Workers, work[w].at = "charged", work[w].key = k
        PROVE  Followed(k)'
    <2>1. CASE Record(w)
      <3>1. chan'[k] > 0
        BY <1>0, <1>4, <2>1 DEF Record
      <3>. QED
        BY <3>1
    <2>2. CASE RecordFails(w)
      BY <1>4, <2>2 DEF RecordFails
    <2>3. CASE ~Record(w) /\ ~RecordFails(w)
      <3>1. ASSUME NEW v \in Workers,
                   \/ \E j \in Keys : AuthRead(v, j)
                   \/ \E c \in Costs : Charge(v, c)
                   \/ Admit(v) \/ Refuse(v) \/ UpstreamFails(v) \/ Record(v) \/ RecordFails(v)
            PROVE  work'[w] = work[w]
        <4>1. v # w
          BY <1>4, <2>3, <3>1 DEF AuthRead, Charge, Admit, Refuse, UpstreamFails
        <4>. QED
          BY <1>0, <3>1, <4>1
             DEF AuthRead, Charge, Admit, Refuse, UpstreamFails, Record, RecordFails
      <3>2. \/ work' = work
            \/ \E v \in Workers :
                 \/ \E j \in Keys : AuthRead(v, j)
                 \/ \E c \in Costs : Charge(v, c)
                 \/ Admit(v) \/ Refuse(v) \/ UpstreamFails(v) \/ Record(v) \/ RecordFails(v)
        BY <1>r DEF Next, Background, Tick, CreateKey, Disable, Evict, Receive, SyncRead,
           SyncWrite, SyncWriteFails, SyncStart, SyncEnd
      <3>3. work'[w] = work[w]
        BY <3>1, <3>2
      <3>. QED
        BY <1>4, <3>3
    <2>. QED
      BY <2>1, <2>2, <2>3
  <1>. QED
    BY <1>1, <1>2, <1>3, <1>4

\* Every step leaves unsynced usage scheduled, and held usage current or
\* followed.
LEMMA SyncStep ==
  ASSUME IInv, [Next]_vars
  PROVE  HeldIsCurrentOrFollowed' /\ UnsyncedIsScheduled'
  <1>. DEFINE HeldOk == \A k \in DOMAIN held :
                          (k \in DOMAIN cache /\ held[k] = cache[k].usage) \/ Followed(k)
              AllOk  == HeldOk /\ \A k \in DOMAIN cache : Scheduled(k)
  <1>. SUFFICES AllOk'
    BY ScheduledFacts DEF HeldIsCurrentOrFollowed
  <1>. USE DEF store, sync
  <1>0. /\ AllOk
        /\ DOMAIN cache \subseteq DOMAIN row /\ DOMAIN row \subseteq Keys
        /\ \A k \in DOMAIN row : Enabled(k) => k \in DOMAIN cache
        /\ DOMAIN held \subseteq DOMAIN row /\ chan \in [Keys -> Nat]
        /\ ~syncing => flush = {} /\ DOMAIN held = {}
        /\ row \in [DOMAIN row -> Row] /\ work \in [Workers -> Work]
    BY ScheduledFacts DEF IInv, TypeOK, EnabledAreCached, SyncShape, HeldIsCurrentOrFollowed
  <1>f. ASSUME Next, crashes' = crashes, chan' = chan
        PROVE  \A k \in DOMAIN row : Followed(k) => Followed(k)'
    BY <1>0, <1>f, FollowedStep
  <1>1. ASSUME NEW k \in Keys, CreateKey(k) PROVE AllOk'
    <2>1. /\ k \notin DOMAIN row /\ DOMAIN row' = DOMAIN row \cup {k}
          /\ DOMAIN cache' = DOMAIN cache \cup {k} /\ row'[k] = cache'[k]
          /\ \A j \in DOMAIN row : row'[j] = row[j]
      BY <1>1 DEF CreateKey, Put
    <2>2. \A j \in DOMAIN cache : cache'[j] = cache[j]
      BY <1>0, <1>1 DEF CreateKey, Put
    <2>3. UNCHANGED <<crashes, chan, held, syncing, flush, pending>>
      BY <1>1 DEF CreateKey
    <2>4. \A j \in DOMAIN row : Followed(j) => Followed(j)'
      BY <1>f, <1>1, <2>3 DEF Next
    <2>5. HeldOk'
      BY <1>0, <2>1, <2>2, <2>3, <2>4
    <2>6. \A j \in DOMAIN cache : Scheduled(j)'
      BY <1>0, <2>1, <2>2, <2>3, <2>4 DEF Scheduled
    <2>7. Scheduled(k)'
      BY <2>1 DEF Scheduled
    <2>. QED
      BY <2>1, <2>5, <2>6, <2>7
  <1>2. ASSUME NEW k \in Keys, Disable(k) PROVE AllOk'
    <2>1. UNCHANGED <<crashes, chan, held, syncing, flush, pending, cache>>
      BY <1>2 DEF Disable
    <2>2. \A j \in DOMAIN row : Followed(j) => Followed(j)'
      BY <1>f, <1>2, <2>1 DEF Next
    <2>3. \A j \in DOMAIN row : row'[j].usage = row[j].usage
      BY <1>0, <1>2 DEF Disable, Row
    <2>. QED
      BY <1>0, <2>1, <2>2, <2>3 DEF Scheduled
  <1>3. ASSUME NEW k \in Keys, Evict(k) PROVE AllOk'
    <2>1. /\ UNCHANGED <<crashes, chan, held, syncing, flush, pending, row>>
          /\ k \in DOMAIN row /\ ~Enabled(k)
      BY <1>3 DEF Evict, IInv, EnabledAreCached
    <2>2. \A j \in DOMAIN row : Followed(j) => Followed(j)'
      BY <1>f, <1>3, <2>1 DEF Next
    <2>3. DOMAIN cache' = DOMAIN cache \ {k}
          /\ \A j \in DOMAIN cache \ {k} : cache'[j] = cache[j]
      BY <1>3 DEF Evict, Drop
    <2>4. Followed(k)'
      BY <2>1, <2>2 DEF Followed
    <2>. QED
      BY <1>0, <2>1, <2>2, <2>3, <2>4 DEF Scheduled
  <1>4. ASSUME NEW w \in Workers, Admit(w) \/ Refuse(w) PROVE AllOk'
    <2>0. PICK k \in DOMAIN row : k = work[w].key
      BY <1>4, PublishStep
    <2>1. UNCHANGED <<crashes, chan, held, syncing, flush, pending, row>>
      BY <1>4 DEF Admit, Refuse
    <2>2. \A j \in DOMAIN row : Followed(j) => Followed(j)'
      BY <1>f, <1>4, <2>1 DEF Next
    <2>3. /\ k \in DOMAIN row /\ DOMAIN cache' = DOMAIN cache \cup {k}
          /\ \A j \in DOMAIN cache : cache'[j].usage = cache[j].usage
      BY <1>4, <2>0, PublishStep
    <2>4. k \notin DOMAIN cache => Followed(k)'
      <3>1. k \notin DOMAIN cache => Followed(k)
        BY <1>0, <2>3 DEF Followed
      <3>. QED
        BY <2>2, <2>3, <3>1
    <2>5. HeldOk'
      BY <1>0, <2>1, <2>2, <2>3
    <2>6. \A j \in DOMAIN cache : Scheduled(j)'
      BY <1>0, <2>1, <2>2, <2>3 DEF Scheduled
    <2>7. k \notin DOMAIN cache => Scheduled(k)'
      BY <2>4 DEF Scheduled
    <2>. QED
      BY <2>3, <2>5, <2>6, <2>7
  <1>5. ASSUME NEW w \in Workers, NEW c \in Costs, Charge(w, c) PROVE AllOk'
    <2>0. PICK k \in DOMAIN row : k = work[w].key
      BY <1>5, ChargeStep
    <2>1. UNCHANGED <<crashes, chan, held, syncing, flush, pending, row>>
      BY <1>5 DEF Charge
    <2>2. \A j \in DOMAIN row : Followed(j) => Followed(j)'
      BY <1>f, <1>5, <2>1 DEF Next
    <2>3. /\ k \in DOMAIN row /\ DOMAIN cache' = DOMAIN cache
          /\ \A j \in DOMAIN cache \ {k} : cache'[j] = cache[j]
      BY <1>5, <2>0, ChargeStep
    <2>4. Followed(k)'
      <3>1. work'[w].at = "charged" /\ work'[w].key = k
        BY <1>0, <1>5, <2>0 DEF Charge
      <3>. QED
        BY <3>1 DEF Followed, Charging
    <2>5. \A j \in DOMAIN held \ {k} :
            (j \in DOMAIN cache' /\ held'[j] = cache'[j].usage) \/ Followed(j)'
      BY <1>0, <2>1, <2>2, <2>3
    <2>6. \A j \in DOMAIN cache \ {k} : Scheduled(j)'
      BY <1>0, <2>1, <2>2, <2>3 DEF Scheduled
    <2>7. Scheduled(k)'
      BY <2>4 DEF Scheduled
    <2>. QED
      BY <2>1, <2>3, <2>4, <2>5, <2>6, <2>7
  <1>6. ASSUME NEW w \in Workers, Record(w) PROVE AllOk'
    <2>1. UNCHANGED <<crashes, held, syncing, flush, pending, row, cache>>
      BY <1>6 DEF Record
    <2>2. \A j \in Keys : chan'[j] >= chan[j]
      BY <1>0, <1>6 DEF Record
    <2>3. \A j \in DOMAIN row : Followed(j) => Followed(j)'
      BY <1>0, <1>6, <2>1, <2>2, FollowedStep DEF Next
    <2>. QED
      BY <1>0, <2>1, <2>3 DEF Scheduled
  <1>7. ASSUME NEW k \in Keys, Receive(k) PROVE AllOk'
    <2>1. /\ ~syncing /\ UNCHANGED <<crashes, held, syncing, flush, row, cache>>
          /\ pending' = pending \cup {k}
      BY <1>7 DEF Receive
    <2>2. \A j \in Keys \ {k} : chan'[j] = chan[j]
      BY <1>0, <1>7 DEF Receive
    <2>3. \A j \in DOMAIN row \ {k} : Followed(j) => Followed(j)'
      BY <1>0, <1>7, <2>1, <2>2, FollowedStep DEF Next, Background
    <2>. QED
      BY <1>0, <2>1, <2>3 DEF Scheduled
  <1>8. CASE SyncStart
    <2>1. /\ ~syncing /\ syncing' /\ flush' = pending
          /\ UNCHANGED <<crashes, chan, held, row, cache>>
      BY <1>8 DEF SyncStart
    <2>2. \A j \in DOMAIN row : Followed(j) => Followed(j)'
      BY <1>f, <1>8, <2>1 DEF Next, Background
    <2>. QED
      BY <1>0, <2>1, <2>2 DEF Scheduled
  <1>9. ASSUME NEW k \in Keys, SyncRead(k) PROVE AllOk'
    <2>1. /\ syncing /\ DOMAIN held = {} /\ flush' = flush \ {k}
          /\ UNCHANGED <<crashes, chan, syncing, row, cache>>
      BY <1>0, <1>9 DEF SyncRead
    <2>2. /\ \A j \in DOMAIN held' : j \in DOMAIN cache /\ held'[j] = cache[j].usage
          /\ k \in DOMAIN cache => k \in DOMAIN held'
      BY <1>9 DEF SyncRead, Put
    <2>3. \A j \in DOMAIN row : Followed(j) => Followed(j)'
      BY <1>f, <1>9, <2>1 DEF Next, Background
    <2>. QED
      BY <1>0, <2>1, <2>2, <2>3 DEF Scheduled
  <1>10. ASSUME NEW k \in Keys, SyncWrite(k) PROVE AllOk'
    <2>1. /\ k \in DOMAIN held /\ k \in DOMAIN row
          /\ row' = [row EXCEPT ![k].usage = held[k]]
          /\ UNCHANGED <<crashes, chan, syncing, flush, pending, cache>>
      BY <1>0, <1>10 DEF SyncWrite
    <2>2. /\ DOMAIN row' = DOMAIN row /\ row'[k].usage = held[k]
          /\ \A j \in DOMAIN row \ {k} : row'[j] = row[j]
      BY <1>0, <2>1 DEF Row
    <2>3. /\ DOMAIN held' = DOMAIN held \ {k}
          /\ \A j \in DOMAIN held \ {k} : held'[j] = held[j]
      BY <1>10 DEF SyncWrite, Drop
    <2>4. \A j \in DOMAIN row : Followed(j) => Followed(j)'
      BY <1>f, <1>10, <2>1 DEF Next, Background
    <2>5. HeldOk'
      BY <1>0, <2>1, <2>3, <2>4
    <2>6. \A j \in DOMAIN cache \ {k} : Scheduled(j)'
      BY <1>0, <2>1, <2>2, <2>3, <2>4 DEF Scheduled
    <2>7. k \in DOMAIN cache => Scheduled(k)'
      BY <1>0, <2>1, <2>2, <2>4 DEF Scheduled
    <2>. QED
      BY <2>1, <2>5, <2>6, <2>7
  <1>11. ASSUME NEW k \in Keys, SyncWriteFails(k) PROVE AllOk'
    <2>1. /\ UNCHANGED <<crashes, chan, syncing, flush, pending, cache, row>>
          /\ k \in dropped'
      BY <1>11 DEF SyncWriteFails
    <2>2. /\ DOMAIN held' = DOMAIN held \ {k}
          /\ \A j \in DOMAIN held \ {k} : held'[j] = held[j]
      BY <1>11 DEF SyncWriteFails, Drop
    <2>3. \A j \in DOMAIN row : Followed(j) => Followed(j)'
      BY <1>f, <1>11, <2>1 DEF Next, Background
    <2>4. Followed(k)'
      BY <2>1 DEF Followed
    <2>. QED
      BY <1>0, <2>1, <2>2, <2>3, <2>4 DEF Scheduled
  <1>12. CASE SyncEnd
    <2>1. /\ syncing /\ flush = {} /\ DOMAIN held = {}
          /\ UNCHANGED <<crashes, chan, held, cache, row>>
      BY <1>12 DEF SyncEnd
    <2>2. \A j \in DOMAIN row : Followed(j) => Followed(j)'
      BY <1>f, <1>12, <2>1 DEF Next, Background
    <2>. QED
      BY <1>0, <2>1, <2>2 DEF Scheduled
  <1>13. CASE Restart
    <2>1. DOMAIN held' = {} /\ \A j \in DOMAIN cache' : cache'[j] = row'[j]
      BY <1>13 DEF Restart
    <2>. QED
      BY <2>1 DEF Scheduled
  <1>14. ASSUME Next, UNCHANGED <<crashes, sync, cache, row>> PROVE AllOk'
    <2>1. \A j \in DOMAIN row : Followed(j) => Followed(j)'
      BY <1>f, <1>14
    <2>. QED
      BY <1>0, <1>14, <2>1 DEF Scheduled
  <1>15. CASE UNCHANGED vars
    BY <1>0, <1>15 DEF vars, Scheduled, Followed, Enabled, Charging
  <1>16. Next => \/ UNCHANGED <<crashes, sync, cache, row>>
                 \/ \E k \in Keys :
                      \/ CreateKey(k) \/ Disable(k) \/ Evict(k) \/ Receive(k)
                      \/ SyncRead(k) \/ SyncWrite(k) \/ SyncWriteFails(k)
                 \/ \E w \in Workers :
                      \/ Admit(w) \/ Refuse(w) \/ Record(w)
                      \/ \E c \in Costs : Charge(w, c)
                 \/ SyncStart \/ SyncEnd \/ Restart
    BY DEF Next, Background, Tick, AuthRead, UpstreamFails, RecordFails
  <1>. QED
    BY <1>1, <1>2, <1>3, <1>4, <1>5, <1>6, <1>7, <1>8, <1>9, <1>10, <1>11,
       <1>12, <1>13, <1>14, <1>15, <1>16

-----------------------------------------------------------------------------
(* The budget.                                                             *)

\* A set of workers is finite, no larger than all of them, and smaller by one
\* when it loses one.
LEMMA WorkerSets ==
  ASSUME NEW S \in SUBSET Workers
  PROVE  /\ IsFiniteSet(S)
         /\ Cardinality(S) \in Nat /\ Cardinality(Workers) \in Nat
         /\ Cardinality(S) <= Cardinality(Workers)
         /\ \A T \in SUBSET S : Cardinality(T) <= Cardinality(S)
         /\ \A w \in S : Cardinality(S \ {w}) = Cardinality(S) - 1
  BY KeyUsageAssumption, FS_Subset, FS_CardinalityType, FS_RemoveElement

\* What n requests can add grows with n.
LEMMA Room ==
  ASSUME NEW n \in Nat, NEW m \in Nat, n <= m
  PROVE  /\ n * MaxCost \in Nat /\ n * MaxCost <= m * MaxCost
         /\ (n - 1) * MaxCost = n * MaxCost - MaxCost
  BY KeyUsageAssumption

\* Fewer requests upstream fit as well, whatever fits is below the cap, and
\* nothing spent or less than the budget spent always fits.
LEMMA FitsFacts ==
  ASSUME NEW k \in Keys, NEW window \in Nat, NEW S \in SUBSET Workers
  PROVE  /\ Fits(k, window, S) => window < Cap(k)
         /\ \A T \in SUBSET S : Fits(k, window, S) => Fits(k, window, T)
         /\ window < Budget[k] => Fits(k, window, S)
         /\ window < Cap(k) /\ S = {} => Fits(k, window, S)
  <1>1. /\ Cardinality(S) \in Nat /\ Cardinality(Workers) \in Nat
        /\ Cardinality(S) <= Cardinality(Workers)
    BY WorkerSets
  <1>2. /\ Cardinality(S) * MaxCost \in Nat /\ Cardinality(Workers) * MaxCost \in Nat
        /\ Cardinality(S) * MaxCost <= Cardinality(Workers) * MaxCost
    BY <1>1, Room
  <1>3. ASSUME NEW T \in SUBSET S
        PROVE  Cardinality(T) * MaxCost \in Nat
               /\ Cardinality(T) * MaxCost <= Cardinality(S) * MaxCost
    <2>1. Cardinality(T) \in Nat /\ Cardinality(T) <= Cardinality(S)
      BY WorkerSets
    <2>. QED
      BY <1>1, <2>1, Room
  <1>4. Budget[k] \in Nat
    BY KeyUsageAssumption
  <1>5. S = {} => Cardinality(S) * MaxCost = 0
    BY FS_EmptySet, KeyUsageAssumption
  <1>. QED
    BY <1>2, <1>3, <1>4, <1>5 DEF Fits, Cap

\* A request that ends may spend MaxCost of what it had been allowed, or be the
\* first of a new window.
LEMMA FitsAfterCharge ==
  ASSUME NEW k \in Keys, NEW window \in Nat, NEW S \in SUBSET Workers, NEW w \in S,
         Fits(k, window, S), NEW cost \in Nat, cost <= MaxCost
  PROVE  /\ Fits(k, window + cost, S \ {w})
         /\ Budget[k] > 0 => Fits(k, cost, S \ {w})
  <1>1. /\ Cardinality(S) \in Nat /\ Cardinality(Workers) \in Nat
        /\ Cardinality(S) <= Cardinality(Workers)
        /\ Cardinality(S \ {w}) = Cardinality(S) - 1
    BY WorkerSets
  <1>2. /\ Cardinality(S) * MaxCost \in Nat /\ Cardinality(Workers) * MaxCost \in Nat
        /\ Cardinality(S) * MaxCost <= Cardinality(Workers) * MaxCost
        /\ Cardinality(S \ {w}) * MaxCost = Cardinality(S) * MaxCost - MaxCost
    BY <1>1, Room
  <1>3. Budget[k] \in Nat /\ MaxCost \in Nat
    BY KeyUsageAssumption
  <1>. QED
    BY <1>2, <1>3 DEF Fits, Cap

\* Every step keeps spending, and what may be added to it, below the cap.
LEMMA CapStep ==
  ASSUME IInv, [Next]_vars
  PROVE  CapKept'
  <1>. SUFFICES ASSUME NEW k \in DOMAIN row', Budget[k] > 0, ~row'[k].disabled
                PROVE  /\ row'[k].usage.window < Cap(k)
                       /\ k \in DOMAIN held' => held'[k].window < Cap(k)
                       /\ Fits(k, cache'[k].usage.window, Upstream(k)')
    BY DEF CapKept, Enabled, Fits, Cap
  <1>. DEFINE Kept == /\ row'[k].usage.window < Cap(k)
                      /\ k \in DOMAIN held' => held'[k].window < Cap(k)
                      /\ Fits(k, cache'[k].usage.window, Upstream(k)')
              Before == /\ k \in DOMAIN cache
                        /\ row[k].usage.window \in Nat
                        /\ cache[k].usage.window \in Nat
                        /\ row[k].usage.window < Cap(k)
                        /\ k \in DOMAIN held => held[k].window < Cap(k)
                        /\ Fits(k, cache[k].usage.window, Upstream(k))
  <1>. USE DEF store, sync
  <1>0. /\ DOMAIN row \subseteq Keys /\ DOMAIN held \subseteq DOMAIN row
        /\ row \in [DOMAIN row -> Row] /\ cache \in [DOMAIN cache -> Row]
        /\ work \in [Workers -> Work]
    BY DEF IInv, TypeOK, SyncShape
  <1>a. k \in DOMAIN row /\ ~row[k].disabled => Before
    <2>1. k \in DOMAIN row /\ ~row[k].disabled => k \in DOMAIN cache
      BY DEF IInv, EnabledAreCached, Enabled
    <2>2. /\ k \in DOMAIN row => row[k].usage.window \in Nat
          /\ k \in DOMAIN cache => cache[k].usage.window \in Nat
      BY <1>0 DEF Row, Usage
    <2>. QED
      BY <2>1, <2>2 DEF IInv, CapKept, Enabled
  <1>b. k \in Keys /\ Upstream(k) \in SUBSET Workers /\ Upstream(k)' \in SUBSET Workers
    BY TypeStep DEF TypeOK, Upstream
  <1>1. ASSUME UNCHANGED <<row, cache, held>>, Upstream(k)' \subseteq Upstream(k)
        PROVE  Kept
    BY <1>1, <1>a, <1>b, FitsFacts
  <1>2. ASSUME NEW w \in Workers, NEW j \in Keys, AuthRead(w, j)
        PROVE  Upstream(k)' \subseteq Upstream(k)
    BY <1>0, <1>2 DEF AuthRead, Upstream
  <1>3. ASSUME NEW w \in Workers, UpstreamFails(w) \/ Record(w) \/ RecordFails(w)
        PROVE  Upstream(k)' \subseteq Upstream(k)
    BY <1>0, <1>3 DEF UpstreamFails, Record, RecordFails, Idle, Upstream
  <1>4. ASSUME NEW j \in Keys, CreateKey(j) PROVE Kept
    <2>1. Upstream(k)' = Upstream(k) /\ held' = held
      BY <1>4 DEF CreateKey, Upstream
    <2>2. CASE k = j
      <3>1. k \notin DOMAIN held
        BY <1>0, <1>4, <2>2 DEF CreateKey
      <3>2. row'[k].usage.window = 0 /\ cache'[k].usage.window = 0
        BY <1>4, <2>2 DEF CreateKey, Put, NoUsage
      <3>3. Budget[k] \in Nat /\ 0 < Budget[k]
        BY <1>b, KeyUsageAssumption
      <3>4. Fits(k, 0, Upstream(k)) /\ 0 < Cap(k)
        BY <1>b, <3>3, FitsFacts
      <3>. QED
        BY <2>1, <3>1, <3>2, <3>4
    <2>3. CASE k # j
      <3>1. k \in DOMAIN row /\ row'[k] = row[k]
        BY <1>4, <2>3 DEF CreateKey, Put
      <3>2. Before
        BY <1>a, <3>1
      <3>3. cache'[k] = cache[k]
        BY <1>4, <2>3, <3>2 DEF CreateKey, Put
      <3>. QED
        BY <2>1, <3>1, <3>2, <3>3
    <2>. QED
      BY <2>2, <2>3
  <1>5. ASSUME NEW j \in Keys, Disable(j) PROVE Kept
    <2>1. k # j /\ k \in DOMAIN row /\ row'[k] = row[k]
      BY <1>0, <1>5 DEF Disable, Row
    <2>2. Upstream(k)' = Upstream(k) /\ UNCHANGED <<cache, held>>
      BY <1>5 DEF Disable, Upstream
    <2>. QED
      BY <1>a, <2>1, <2>2
  <1>6. ASSUME NEW j \in Keys, Evict(j) PROVE Kept
    <2>1. k # j
      BY <1>6 DEF Evict, IInv, EnabledAreCached, Enabled
    <2>2. Upstream(k)' = Upstream(k) /\ UNCHANGED <<row, held>>
      BY <1>6 DEF Evict, Upstream
    <2>3. Before
      BY <1>a, <2>2
    <2>4. cache'[k] = cache[k]
      BY <1>6, <2>1, <2>3 DEF Evict, Drop
    <2>. QED
      BY <2>2, <2>3, <2>4
  <1>7. ASSUME NEW w \in Workers, Admit(w) \/ Refuse(w) PROVE Kept
    <2>1. UNCHANGED <<row, held>>
      BY <1>7 DEF Admit, Refuse
    <2>2. Before
      BY <1>a, <2>1
    <2>3. cache'[k].usage = cache[k].usage
      BY <1>7, <2>2, PublishStep
    <2>4. CASE Upstream(k)' \subseteq Upstream(k)
      BY <1>b, <2>1, <2>2, <2>3, <2>4, FitsFacts
    <2>5. CASE ~(Upstream(k)' \subseteq Upstream(k))
      <3>1. Admit(w) /\ work[w].key = k
        BY <1>0, <1>7, <2>5 DEF Admit, Refuse, Idle, Upstream
      <3>2. work[w].row \in Row
        BY <1>0, <3>1 DEF Admit, Work
      <3>3. Published(k, work[w].row).usage = cache[k].usage
        BY <1>b, <2>2, <3>2, PublishedFacts DEF IInv
      <3>4. cache[k].usage.window < Budget[k]
        <4>1. ~(cache[k].usage.window >= Budget[k])
          BY <3>1, <3>3 DEF Admit, OverBudget
        <4>2. Budget[k] \in Nat
          BY <1>b, KeyUsageAssumption
        <4>. QED
          BY <2>2, <4>1, <4>2
      <3>. QED
        BY <1>b, <2>1, <2>2, <2>3, <3>4, FitsFacts
    <2>. QED
      BY <2>4, <2>5
  <1>8. ASSUME NEW w \in Workers, NEW c \in Costs, Charge(w, c) PROVE Kept
    <2>1. UNCHANGED <<row, held>>
      BY <1>8 DEF Charge
    <2>2. Before
      BY <1>a, <2>1
    <2>3. CASE work[w].key # k
      <3>1. cache'[k] = cache[k]
        BY <1>8, <2>2, <2>3, ChargeStep
      <3>2. Upstream(k)' \subseteq Upstream(k)
        BY <1>0, <1>8, <2>3 DEF Charge, Upstream
      <3>. QED
        BY <1>b, <2>1, <2>2, <3>1, <3>2, FitsFacts
    <2>4. CASE work[w].key = k
      <3>1. w \in Upstream(k) /\ Upstream(k)' = Upstream(k) \ {w}
        BY <1>0, <1>8, <2>4 DEF Charge, Upstream
      <3>2. /\ cache'[k].usage.window \in {c, cache[k].usage.window + c}
            /\ c \in Nat /\ c <= MaxCost
        BY <1>8, <2>2, <2>4, ChargeStep
      <3>3. Fits(k, cache'[k].usage.window, Upstream(k) \ {w})
        BY <1>b, <2>2, <3>1, <3>2, FitsAfterCharge
      <3>. QED
        BY <2>1, <2>2, <3>1, <3>3
    <2>. QED
      BY <2>3, <2>4
  <1>9. ASSUME NEW j \in Keys, SyncRead(j) PROVE Kept
    <2>1. UNCHANGED <<row, cache>> /\ Upstream(k)' = Upstream(k)
      BY <1>9 DEF SyncRead, Upstream
    <2>2. Before
      BY <1>a, <2>1
    <2>3. k \in DOMAIN held' => held'[k] = cache[k].usage
      BY <1>9 DEF SyncRead, Put
    <2>. QED
      BY <1>b, <2>1, <2>2, <2>3, FitsFacts
  <1>10. ASSUME NEW j \in Keys, SyncWrite(j) \/ SyncWriteFails(j) PROVE Kept
    <2>1. cache' = cache /\ Upstream(k)' = Upstream(k)
      BY <1>10 DEF SyncWrite, SyncWriteFails, Upstream
    <2>2. /\ k \in DOMAIN held' => k \in DOMAIN held /\ held'[k] = held[k]
          /\ j \in DOMAIN held
      BY <1>10 DEF SyncWrite, SyncWriteFails, Drop
    <2>3. /\ k \in DOMAIN row /\ row'[k].disabled = row[k].disabled
          /\ row'[k].usage \in {row[k].usage} \cup {held[i] : i \in DOMAIN held \cap {k}}
      BY <1>0, <1>10 DEF SyncWrite, SyncWriteFails, Row
    <2>4. Before
      BY <1>a, <2>3
    <2>. QED
      BY <2>1, <2>2, <2>3, <2>4
  <1>11. ASSUME Restart PROVE Kept
    <2>1. row' = row /\ DOMAIN held' = {}
      BY <1>11 DEF Restart
    <2>2. Before
      BY <1>a, <2>1
    <2>3. cache'[k] = row[k]
      BY <1>11, <2>1 DEF Restart
    <2>4. Upstream(k)' = {}
      BY <1>11 DEF Restart, Upstream, Idle
    <2>. QED
      BY <1>b, <2>1, <2>2, <2>3, <2>4, FitsFacts
  <1>12. ASSUME UNCHANGED <<row, cache, held, work>> PROVE Kept
    <2>1. Upstream(k)' = Upstream(k)
      BY <1>12 DEF Upstream
    <2>. QED
      BY <1>1, <1>12, <2>1
  <1>13. \/ UNCHANGED <<row, cache, held, work>>
         \/ \E j \in Keys : \/ CreateKey(j) \/ Disable(j) \/ Evict(j)
                            \/ SyncRead(j) \/ SyncWrite(j) \/ SyncWriteFails(j)
         \/ \E w \in Workers :
              \/ Admit(w) \/ Refuse(w) \/ UpstreamFails(w) \/ Record(w)
              \/ RecordFails(w)
              \/ \E j \in Keys : AuthRead(w, j)
              \/ \E c \in Costs : Charge(w, c)
         \/ Restart
    BY DEF Next, Background, Tick, Receive, SyncStart, SyncEnd, vars
  <1>14. ASSUME NEW w \in Workers,
                \/ UpstreamFails(w) \/ Record(w) \/ RecordFails(w)
                \/ \E j \in Keys : AuthRead(w, j)
         PROVE  Kept
    BY <1>1, <1>2, <1>3, <1>14 DEF UpstreamFails, Record, RecordFails, AuthRead
  <1>15. Kept
    <2>. HIDE DEF Kept
    <2>. QED
      BY <1>4, <1>5, <1>6, <1>7, <1>8, <1>9, <1>10, <1>11, <1>12, <1>13, <1>14
  <1>. QED
    BY <1>15

-----------------------------------------------------------------------------
(* Sums over the requests (MapThenSumSet).                                 *)

SumOf(f, S) == MapThenSumSet(LAMBDA w : f[w].cost, S)

\* The recursion of that fold, as an equation on functions of the subsets of S.
Any(S)       == CHOOSE x \in S : TRUE
Adds(f, S, it) ==
  it = [T \in SUBSET S |-> IF T = {} THEN 0 ELSE f[Any(T)].cost + it[T \ {Any(T)}]]
Added(f, S) == CHOOSE it : Adds(f, S, it)

\* The fold is such a function, applied to S.
LEMMA SumUnfolds ==
  ASSUME NEW f, NEW S
  PROVE  SumOf(f, S) = Added(f, S)[S]
  BY DEF SumOf, MapThenSumSet, MapThenFoldSet, Added, Adds, Any

\* Induction over the subsets of a finite set, with the set F of those for which
\* the claim holds: a smallest one outside F would have all its own parts inside.
LEMMA SmallestSubset ==
  ASSUME NEW S, IsFiniteSet(S), NEW F,
         \A T \in SUBSET S : (\A U \in SUBSET T : U # T => U \in F) => T \in F
  PROVE  \A T \in SUBSET S : T \in F
  <1>. DEFINE Bad == {T \in SUBSET S : T \notin F}
  <1>. SUFFICES ASSUME Bad # {} PROVE FALSE
    OBVIOUS
  <1>1. Bad \subseteq FiniteSubsetsOf(S)
    BY FS_Subset DEF FiniteSubsetsOf
  <1>2. PICK T \in Bad : \A U \in Bad : <<U, T>> \notin StrictSubsetOrdering(S)
    <2>. HIDE DEF Bad
    <2>. QED
      BY <1>1, FS_StrictSubsetOrderingWellFounded, WFMin
  <1>3. ASSUME NEW U \in SUBSET T, U # T PROVE U \in F
    <2>1. <<U, T>> \in StrictSubsetOrdering(S)
      BY <1>2, <1>3 DEF StrictSubsetOrdering
    <2>. QED
      BY <1>2, <1>3, <2>1
  <1>. QED
    BY <1>2, <1>3

\* There is one such function at most, and it adds up its smaller sets alike.
LEMMA AddsAgree ==
  ASSUME NEW f, NEW S, IsFiniteSet(S), NEW T \in SUBSET S, NEW it, NEW jt,
         Adds(f, S, it), Adds(f, T, jt)
  PROVE  \A U \in SUBSET T : it[U] = jt[U]
  <1>. DEFINE F == {U \in SUBSET T : it[U] = jt[U]}
  <1>1. ASSUME NEW U \in SUBSET T, \A V \in SUBSET U : V # U => V \in F
        PROVE  U \in F
    <2>1. CASE U = {}
      BY <2>1 DEF Adds
    <2>2. CASE U # {}
      <3>1. Any(U) \in U
        BY <2>2 DEF Any
      <3>2. U \ {Any(U)} \in SUBSET U /\ U \ {Any(U)} # U
        BY <3>1
      <3>3. it[U \ {Any(U)}] = jt[U \ {Any(U)}]
        BY <1>1, <3>2
      <3>4. it[U] = f[Any(U)].cost + it[U \ {Any(U)}]
        BY <2>2 DEF Adds
      <3>5. jt[U] = f[Any(U)].cost + jt[U \ {Any(U)}]
        BY <2>2 DEF Adds
      <3>. QED
        BY <3>3, <3>4, <3>5
    <2>. QED
      BY <2>1, <2>2
  <1>2. IsFiniteSet(T)
    BY FS_Subset
  <1>3. \A U \in SUBSET T : U \in F
    <2>. HIDE DEF F
    <2>. QED
      BY <1>1, <1>2, SmallestSubset
  <1>. QED
    BY <1>3

\* And there is one: on its largest set, it adds to what the parts already have.
LEMMA AddsExists ==
  ASSUME NEW f, NEW S, IsFiniteSet(S)
  PROVE  \A T \in SUBSET S : Adds(f, T, Added(f, T))
  <1>. DEFINE F == {T \in SUBSET S : Adds(f, T, Added(f, T))}
  <1>1. ASSUME NEW T \in SUBSET S, \A U \in SUBSET T : U # T => U \in F
        PROVE  T \in F
    <2>. DEFINE Sum(U) == Added(f, U)[U]
                it == [U \in SUBSET T |->
                         IF U = {} THEN 0 ELSE f[Any(U)].cost + Sum(U \ {Any(U)})]
    <2>1. ASSUME NEW U \in SUBSET T, U # T PROVE it[U] = Sum(U)
      <3>1. Adds(f, U, Added(f, U))
        BY <1>1, <2>1
      <3>2. CASE U = {}
        BY <3>1, <3>2 DEF Adds
      <3>3. CASE U # {}
        <4>. DEFINE V == U \ {Any(U)}
        <4>1. Any(U) \in U
          BY <3>3 DEF Any
        <4>2. V \in SUBSET U /\ V \in SUBSET T /\ V # T
          BY <4>1
        <4>3. Adds(f, V, Added(f, V))
          BY <1>1, <4>2
        <4>4. IsFiniteSet(U)
          BY FS_Subset
        <4>5. Added(f, U)[V] = Added(f, V)[V]
          BY <3>1, <4>2, <4>3, <4>4, AddsAgree
        <4>6. Added(f, U)[U] = f[Any(U)].cost + Added(f, U)[V]
          BY <3>1, <3>3 DEF Adds
        <4>. QED
          BY <3>3, <4>5, <4>6
      <3>. QED
        BY <3>2, <3>3
    <2>2. Adds(f, T, it)
      <3>1. ASSUME NEW U \in SUBSET T, U # {}
            PROVE  it[U] = f[Any(U)].cost + it[U \ {Any(U)}]
        <4>1. Any(U) \in U
          BY <3>1 DEF Any
        <4>2. it[U \ {Any(U)}] = Sum(U \ {Any(U)})
          <5>1. U \ {Any(U)} \in SUBSET T /\ U \ {Any(U)} # T
            BY <4>1
          <5>. HIDE DEF it, Sum
          <5>. QED
            BY <2>1, <5>1
        <4>. QED
          BY <3>1, <4>2
      <3>2. it[{}] = 0
        OBVIOUS
      <3>3. it = [U \in SUBSET T |-> it[U]]
        OBVIOUS
      <3>. HIDE DEF it
      <3>. QED
        BY <3>1, <3>2, <3>3 DEF Adds
    <2>3. Adds(f, T, Added(f, T))
      <3>. HIDE DEF it
      <3>. QED
        BY <2>2 DEF Added
    <2>. QED
      BY <2>3
  <1>2. \A T \in SUBSET S : T \in F
    <2>. HIDE DEF F
    <2>. QED
      BY <1>1, SmallestSubset
  <1>. QED
    BY <1>2

\* So a sum takes its terms one at a time, in the order of the fold.
LEMMA SumAny ==
  ASSUME NEW f, NEW S, IsFiniteSet(S)
  PROVE  /\ SumOf(f, {}) = 0
         /\ S # {} => SumOf(f, S) = f[Any(S)].cost + SumOf(f, S \ {Any(S)})
  <1>1. \A T \in SUBSET S : Adds(f, T, Added(f, T))
    BY AddsExists
  <1>2. SumOf(f, {}) = 0
    BY <1>1, SumUnfolds DEF Adds
  <1>3. ASSUME NEW T \in SUBSET S PROVE Added(f, S)[T] = Added(f, T)[T]
    BY <1>1, AddsAgree
  <1>4. ASSUME S # {} PROVE SumOf(f, S) = f[Any(S)].cost + SumOf(f, S \ {Any(S)})
    <2>. DEFINE T == S \ {Any(S)}
    <2>1. T \in SUBSET S /\ Adds(f, S, Added(f, S)) /\ Adds(f, T, Added(f, T))
      BY <1>1
    <2>2. Added(f, S)[T] = Added(f, T)[T]
      BY <1>3, <2>1
    <2>3. Added(f, S)[S] = f[Any(S)].cost + Added(f, S)[T]
      BY <1>4, <2>1 DEF Adds
    <2>. QED
      BY <2>2, <2>3, SumUnfolds
  <1>. QED
    BY <1>2, <1>4

\* The terms of a sum that is a number.
Addable(f, S) == IsFiniteSet(S) /\ \A w \in S : f[w].cost \in Nat

\* A sum of numbers is a number, and any of its terms can be taken first.
LEMMA SumFacts ==
  ASSUME NEW f, NEW S, Addable(f, S)
  PROVE  /\ SumOf(f, {}) = 0
         /\ SumOf(f, S) \in Nat
         /\ \A w \in S : SumOf(f, S) = f[w].cost + SumOf(f, S \ {w})
  <1>. DEFINE F == {T \in SUBSET S :
                      /\ SumOf(f, T) \in Nat
                      /\ \A w \in T : SumOf(f, T) = f[w].cost + SumOf(f, T \ {w})}
  <1>1. ASSUME NEW T \in SUBSET S, \A U \in SUBSET T : U # T => U \in F
        PROVE  T \in F
    <2>1. IsFiniteSet(T)
      BY FS_Subset DEF Addable
    <2>2. CASE T = {}
      <3>1. SumOf(f, T) = 0
        BY <2>1, <2>2, SumAny
      <3>. QED
        BY <2>2, <3>1
    <2>3. CASE T # {}
      <3>. DEFINE c == Any(T)
      <3>1. c \in T
        BY <2>3 DEF Any
      <3>. HIDE DEF c
      <3>2. SumOf(f, T) = f[c].cost + SumOf(f, T \ {c})
        BY <2>1, <2>3, SumAny DEF c
      <3>3. T \ {c} \in F
        BY <1>1, <3>1
      <3>4. SumOf(f, T \ {c}) \in Nat /\ f[c].cost \in Nat
        BY <3>1, <3>3 DEF Addable
      <3>5. ASSUME NEW w \in T, w # c
            PROVE  SumOf(f, T) = f[w].cost + SumOf(f, T \ {w})
        <4>. DEFINE V == (T \ {c}) \ {w}
        <4>1. V = (T \ {w}) \ {c} /\ w \in T \ {c} /\ c \in T \ {w}
          BY <3>1, <3>5
        <4>2. T \ {w} \in F
          BY <1>1, <3>5
        <4>3. V \in F
          BY <1>1, <3>1, <3>5
        <4>4. SumOf(f, T \ {c}) = f[w].cost + SumOf(f, V)
          BY <3>3, <4>1
        <4>5. SumOf(f, T \ {w}) = f[c].cost + SumOf(f, V)
          BY <4>1, <4>2
        <4>6. SumOf(f, V) \in Nat /\ f[w].cost \in Nat
          BY <4>3 DEF Addable
        <4>. HIDE DEF V
        <4>. QED
          BY <3>2, <3>4, <4>4, <4>5, <4>6
      <3>6. \A w \in T : SumOf(f, T) = f[w].cost + SumOf(f, T \ {w})
        BY <3>2, <3>5
      <3>7. SumOf(f, T) \in Nat
        BY <3>2, <3>4
      <3>. QED
        BY <3>6, <3>7
    <2>. QED
      BY <2>2, <2>3
  <1>2. \A T \in SUBSET S : T \in F
    <2>. HIDE DEF F
    <2>. QED
      BY <1>1, SmallestSubset DEF Addable
  <1>3. SumOf(f, {}) = 0
    BY SumAny DEF Addable
  <1>. QED
    BY <1>2, <1>3

\* Equal terms have equal sums.
LEMMA SumSame ==
  ASSUME NEW f, NEW g, NEW S, Addable(f, S), \A w \in S : g[w].cost = f[w].cost
  PROVE  SumOf(g, S) = SumOf(f, S)
  <1>. DEFINE F == {T \in SUBSET S : SumOf(g, T) = SumOf(f, T)}
  <1>1. ASSUME NEW T \in SUBSET S, \A U \in SUBSET T : U # T => U \in F
        PROVE  T \in F
    <2>1. Addable(f, T) /\ Addable(g, T)
      BY FS_Subset DEF Addable
    <2>2. CASE T = {}
      BY <2>1, <2>2, SumFacts
    <2>3. CASE T # {}
      <3>1. PICK w \in T : TRUE
        BY <2>3
      <3>2. T \ {w} \in F
        BY <1>1
      <3>3. /\ SumOf(f, T) = f[w].cost + SumOf(f, T \ {w})
            /\ SumOf(g, T) = g[w].cost + SumOf(g, T \ {w})
        BY <2>1, SumFacts
      <3>. QED
        BY <3>2, <3>3
    <2>. QED
      BY <2>2, <2>3
  <1>2. \A T \in SUBSET S : T \in F
    <2>. HIDE DEF F
    <2>. QED
      BY <1>1, SmallestSubset DEF Addable
  <1>. QED
    BY <1>2

-----------------------------------------------------------------------------
(* The bill.                                                               *)

\* What the requests that were charged have yet to insert of k.
Inserting(k) == SumOf(work, Charging(k))

\* A key nobody created has no history; an enabled one's total is accounted for.
BillInv ==
  /\ \A k \in Keys \ DOMAIN row : history[k] = 0
  /\ \A k \in DOMAIN row :
       crashes = 0 /\ k \notin dropped /\ Enabled(k) =>
         cache[k].usage.total = history[k] + Inserting(k)

\* The charged requests of a key are finitely many, and each has a cost.
LEMMA ChargingAddable ==
  ASSUME TypeOK, NEW k \in Keys
  PROVE  Addable(work, Charging(k)) /\ Inserting(k) \in Nat
  <1>1. Charging(k) \in SUBSET Workers
    BY DEF Charging
  <1>2. IsFiniteSet(Charging(k))
    BY <1>1, WorkerSets
  <1>3. ASSUME NEW w \in Charging(k) PROVE work[w].cost \in Nat
    BY <1>1, <1>3 DEF Charging, TypeOK, Work
  <1>4. Addable(work, Charging(k))
    BY <1>2, <1>3 DEF Addable
  <1>. QED
    BY <1>4, SumFacts DEF Inserting

\* The same requests at the same costs have as much to insert.
LEMMA InsertingSame ==
  ASSUME TypeOK, NEW k \in Keys, Charging(k)' = Charging(k),
         \A w \in Charging(k) : work'[w] = work[w]
  PROVE  Inserting(k)' = Inserting(k)
  <1>1. Addable(work, Charging(k))
    BY ChargingAddable
  <1>2. SumOf(work', Charging(k)) = SumOf(work, Charging(k))
    BY <1>1, SumSame
  <1>. QED
    BY <1>2 DEF Inserting

\* A charge adds its cost to the total of its key and to what is to insert.
LEMMA BillAfterCharge ==
  ASSUME IInv, NEW w \in Workers, NEW c \in Costs, Charge(w, c),
         NEW k \in DOMAIN row, Enabled(k),
         cache[k].usage.total = history[k] + Inserting(k)
  PROVE  cache'[k].usage.total = history[k] + Inserting(k)'
  <1>. DEFINE S == Charging(k)
  <1>1. work \in [Workers -> Work] /\ k \in Keys /\ k \in DOMAIN cache /\ history[k] \in Nat
    BY DEF IInv, TypeOK, EnabledAreCached
  <1>2. Addable(work, S) /\ Inserting(k) \in Nat
    BY <1>1, ChargingAddable DEF IInv
  <1>3. /\ work[w].at = "upstream"
        /\ work' = [work EXCEPT ![w] = [at |-> "charged", key |-> work[w].key, cost |-> c]]
    BY DEF Charge
  <1>4. w \notin S /\ \A v \in S : work'[v] = work[v]
    BY <1>1, <1>3 DEF Charging
  <1>5. CASE work[w].key # k
    <2>1. Charging(k)' = Charging(k)
      BY <1>1, <1>3, <1>5 DEF Charging
    <2>2. Inserting(k)' = Inserting(k)
      BY <1>1, <1>4, <2>1, InsertingSame DEF IInv
    <2>3. cache'[k] = cache[k]
      BY <1>1, <1>5, ChargeStep
    <2>. QED
      BY <2>2, <2>3
  <1>6. CASE work[w].key = k
    <2>. DEFINE T == Charging(k)'
    <2>1. w \in T /\ S = T \ {w} /\ work'[w].cost = c
      BY <1>1, <1>3, <1>6 DEF Charging
    <2>2. c \in Nat /\ cache'[k].usage.total = cache[k].usage.total + c
      BY <1>1, <1>6, ChargeStep
    <2>3. SumOf(work', T) = SumOf(work, S) + c
      <3>1. Addable(work', T)
        <4>1. T = S \cup {w} /\ IsFiniteSet(T)
          BY <1>2, <2>1, FS_AddElement DEF Addable
        <4>. QED
          BY <1>2, <1>4, <2>1, <2>2, <4>1 DEF Addable
      <3>. HIDE DEF S, T
      <3>2. SumOf(work', T) = c + SumOf(work', S)
        BY <2>1, <3>1, SumFacts
      <3>3. SumOf(work', S) = SumOf(work, S) /\ SumOf(work, S) \in Nat
        BY <1>2, <1>4, SumSame, SumFacts
      <3>. QED
        BY <2>2, <3>2, <3>3
    <2>4. Inserting(k)' = Inserting(k) + c
      BY <2>1, <2>3 DEF Inserting
    <2>. QED
      BY <1>1, <1>2, <2>2, <2>4
  <1>. QED
    BY <1>5, <1>6

\* The INSERT moves a cost from what is to insert into the history.
LEMMA BillAfterRecord ==
  ASSUME IInv, NEW w \in Workers, Record(w), NEW k \in DOMAIN row
  PROVE  history'[k] + Inserting(k)' = history[k] + Inserting(k)
  <1>. DEFINE S == Charging(k)
  <1>1. work \in [Workers -> Work] /\ k \in Keys /\ history \in [Keys -> Nat]
    BY DEF IInv, TypeOK
  <1>2. Addable(work, S) /\ Inserting(k) \in Nat
    BY <1>1, ChargingAddable DEF IInv
  <1>3. /\ work[w].at = "charged" /\ work' = [work EXCEPT ![w] = Idle]
        /\ history' = [history EXCEPT ![work[w].key] = @ + work[w].cost]
    BY DEF Record
  <1>4. CASE work[w].key # k
    <2>1. Charging(k)' = Charging(k) /\ \A v \in Charging(k) : work'[v] = work[v]
      BY <1>1, <1>3, <1>4 DEF Charging, Idle
    <2>2. Inserting(k)' = Inserting(k)
      BY <1>1, <2>1, InsertingSame DEF IInv
    <2>3. history'[k] = history[k]
      BY <1>1, <1>3, <1>4
    <2>. QED
      BY <2>2, <2>3
  <1>5. CASE work[w].key = k
    <2>. DEFINE T == S \ {w}
    <2>1. w \in S /\ Charging(k)' = T /\ \A v \in T : work'[v] = work[v]
      BY <1>1, <1>3, <1>5 DEF Charging, Idle
    <2>2. Addable(work, T)
      BY <1>2, FS_Subset DEF Addable
    <2>3. SumOf(work, S) = work[w].cost + SumOf(work, T) /\ work[w].cost \in Nat
      BY <1>2, <2>1, SumFacts DEF Addable
    <2>4. SumOf(work', T) = SumOf(work, T) /\ SumOf(work, T) \in Nat
      <3>. HIDE DEF T
      <3>. QED
        BY <2>1, <2>2, SumSame, SumFacts
    <2>5. history'[k] = history[k] + work[w].cost /\ history[k] \in Nat
      BY <1>1, <1>3, <1>5
    <2>6. Inserting(k)' = SumOf(work', T) /\ Inserting(k) = SumOf(work, S)
      BY <2>1 DEF Inserting
    <2>. HIDE DEF S, T
    <2>. QED
      BY <2>3, <2>4, <2>5, <2>6
  <1>. QED
    BY <1>4, <1>5

\* Every step keeps the bill: nothing else changes a total, a history or what is
\* to insert, except where it may.
LEMMA BillStep ==
  ASSUME IInv, BillInv, [Next]_vars
  PROVE  BillInv'
  <1>. USE DEF store, sync
  <1>0. /\ DOMAIN row \subseteq Keys /\ work \in [Workers -> Work]
        /\ row \in [DOMAIN row -> Row] /\ history \in [Keys -> Nat] /\ crashes \in Nat
    BY DEF IInv, TypeOK
  <1>. DEFINE Agrees(k) == cache[k].usage.total = history[k] + Inserting(k)
  <1>a. ASSUME NEW k \in DOMAIN row, crashes = 0, k \notin dropped, Enabled(k)
        PROVE  Agrees(k) /\ k \in DOMAIN cache /\ k \in Keys
    BY <1>0, <1>a DEF BillInv, IInv, EnabledAreCached
  <1>b. ASSUME UNCHANGED <<DOMAIN row, history>>,
               \A k \in DOMAIN row :
                 crashes' = 0 /\ k \notin dropped' /\ Enabled(k)' =>
                   /\ crashes = 0 /\ k \notin dropped /\ Enabled(k)
                   /\ Agrees(k) => Agrees(k)'
        PROVE  BillInv'
    BY <1>a, <1>b DEF BillInv
  <1>1. ASSUME UNCHANGED <<row, history, cache, work, crashes>>, dropped \subseteq dropped'
        PROVE  BillInv'
    <2>1. \A k : Inserting(k)' = Inserting(k)
      BY <1>1 DEF Inserting, Charging
    <2>. QED
      BY <1>1, <1>b, <2>1 DEF Enabled
  <1>2. ASSUME NEW j \in Keys, CreateKey(j) PROVE BillInv'
    <2>. DEFINE fresh == [disabled |-> FALSE, usage |-> NoUsage]
    <2>1. /\ j \notin DOMAIN row /\ DOMAIN row' = DOMAIN row \cup {j}
          /\ row' = Put(row, j, fresh) /\ cache' = Put(cache, j, fresh)
          /\ UNCHANGED <<history, work, crashes, dropped>>
      BY <1>2, PutAt DEF CreateKey
    <2>2. \A k : Inserting(k)' = Inserting(k) /\ Charging(k)' = Charging(k)
      BY <2>1 DEF Inserting, Charging
    <2>3. ASSUME NEW k \in Keys \ DOMAIN row' PROVE history'[k] = 0
      BY <2>1, <2>3 DEF BillInv
    <2>4. ASSUME NEW k \in DOMAIN row', k # j,
                 crashes' = 0 /\ k \notin dropped' /\ Enabled(k)'
          PROVE  Agrees(k)'
      <3>1. k \in DOMAIN row /\ row'[k] = row[k]
        BY <2>1, <2>4 DEF Put
      <3>2. Agrees(k) /\ k \in DOMAIN cache
        BY <1>a, <2>1, <2>4, <3>1 DEF Enabled
      <3>3. cache'[k] = cache[k]
        BY <2>1, <2>4, <3>2 DEF Put
      <3>. QED
        BY <2>1, <2>2, <3>2, <3>3
    <2>5. Agrees(j)'
      <3>1. Charging(j) = {}
        BY <2>1 DEF Charging, IInv, WorkOnKeys
      <3>2. Inserting(j) = 0
        BY <1>0, <3>1, SumFacts, ChargingAddable DEF Inserting, IInv
      <3>3. history[j] = 0
        BY <2>1 DEF BillInv
      <3>4. cache'[j].usage.total = 0
        BY <2>1 DEF Put, NoUsage
      <3>. QED
        BY <2>1, <2>2, <3>2, <3>3, <3>4
    <2>. QED
      BY <2>3, <2>4, <2>5 DEF BillInv
  <1>3. ASSUME NEW j \in Keys, Disable(j) PROVE BillInv'
    <2>1. /\ DOMAIN row' = DOMAIN row
          /\ \A k \in DOMAIN row : Enabled(k)' => k # j /\ Enabled(k)
          /\ UNCHANGED <<history, cache, work, crashes, dropped>>
      BY <1>0, <1>3 DEF Disable, Enabled, Row
    <2>2. \A k : Inserting(k)' = Inserting(k)
      BY <2>1 DEF Inserting, Charging
    <2>. QED
      BY <1>b, <2>1, <2>2
  <1>4. ASSUME NEW j \in Keys, Evict(j) PROVE BillInv'
    <2>1. /\ ~Enabled(j) /\ cache' = Drop(cache, j)
          /\ UNCHANGED <<row, history, work, crashes, dropped>>
      BY <1>4 DEF Evict, IInv, EnabledAreCached
    <2>2. \A k : Inserting(k)' = Inserting(k)
      BY <2>1 DEF Inserting, Charging
    <2>3. \A k \in DOMAIN cache : Enabled(k) => cache'[k] = cache[k]
      BY <2>1, DropAt
    <2>. QED
      BY <1>a, <1>b, <2>1, <2>2, <2>3 DEF Enabled
  <1>5. ASSUME NEW w \in Workers,
               \/ \E j \in Keys : AuthRead(w, j)
               \/ Admit(w) \/ Refuse(w) \/ UpstreamFails(w)
        PROVE  BillInv'
    <2>1. /\ UNCHANGED <<row, history, crashes, dropped>>
          /\ work[w].at # "charged"
      BY <1>5 DEF AuthRead, Admit, Refuse, UpstreamFails
    <2>2. /\ \A v \in Workers \ {w} : work'[v] = work[v]
          /\ work'[w].at # "charged"
      BY <1>0, <1>5 DEF AuthRead, Admit, Refuse, UpstreamFails, Idle
    <2>3. \A k \in Keys : Inserting(k)' = Inserting(k)
      <3>1. \A k \in Keys :
              /\ Charging(k)' = Charging(k)
              /\ \A v \in Charging(k) : work'[v] = work[v]
        BY <2>1, <2>2 DEF Charging
      <3>. QED
        BY <3>1, InsertingSame DEF IInv
    <2>4. \A k \in DOMAIN cache : cache'[k].usage = cache[k].usage
      <3>1. CASE Admit(w) \/ Refuse(w)
        BY <3>1, PublishStep
      <3>2. CASE ~(Admit(w) \/ Refuse(w))
        BY <1>5, <3>2 DEF AuthRead, UpstreamFails
      <3>. QED
        BY <3>1, <3>2
    <2>. QED
      BY <1>0, <1>a, <1>b, <2>1, <2>3, <2>4 DEF Enabled
  <1>6. ASSUME NEW w \in Workers, NEW c \in Costs, Charge(w, c) PROVE BillInv'
    <2>1. UNCHANGED <<row, history, crashes, dropped>>
      BY <1>6 DEF Charge
    <2>2. ASSUME NEW k \in DOMAIN row, Enabled(k), Agrees(k) PROVE Agrees(k)'
      BY <1>6, <2>1, <2>2, BillAfterCharge
    <2>. QED
      BY <1>b, <2>1, <2>2 DEF Enabled
  <1>7. ASSUME NEW w \in Workers, Record(w) PROVE BillInv'
    <2>1. UNCHANGED <<row, cache, crashes, dropped>>
      BY <1>7 DEF Record
    <2>2. work[w].key \in DOMAIN row
      BY <1>7 DEF Record, IInv, WorkOnKeys
    <2>3. \A k \in Keys \ DOMAIN row : history'[k] = history[k]
      BY <1>0, <1>7, <2>2 DEF Record
    <2>4. \A k \in DOMAIN row : history'[k] + Inserting(k)' = history[k] + Inserting(k)
      BY <1>7, BillAfterRecord
    <2>. QED
      BY <1>a, <2>1, <2>3, <2>4 DEF BillInv, Enabled
  <1>8. ASSUME NEW w \in Workers, RecordFails(w) PROVE BillInv'
    <2>1. /\ UNCHANGED <<row, history, cache, crashes>>
          /\ dropped' = dropped \cup {work[w].key}
          /\ work' = [work EXCEPT ![w] = Idle]
      BY <1>8 DEF RecordFails
    <2>2. ASSUME NEW k \in Keys, k # work[w].key PROVE Inserting(k)' = Inserting(k)
      <3>1. /\ Charging(k)' = Charging(k)
            /\ \A v \in Charging(k) : work'[v] = work[v]
        BY <1>0, <2>1, <2>2 DEF Charging, Idle
      <3>. QED
        BY <3>1, InsertingSame DEF IInv
    <2>. QED
      BY <1>0, <1>b, <2>1, <2>2 DEF Enabled
  <1>9. ASSUME NEW j \in Keys, SyncWrite(j) \/ SyncWriteFails(j) PROVE BillInv'
    <2>1. /\ UNCHANGED <<history, cache, work, crashes>> /\ dropped \subseteq dropped'
          /\ DOMAIN row' = DOMAIN row
          /\ \A k \in DOMAIN row : row'[k].disabled = row[k].disabled
      BY <1>0, <1>9 DEF SyncWrite, SyncWriteFails, Row
    <2>2. \A k : Inserting(k)' = Inserting(k)
      BY <2>1 DEF Inserting, Charging
    <2>. QED
      BY <1>b, <2>1, <2>2 DEF Enabled
  <1>10. ASSUME Restart PROVE BillInv'
    <2>1. crashes' # 0 /\ UNCHANGED <<row, history>>
      BY <1>0, <1>10 DEF Restart
    <2>. QED
      BY <1>b, <2>1
  <1>11. \/ UNCHANGED <<row, history, cache, work, crashes>> /\ dropped \subseteq dropped'
         \/ \E j \in Keys : \/ CreateKey(j) \/ Disable(j) \/ Evict(j)
                            \/ SyncWrite(j) \/ SyncWriteFails(j)
         \/ \E w \in Workers :
              \/ \E j \in Keys : AuthRead(w, j)
              \/ \E c \in Costs : Charge(w, c)
              \/ Admit(w) \/ Refuse(w) \/ UpstreamFails(w) \/ Record(w) \/ RecordFails(w)
         \/ Restart
    BY DEF Next, Background, Tick, Receive, SyncRead, SyncStart, SyncEnd, vars
  <1>. HIDE DEF Agrees
  <1>. QED
    BY <1>1, <1>2, <1>3, <1>4, <1>5, <1>6, <1>7, <1>8, <1>9, <1>10, <1>11

-----------------------------------------------------------------------------
(* What a key was really charged, and what restarts made the process forget.  *)

\* Whole days are counted in order.
LEMMA DaysInOrder ==
  ASSUME NEW a \in Int, NEW b \in Int, a <= b
  PROVE  /\ a \div PerDay \in Int /\ b \div PerDay \in Int
         /\ a \div PerDay <= b \div PerDay
  <1>. DEFINE q == a \div PerDay
              r == b \div PerDay
  <1>1. q \in Int /\ q * PerDay <= a /\ PerDay \in Nat \ {0}
    BY BudgetWindowAssumption
  <1>2. r \in Int /\ b < r * PerDay + PerDay
    BY BudgetWindowAssumption
  <1>. HIDE DEF q, r
  <1>3. ASSUME r < q PROVE FALSE
    <2>1. (r + 1) * PerDay <= q * PerDay /\ (r + 1) * PerDay = r * PerDay + PerDay
      BY <1>1, <1>2, <1>3
    <2>. QED
      BY <1>1, <1>2, <2>1
  <1>4. q <= r
    BY <1>1, <1>2, <1>3
  <1>. QED
    BY <1>1, <1>2, <1>4 DEF q, r

\* So are months.
LEMMA MonthsInOrder ==
  ASSUME NEW s \in Int, NEW t \in Int, s <= t
  PROVE  MonthOf(s) \in Nat /\ MonthOf(t) \in Nat /\ MonthOf(s) <= MonthOf(t)
  <1>. DEFINE Begun(d) == {m \in DOMAIN MonthStart : MonthStart[m] <= d}
              a == DayOf(s)
              b == DayOf(t)
  <1>1. a \in Int /\ b \in Int /\ a <= b
    BY DaysInOrder DEF DayOf
  <1>. HIDE DEF a, b
  <1>2. DOMAIN MonthStart = 1 .. 12 /\ \A m \in 1 .. 12 : MonthStart[m] \in Int
    BY DEF MonthStart
  <1>3. IsFiniteSet(DOMAIN MonthStart)
    <2>1. \A i, j \in Int : IsFiniteSet(i .. j)
      BY FS_Interval
    <2>2. 1 \in Int /\ 12 \in Int
      OBVIOUS
    <2>3. IsFiniteSet(1 .. 12)
      BY <2>1, <2>2, Zenon
    <2>. QED
      BY <1>2, <2>3, Zenon
  <1>4. Begun(a) \subseteq Begun(b)
    BY <1>1, <1>2
  <1>5. Begun(b) \in SUBSET DOMAIN MonthStart
    OBVIOUS
  <1>. HIDE DEF Begun
  <1>6. IsFiniteSet(Begun(b))
    BY <1>3, <1>5, FS_Subset
  <1>7. IsFiniteSet(Begun(a)) /\ Cardinality(Begun(a)) <= Cardinality(Begun(b))
    BY <1>4, <1>6, FS_Subset
  <1>8. Cardinality(Begun(a)) \in Nat /\ Cardinality(Begun(b)) \in Nat
    BY <1>6, <1>7, FS_CardinalityType
  <1>. QED
    BY <1>7, <1>8 DEF MonthOf, Begun, a, b

\* A window that is due is due later as well, and one that began earlier is.
LEMMA DueStaysDue ==
  ASSUME NEW w, NEW s \in Nat \cup {Unset}, NEW r \in Nat \cup {Unset}, r <= s,
         NEW t \in Int, NEW u \in Int, t <= u, ShouldReset(w, s, t)
  PROVE  ShouldReset(w, r, u)
  <1>1. s \in Int /\ r \in Int /\ Unset \in Int
    BY DEF Unset
  <1>2. CASE r = Unset
    BY <1>2 DEF ShouldReset
  <1>3. CASE r # Unset
    <2>1. s # Unset
      BY <1>3 DEF Unset
    <2>2. /\ DayOf(r) \in Int /\ DayOf(s) \in Int /\ DayOf(r) <= DayOf(s)
          /\ DayOf(t) \in Int /\ DayOf(u) \in Int /\ DayOf(t) <= DayOf(u)
      BY <1>1, DaysInOrder DEF DayOf
    <2>3. NumDays(s, t) \in Int /\ NumDays(r, u) \in Int /\ NumDays(s, t) <= NumDays(r, u)
      <3>1. t - s \in Int /\ u - r \in Int /\ t - s <= u - r
        BY <1>1
      <3>. QED
        BY <3>1, DaysInOrder DEF NumDays
    <2>4. /\ MonthOf(r) \in Nat /\ MonthOf(s) \in Nat /\ MonthOf(r) <= MonthOf(s)
          /\ MonthOf(t) \in Nat /\ MonthOf(u) \in Nat /\ MonthOf(t) <= MonthOf(u)
      BY <1>1, MonthsInOrder
    <2>. QED
      BY <2>1, <2>2, <2>3, <2>4 DEF ShouldReset
  <1>. QED
    BY <1>2, <1>3

(***************************************************************************)
(* What is known of a copy u of a key's usage (the row, the copy a sync    *)
(* holds, the cache), r being the key's real charges and total those that  *)
(* the cache knows of.  A copy from before the window opened is due for    *)
(* its reset; one from after it counts all that was charged up to the copy.*)
(***************************************************************************)
Covers(w, r, total, u) ==
  /\ u.start < r.opened => ShouldReset(w, u.start, r.opened)
  /\ r.spent + u.total <= r.lost + total + (IF u.start < r.opened THEN 0 ELSE u.window)

Accounted(k) ==
  LET known(u) == Covers(Window[k], real[k], cache[k].usage.total, u)
  IN  /\ row[k].usage.start <= cache[k].usage.start
      /\ cache[k].usage.start <= now
      /\ known(row[k].usage) /\ known(cache[k].usage)
      /\ k \in DOMAIN held => /\ row[k].usage.start <= held[k].start
                              /\ held[k].start <= cache[k].usage.start
                              /\ known(held[k])

Uncharged == [spent |-> 0, opened |-> Unset, lost |-> 0]

RealInv ==
  /\ \A k \in Keys : real[k].opened <= now
  /\ \A k \in Keys \ DOMAIN row : real[k] = Uncharged
  /\ \A k \in DOMAIN row : Enabled(k) => Accounted(k)

\* What a charge does to the key's window, its real charges, and another copy v
\* of its usage.
LEMMA ChargeCovers ==
  ASSUME TypeOK, NEW k \in Keys, NEW c \in Costs, NEW u \in Usage, NEW v \in Usage,
         real[k].opened <= now, u.start <= now, v.start <= u.start, v.total <= u.total,
         Covers(Window[k], real[k], u.total, u), Covers(Window[k], real[k], u.total, v)
  PROVE  /\ Covers(Window[k], Billed(k, u.start, c), Charged(k, u, c).total, v)
         /\ Covers(Window[k], Billed(k, u.start, c), Charged(k, u, c).total, Charged(k, u, c))
         /\ u.start <= Charged(k, u, c).start /\ Charged(k, u, c).start <= now
         /\ Billed(k, u.start, c).opened <= now
  <1>. DEFINE r  == real[k]
              w  == Window[k]
              u2 == Charged(k, u, c)
              r2 == Billed(k, u.start, c)
  <1>1. /\ now \in Nat /\ c \in Nat
        /\ r \in [spent: Nat, opened: Nat \cup {Unset}, lost: Nat]
    BY KeyUsageAssumption DEF TypeOK
  <1>2. /\ r.spent \in Nat /\ r.opened \in Nat \cup {Unset} /\ r.lost \in Nat
        /\ r = [spent |-> r.spent, opened |-> r.opened, lost |-> r.lost]
    BY <1>1
  <1>3. /\ u.total \in Nat /\ u.window \in Nat /\ u.start \in Nat \cup {Unset}
        /\ v.total \in Nat /\ v.window \in Nat /\ v.start \in Nat \cup {Unset}
        /\ u = [total |-> u.total, window |-> u.window, start |-> u.start]
    BY DEF Usage
  <1>4. Unset \in Int /\ now \in Int
    BY <1>1 DEF Unset
  <1>5. CASE ShouldReset(w, u.start, now)
    <2>1. u2 = [total |-> u.total + c, window |-> c, start |-> now]
      BY <1>5 DEF Charged
    <2>2. ShouldReset(w, v.start, now)
      BY <1>3, <1>4, <1>5, DueStaysDue
    <2>3. CASE ShouldReset(w, r.opened, now)
      <3>1. r2 = [spent |-> c, opened |-> now, lost |-> r.lost]
        BY <1>2, <1>5, <2>3 DEF Billed
      <3>. QED
        BY <1>1, <1>2, <1>3, <1>4, <2>1, <2>2, <3>1 DEF Covers
    <2>4. CASE ~ShouldReset(w, r.opened, now)
      <3>1. r2 = [spent |-> r.spent + c, opened |-> r.opened, lost |-> r.lost]
        BY <1>2, <2>4 DEF Billed
      <3>2. u.start < r.opened
        <4>1. ~(r.opened <= u.start)
          BY <1>2, <1>3, <1>4, <1>5, <2>4, DueStaysDue
        <4>. QED
          BY <1>2, <1>3, <1>4, <4>1
      <3>3. r.spent <= r.lost
        BY <1>2, <1>3, <3>2 DEF Covers
      <3>. QED
        BY <1>1, <1>2, <1>3, <1>4, <2>1, <3>1, <3>3 DEF Covers
    <2>. QED
      BY <2>3, <2>4
  <1>6. CASE ~ShouldReset(w, u.start, now)
    <2>1. u2 = [total |-> u.total + c, window |-> u.window + c, start |-> u.start]
      <3>1. u2 = [u EXCEPT !.total = @ + c, !.window = @ + c]
        BY <1>6 DEF Charged
      <3>. QED
        BY <1>3, <3>1
    <2>2. r2 = [spent |-> r.spent + c, opened |-> r.opened, lost |-> r.lost]
      BY <1>2, <1>6 DEF Billed
    <2>3. ~(u.start < r.opened)
      <3>1. ASSUME ShouldReset(w, u.start, r.opened) PROVE FALSE
        BY <1>2, <1>3, <1>4, <1>6, <3>1, DueStaysDue
      <3>. QED
        BY <3>1 DEF Covers
    <2>. QED
      BY <1>1, <1>2, <1>3, <1>4, <2>1, <2>2, <2>3 DEF Covers
  <1>. QED
    BY <1>5, <1>6

\* The copies of a key's usage, as ChargeCovers needs them.
LEMMA CopiesTyped ==
  ASSUME IInv
  PROVE  /\ \A k \in DOMAIN row : k \in Keys /\ row[k].usage \in Usage
         /\ \A k \in DOMAIN cache : cache[k].usage \in Usage
         /\ \A k \in DOMAIN held : held[k] \in Usage
         /\ \A k \in DOMAIN row : Enabled(k) => k \in DOMAIN cache
         /\ DOMAIN cache \subseteq DOMAIN row /\ DOMAIN held \subseteq DOMAIN row
         /\ \A k \in Keys : real[k] \in [spent: Nat, opened: Nat \cup {Unset}, lost: Nat]
         /\ DOMAIN real = Keys /\ now \in Nat
  BY DEF IInv, TypeOK, Row, EnabledAreCached, SyncShape

\* Every step keeps the account.
LEMMA RealStep ==
  ASSUME IInv, RealInv, [Next]_vars
  PROVE  RealInv'
  <1>. USE CopiesTyped DEF RealInv, Accounted, Enabled, store, sync
  <1>0. TotalsOrdered /\ RealInv
    BY DEF IInv
  <1>1. CASE UNCHANGED <<row, cache, held, real>> /\ now' = now
    BY <1>0, <1>1
  <1>2. CASE Tick
    <2>1. now' = now + 1 /\ UNCHANGED <<row, cache, held, real>>
      BY <1>2 DEF Tick
    <2>2. ASSUME NEW t \in Nat \cup {Unset}, t <= now PROVE t <= now'
      BY <2>1, <2>2 DEF Unset
    <2>3. \A k \in Keys : real[k].opened <= now'
      BY <1>0, <2>2
    <2>4. \A k \in DOMAIN row : Enabled(k) => cache[k].usage.start <= now'
      BY <1>0, <2>2 DEF Usage
    <2>. QED
      BY <1>0, <2>1, <2>3, <2>4
  <1>3. ASSUME NEW k \in Keys, CreateKey(k) PROVE RealInv'
    <2>1. /\ k \notin DOMAIN row /\ DOMAIN row' = DOMAIN row \cup {k}
          /\ row'[k].usage = NoUsage /\ cache'[k].usage = NoUsage
          /\ UNCHANGED <<held, real, now>>
      BY <1>3 DEF CreateKey, Put
    <2>2. \A j \in DOMAIN row : row'[j] = row[j]
      BY <1>3 DEF CreateKey, Put
    <2>3. \A j \in DOMAIN cache : cache'[j] = cache[j]
      BY <1>3 DEF CreateKey, Put
    <2>4. real[k] = Uncharged /\ k \notin DOMAIN held
      BY <2>1
    <2>5. Accounted(k)'
      BY <2>1, <2>4 DEF Uncharged, NoUsage, Covers, Unset
    <2>6. \A j \in DOMAIN row : Enabled(j)' => Accounted(j)'
      BY <2>1, <2>2, <2>3
    <2>. QED
      BY <2>1, <2>5, <2>6
  <1>4. ASSUME NEW k \in Keys, Disable(k) PROVE RealInv'
    <2>1. /\ k \in DOMAIN row /\ row' = [row EXCEPT ![k].disabled = TRUE]
          /\ row[k] \in Row /\ UNCHANGED <<cache, held, real, now>>
      BY <1>4 DEF Disable, IInv, TypeOK
    <2>2. /\ DOMAIN row' = DOMAIN row /\ row'[k].disabled = TRUE
          /\ \A j \in DOMAIN row \ {k} : row'[j] = row[j]
      BY <2>1 DEF Row
    <2>. QED
      BY <1>0, <2>1, <2>2
  <1>5. ASSUME NEW k \in Keys, Evict(k) PROVE RealInv'
    <2>1. row[k].disabled /\ UNCHANGED <<row, held, real, now>>
      BY <1>5 DEF Evict, IInv, EnabledAreCached
    <2>2. \A j \in DOMAIN cache \ {k} : cache'[j] = cache[j]
      BY <1>5 DEF Evict, Drop
    <2>. QED
      BY <1>0, <2>1, <2>2
  <1>6. ASSUME NEW w \in Workers, Admit(w) \/ Refuse(w) PROVE RealInv'
    <2>1. \A j \in DOMAIN cache : cache'[j].usage = cache[j].usage
      BY <1>6, PublishStep
    <2>2. UNCHANGED <<row, held, real, now>>
      BY <1>6 DEF Admit, Refuse
    <2>. QED
      BY <1>0, <2>1, <2>2
  <1>7. ASSUME NEW w \in Workers, NEW c \in Costs, Charge(w, c) PROVE RealInv'
    <2>0. PICK k \in Keys : k = work[w].key
      BY <1>7, ChargeStep
    <2>1. /\ k \in DOMAIN row /\ k \in Keys
          /\ \A j \in DOMAIN cache \ {k} : cache'[j] = cache[j]
          /\ UNCHANGED <<row, held, now>>
      BY <1>7, <2>0, ChargeStep DEF Charge
    <2>2. CASE k \notin DOMAIN cache
      BY <1>0, <1>7, <2>0, <2>1, <2>2 DEF Charge
    <2>3. CASE k \in DOMAIN cache
      <3>. DEFINE u  == cache[k].usage
                  u2 == Charged(k, u, c)
                  r2 == Billed(k, u.start, c)
      <3>1. cache'[k].usage = u2 /\ real' = [real EXCEPT ![k] = r2]
        BY <1>7, <2>0, <2>3 DEF Charge, IInv, TypeOK, Row
      <3>2. real'[k] = r2 /\ \A j \in Keys \ {k} : real'[j] = real[j]
        BY <2>1, <3>1
      <3>3. real[k].opened <= now /\ u \in Usage /\ now \in Nat
        BY <1>0, <2>1, <2>3
      <3>4. ASSUME Enabled(k)
            PROVE  /\ Covers(Window[k], r2, u2.total, row[k].usage)
                   /\ Covers(Window[k], r2, u2.total, u2)
                   /\ u.start <= u2.start /\ u2.start <= now
                   /\ k \in DOMAIN held => Covers(Window[k], r2, u2.total, held[k])
        <4>1. /\ row[k].usage \in Usage /\ row[k].usage.start <= u.start /\ u.start <= now
              /\ row[k].usage.total <= u.total /\ u.total <= u.total /\ u.start <= u.start
              /\ Covers(Window[k], real[k], u.total, u)
              /\ Covers(Window[k], real[k], u.total, row[k].usage)
          BY <1>0, <2>1, <3>3, <3>4 DEF TotalsOrdered, Usage, Unset
        <4>2. /\ Covers(Window[k], r2, u2.total, row[k].usage)
              /\ Covers(Window[k], r2, u2.total, u2)
              /\ u.start <= u2.start /\ u2.start <= now
          BY <2>1, <3>3, <4>1, ChargeCovers DEF IInv
        <4>3. ASSUME k \in DOMAIN held PROVE Covers(Window[k], r2, u2.total, held[k])
          <5>1. /\ held[k] \in Usage /\ held[k].start <= u.start /\ held[k].total <= u.total
                /\ Covers(Window[k], real[k], u.total, held[k])
            BY <1>0, <2>1, <3>4, <4>3 DEF TotalsOrdered
          <5>. QED
            BY <2>1, <3>3, <4>1, <5>1, ChargeCovers DEF IInv
        <4>. QED
          BY <4>2, <4>3
      <3>5. r2.opened <= now
        BY <2>1, <3>3 DEF Billed
      <3>6. Enabled(k) => Accounted(k)'
        <4>. SUFFICES ASSUME Enabled(k) PROVE Accounted(k)'
          OBVIOUS
        <4>1. /\ row[k].usage \in Usage /\ u2 \in Usage
              /\ row[k].usage.start <= u.start
              /\ k \in DOMAIN held => /\ held[k] \in Usage /\ held[k].start <= u.start
                                      /\ row[k].usage.start <= held[k].start
          BY <1>0, <2>1, <3>3, ChargedFacts
        <4>2. row[k].usage.start <= u2.start /\ (k \in DOMAIN held => held[k].start <= u2.start)
          BY <3>3, <3>4, <4>1 DEF Usage, Unset
        <4>3. /\ row'[k] = row[k] /\ cache'[k].usage = u2 /\ real'[k] = r2
              /\ held' = held /\ now' = now
          BY <2>1, <3>1, <3>2
        <4>. HIDE DEF u, u2, r2
        <4>4. Enabled(k)
          OBVIOUS
        <4>. QED
          BY ONLY <3>4, <4>1, <4>2, <4>3, <4>4 DEF Accounted
      <3>7. \A j \in DOMAIN row \ {k} : Enabled(j) => Accounted(j)'
        BY <1>0, <2>1, <3>2
      <3>8. \A j \in Keys : real'[j].opened <= now'
        BY <1>0, <2>1, <3>2, <3>5
      <3>9. \A j \in Keys \ DOMAIN row' : real'[j] = Uncharged
        BY <1>0, <2>1, <3>2
      <3>10. \A j \in DOMAIN row' : Enabled(j)' => Accounted(j)'
        BY ONLY <2>1, <3>6, <3>7 DEF Enabled
      <3>. QED
        BY ONLY <3>8, <3>9, <3>10 DEF RealInv
    <2>. QED
      BY <2>2, <2>3
  <1>8. ASSUME NEW k \in Keys, SyncRead(k) PROVE RealInv'
    <2>1. UNCHANGED <<row, cache, real, now>>
      BY <1>8 DEF SyncRead
    <2>2. \A j \in DOMAIN held' : j \in DOMAIN cache /\ held'[j] = cache[j].usage
      BY <1>8 DEF SyncRead, Put
    <2>3. \A j \in DOMAIN cache : cache[j].usage.start <= cache[j].usage.start
      BY DEF Usage, Unset
    <2>. QED
      BY <1>0, <2>1, <2>2, <2>3
  <1>9. ASSUME NEW k \in Keys, SyncWrite(k) PROVE RealInv'
    <2>1. /\ k \in DOMAIN held /\ k \in DOMAIN row /\ UNCHANGED <<cache, real, now>>
          /\ row' = [row EXCEPT ![k].usage = held[k]] /\ row[k] \in Row
      BY <1>9 DEF SyncWrite, IInv, TypeOK
    <2>2. /\ DOMAIN row' = DOMAIN row /\ row'[k].usage = held[k]
          /\ row'[k].disabled = row[k].disabled
          /\ \A j \in DOMAIN row \ {k} : row'[j] = row[j]
      BY <2>1 DEF Row
    <2>3. DOMAIN held' = DOMAIN held \ {k}
          /\ \A j \in DOMAIN held \ {k} : held'[j] = held[j]
      BY <1>9 DEF SyncWrite, Drop
    <2>. QED
      BY <1>0, <2>1, <2>2, <2>3
  <1>10. ASSUME NEW k \in Keys, SyncWriteFails(k) PROVE RealInv'
    <2>1. UNCHANGED <<row, cache, real, now>>
      BY <1>10 DEF SyncWriteFails
    <2>2. DOMAIN held' = DOMAIN held \ {k}
          /\ \A j \in DOMAIN held \ {k} : held'[j] = held[j]
      BY <1>10 DEF SyncWriteFails, Drop
    <2>. QED
      BY <1>0, <2>1, <2>2
  <1>11. CASE Restart
    <2>1. UNCHANGED <<row, now>> /\ DOMAIN held' = {}
      BY <1>11 DEF Restart
    <2>2. DOMAIN cache' = {j \in DOMAIN row : ~row[j].disabled}
          /\ \A k \in DOMAIN cache' : cache'[k] = row[k]
      BY <1>11 DEF Restart
    <2>3. \A k \in Keys :
            real'[k] = IF k \in DOMAIN cache' /\ k \in DOMAIN cache
                       THEN [real[k] EXCEPT !.lost =
                               @ + (cache[k].usage.total - row[k].usage.total)]
                       ELSE real[k]
      BY <1>11 DEF Restart
    <2>4. \A k \in Keys : real'[k].opened = real[k].opened /\ real'[k].spent = real[k].spent
      BY <2>3
    <2>5. ASSUME NEW k \in DOMAIN row, Enabled(k) PROVE Accounted(k)'
      <3>1. /\ cache'[k] = row[k] /\ row'[k] = row[k] /\ now' = now /\ k \notin DOMAIN held'
            /\ real'[k].lost = real[k].lost + (cache[k].usage.total - row[k].usage.total)
        <4>1. k \in Keys /\ k \in DOMAIN cache /\ k \in DOMAIN cache'
          BY <2>2, <2>5
        <4>2. real'[k] = [real[k] EXCEPT !.lost =
                             @ + (cache[k].usage.total - row[k].usage.total)]
              /\ real[k] \in [spent: Nat, opened: Nat \cup {Unset}, lost: Nat]
          BY <2>3, <4>1
        <4>. QED
          BY ONLY <2>1, <2>2, <4>1, <4>2
      <3>2. /\ row[k].usage \in Usage /\ cache[k].usage \in Usage
            /\ row[k].usage.start <= cache[k].usage.start /\ cache[k].usage.start <= now
            /\ Covers(Window[k], real[k], cache[k].usage.total, row[k].usage)
        BY <1>0, <2>5
      <3>3. row[k].usage.start <= row[k].usage.start /\ row[k].usage.start <= now
        BY <3>2 DEF Usage, Unset
      <3>4. Covers(Window[k], real'[k], row[k].usage.total, row[k].usage)
        <4>1. /\ real[k].lost \in Nat /\ real[k].spent \in Nat
              /\ row[k].usage.total \in Nat /\ cache[k].usage.total \in Nat
              /\ row[k].usage.window \in Nat
          BY <3>2 DEF Usage
        <4>. QED
          BY <2>4, <3>1, <3>2, <4>1 DEF Covers
      <3>. QED
        BY <3>1, <3>3, <3>4
    <2>6. \A k \in Keys \ DOMAIN row : real'[k] = real[k]
      BY <2>2, <2>3
    <2>. QED
      BY <1>0, <2>1, <2>4, <2>5, <2>6
  <1>12. Next => \/ UNCHANGED <<row, cache, held, real>> /\ now' = now
                 \/ Tick
                 \/ \E k \in Keys : \/ CreateKey(k) \/ Disable(k) \/ Evict(k)
                                    \/ SyncRead(k) \/ SyncWrite(k) \/ SyncWriteFails(k)
                 \/ \E w \in Workers : \/ Admit(w) \/ Refuse(w)
                                       \/ \E c \in Costs : Charge(w, c)
                 \/ Restart
    BY DEF Next, Background, AuthRead, UpstreamFails, Record, RecordFails,
           Receive, SyncStart, SyncEnd
  <1>. QED
    BY <1>1, <1>2, <1>3, <1>4, <1>5, <1>6, <1>7, <1>8, <1>9, <1>10, <1>11, <1>12 DEF vars

-----------------------------------------------------------------------------
(* The theorems.                                                           *)

\* An empty store satisfies the invariant.
LEMMA InitIInv == Init => IInv
  <1>. SUFFICES ASSUME Init PROVE IInv
    OBVIOUS
  <1>. USE DEF Init
  <1>1. TypeOK
    BY KeyUsageAssumption DEF TypeOK, Work, Idle
  <1>2. WorkOnKeys /\ EnabledAreCached /\ SyncShape
    BY DEF WorkOnKeys, EnabledAreCached, SyncShape, Idle
  <1>3. CapKept /\ TotalsOrdered /\ HeldIsCurrentOrFollowed /\ UnsyncedIsScheduled
    BY DEF CapKept, TotalsOrdered, HeldIsCurrentOrFollowed, UnsyncedIsScheduled
  <1>. QED
    BY <1>1, <1>2, <1>3 DEF IInv

\* Every reachable state satisfies the inductive invariant.
THEOREM Invariance == Spec => []IInv
  <1>1. IInv /\ [Next]_vars => IInv'
    <2>. SUFFICES ASSUME IInv, [Next]_vars PROVE IInv'
      OBVIOUS
    <2>. QED
      BY TypeStep, ShapeStep, TotalsStep, SyncStep, CapStep DEF IInv
  <1>. QED
    BY <1>1, InitIInv, PTL DEF Spec

\* Requests, syncs, restarts and administration keep every variable in its type.
THEOREM TypeCorrect == Spec => []TypeOK
  <1>1. IInv => TypeOK
    BY DEF IInv
  <1>. QED
    BY <1>1, Invariance, PTL

\* However many requests validate_inner admits at once, what a key is really
\* charged in a window passes its cap by less than one most expensive request of
\* each of them, and by no more than that and what restarts made the process
\* forget.
THEOREM OvershootIsBounded == Spec => []OvershootBounded
  <1>1. Init => RealInv
    BY DEF Init, RealInv, Uncharged, Unset
  <1>2. IInv /\ RealInv /\ [Next]_vars => RealInv'
    BY RealStep
  <1>3. IInv /\ RealInv => OvershootBounded
    <2>. SUFFICES ASSUME IInv, RealInv, NEW k \in DOMAIN cache, Budget[k] > 0, ~row[k].disabled
                  PROVE  real[k].spent < Cap(k) + real[k].lost
      BY DEF OvershootBounded, Cap
    <2>1. /\ k \in DOMAIN row /\ k \in Keys
          /\ cache[k].usage.window \in Nat /\ cache[k].usage.total \in Nat
          /\ real[k].spent \in Nat /\ real[k].lost \in Nat
      BY CopiesTyped DEF Usage
    <2>2. Fits(k, cache[k].usage.window, Upstream(k))
      BY <2>1 DEF IInv, CapKept, Enabled
    <2>3. Upstream(k) \in SUBSET Workers
      BY DEF Upstream
    <2>4. cache[k].usage.window < Cap(k)
      BY <2>1, <2>2, <2>3, FitsFacts
    <2>5. Cap(k) \in Nat
      <3>1. Cardinality(Workers) \in Nat
        BY WorkerSets
      <3>. QED
        BY <2>1, <3>1, Room, KeyUsageAssumption DEF Cap
    <2>6. real[k].spent <= real[k].lost + cache[k].usage.window
      BY <2>1 DEF RealInv, Accounted, Enabled, Covers
    <2>. QED
      BY <2>1, <2>4, <2>5, <2>6
  <1>. QED
    BY <1>1, <1>2, <1>3, Invariance, PTL DEF Spec

\* Clearing pending_keys as a whole loses no charge: what SQLite does not have
\* is always on its way there, unless a write failed.
THEOREM NothingForgotten == Spec => []UnsyncedIsScheduled
  <1>1. IInv => UnsyncedIsScheduled
    BY DEF IInv
  <1>. QED
    BY <1>1, Invariance, PTL

\* The stored total of an enabled key never goes down, although every admission
\* rewrites the cache entry that the write-behind reads.
THEOREM StoredTotalsGrow == Spec => RowTotalMonotone
  <1>1. IInv /\ [Next]_vars =>
          [\A k \in DOMAIN row :
             ~row[k].disabled => row'[k].usage.total >= row[k].usage.total]_vars
    BY TotalsStep DEF Enabled
  <1>. QED
    BY <1>1, Invariance, PTL DEF Spec, RowTotalMonotone

\* Without failures and restarts no charge is lost or counted twice, although
\* every admission rewrites the cache entry from an older row (lookup_for_auth
\* keeps the local counters).
THEOREM BillsAgree == Spec => []TotalsAgree
  <1>1. Init => BillInv
    BY DEF Init, BillInv
  <1>2. IInv /\ BillInv /\ [Next]_vars => BillInv'
    BY BillStep
  <1>3. IInv /\ BillInv => TotalsAgree
    <2>. SUFFICES ASSUME IInv, BillInv, NEW k \in DOMAIN cache,
                         crashes = 0, k \notin dropped, ~row[k].disabled
                  PROVE  cache[k].usage.total
                           = history[k] + MapThenSumSet(LAMBDA w : work[w].cost, Charging(k))
      BY DEF TotalsAgree
    <2>1. k \in DOMAIN row
      BY DEF IInv, TypeOK
    <2>2. Inserting(k) = MapThenSumSet(LAMBDA w : work[w].cost, Charging(k))
      BY DEF Inserting, SumOf
    <2>. QED
      BY <2>1, <2>2 DEF BillInv, Enabled
  <1>. QED
    BY <1>1, <1>2, <1>3, Invariance, PTL DEF Spec
=============================================================================
