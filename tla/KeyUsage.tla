------------------------------ MODULE KeyUsage ------------------------------
(***************************************************************************)
(* Virtual keys: admission against a budget, usage accounting in memory,   *)
(* and its write-behind to SQLite.                                         *)
(*                                                                         *)
(* Requests run concurrently.  Each reads the key's row, publishes it into *)
(* the cache and is judged on what it published, calls upstream, then      *)
(* charges the cache, inserts a usage_history row and asks the background  *)
(* task to write the key's usage back.  The background task takes          *)
(* messages and, on its interval, writes every pending key, one at a time, *)
(* while it takes no message.                                              *)
(***************************************************************************)
EXTENDS BudgetWindow, FiniteSetsExt

CONSTANTS
  Keys,       \* virtual keys
  Workers,    \* requests that can be in progress at a time
  Budget,     \* [Keys -> Nat]: max_budget_usd
  Window,     \* [Keys -> Windows]: budget_window
  Costs,      \* what a request can cost (0: record_request)
  MaxCost,    \* the largest of them
  MaxTime,    \* bound on the clock
  MaxBills,   \* bound on the requests that are charged
  MaxCrashes, \* bound on restarts
  DbFails     \* TRUE if a SQLite write may fail

ASSUME KeyUsageAssumption ==
  /\ IsFiniteSet(Workers)
  /\ Budget \in [Keys -> Nat]
  /\ Window \in [Keys -> Windows]
  /\ MaxCost \in Nat
  /\ Costs \subseteq 0..MaxCost
  /\ MaxTime \in Nat
  /\ MaxBills \in Nat
  /\ MaxCrashes \in Nat
  /\ DbFails \in BOOLEAN

VARIABLES
  now,      \* the wall clock
  row,      \* virtual_keys in SQLite: disabled and usage, by key
  history,  \* usage_history in SQLite: the sum of cost_usd, by key
  cache,    \* the cache: disabled and usage, by key
  evicting, \* disable_key calls between their UPDATE and cache.remove
  work,     \* request tasks
  chan,     \* SyncUsage messages in the channel, by key
  pending,  \* the background task's pending_keys
  flush,    \* keys that the sync in progress still has to visit
  syncing,  \* a sync is in progress
  held,     \* usage read from the cache whose UPDATE has not returned, by key
  refused,  \* history: the last budget refusal, as <<key, instant>>
  dropped,  \* history: keys that had a write fail
  bills,    \* history: number of charges
  real,     \* history: what each key was really charged
  crashes   \* history: number of restarts

vars == <<now, row, history, cache, evicting, work, chan, pending, flush,
          syncing, held, refused, dropped, bills, real, crashes>>
store == <<row, history, cache, evicting>>
sync  == <<chan, pending, flush, syncing, held>>

\* KeyUsage::default, and what the accounting keeps of it.
NoUsage == [total |-> 0, window |-> 0, start |-> Unset]
Idle    == [at |-> "idle"]

Put(f, x, v) == [y \in DOMAIN f \cup {x} |-> IF y = x THEN v ELSE f[y]]
Drop(f, x)   == [y \in DOMAIN f \ {x} |-> f[y]]

\* Fault: a key is refused only once it is past its cap.
OverBudgetStrictly(k, usage) == usage.window > Budget[k]

OverBudget(k, usage) == usage.window >= Budget[k]

Init ==
  /\ now = 0
  /\ row = [k \in {} |-> {}]
  /\ history = [k \in Keys |-> 0]
  /\ cache = [k \in {} |-> {}]
  /\ evicting = {}
  /\ work = [w \in Workers |-> Idle]
  /\ chan = [k \in Keys |-> 0]
  /\ pending = {}
  /\ flush = {}
  /\ syncing = FALSE
  /\ held = [k \in {} |-> {}]
  /\ refused = <<>>
  /\ dropped = {}
  /\ bills = 0
  /\ real = [k \in Keys |-> [spent |-> 0, opened |-> Unset, lost |-> 0]]
  /\ crashes = 0

Tick ==
  /\ now < MaxTime
  /\ now' = now + 1
  /\ UNCHANGED <<store, work, sync, refused, dropped, bills, real, crashes>>

\* create_key: INSERT, then index and cache.  Nobody knows the key before.
CreateKey(k) ==
  /\ k \notin DOMAIN row
  /\ row' = Put(row, k, [disabled |-> FALSE, usage |-> NoUsage])
  /\ cache' = Put(cache, k, [disabled |-> FALSE, usage |-> NoUsage])
  /\ UNCHANGED <<now, history, evicting, work, sync, refused, dropped, bills, real,
                 crashes>>

-----------------------------------------------------------------------------
(* A request: validate_inner, the upstream call, record_usage.             *)

\* lookup_for_auth's SELECT.
AuthRead(w, k) ==
  /\ work[w].at = "idle"
  /\ k \in DOMAIN row
  /\ work' = [work EXCEPT ![w] = [at |-> "read", key |-> k, row |-> row[k]]]
  /\ UNCHANGED <<now, store, sync, refused, dropped, bills, real, crashes>>

\* Fault: the row's usage replaces the local counters.
PublishedFromRow(k, read) == read

\* The cache entry after lookup_for_auth: the row's authority, local usage.
Published(k, read) ==
  IF k \in DOMAIN cache
  THEN [read EXCEPT !.usage = cache[k].usage]
  ELSE read

\* lookup_for_auth's publication, then the checks on the same copy.
Admit(w) ==
  LET k   == work[w].key
      key == Published(k, work[w].row)
  IN  /\ work[w].at = "read"
      /\ ~key.disabled /\ ~OverBudget(k, key.usage)
      /\ cache' = Put(cache, k, key)
      /\ work' = [work EXCEPT ![w] = [at |-> "upstream", key |-> k]]
      /\ UNCHANGED <<now, row, history, evicting, sync, refused, dropped, bills, real,
                     crashes>>

Refuse(w) ==
  LET k   == work[w].key
      key == Published(k, work[w].row)
  IN  /\ work[w].at = "read"
      /\ key.disabled \/ OverBudget(k, key.usage)
      /\ cache' = Put(cache, k, key)
      /\ work' = [work EXCEPT ![w] = Idle]
      /\ refused' = IF key.disabled THEN refused ELSE <<k, now>>
      /\ UNCHANGED <<now, row, history, evicting, sync, dropped, bills, real, crashes>>

\* The upstream call fails or is abandoned: nothing is recorded.
UpstreamFails(w) ==
  /\ work[w].at = "upstream"
  /\ work' = [work EXCEPT ![w] = Idle]
  /\ UNCHANGED <<now, store, sync, refused, dropped, bills, real, crashes>>

Charged(k, usage, cost) ==
  IF ShouldReset(Window[k], usage.start, now)
  THEN [total |-> usage.total + cost, window |-> cost, start |-> now]
  ELSE [usage EXCEPT !.total = @ + cost, !.window = @ + cost]

\* History: what was charged since the key's window last opened.  A reset that
\* only repeats one that a restart made the process forget opens no window.
Billed(k, start, cost) ==
  IF ShouldReset(Window[k], start, now) /\ ShouldReset(Window[k], real[k].opened, now)
  THEN [real[k] EXCEPT !.spent = cost, !.opened = now]
  ELSE [real[k] EXCEPT !.spent = @ + cost]

\* update_usage on the cache.  A key that is no longer cached is not charged.
Charge(w, cost) ==
  LET k == work[w].key
  IN  /\ work[w].at = "upstream"
      /\ bills < MaxBills
      /\ bills' = bills + 1
      /\ cache' = IF k \in DOMAIN cache
                  THEN [cache EXCEPT ![k].usage = Charged(k, @, cost)]
                  ELSE cache
      /\ real' = IF k \in DOMAIN cache
                 THEN [real EXCEPT ![k] = Billed(k, cache[k].usage.start, cost)]
                 ELSE real
      /\ work' = [work EXCEPT ![w] = [at |-> "charged", key |-> k, cost |-> cost]]
      /\ UNCHANGED <<now, row, history, evicting, sync, refused, dropped, crashes>>

\* The usage_history INSERT, then the message to the background task.
Record(w) ==
  LET k == work[w].key
  IN  /\ work[w].at = "charged"
      /\ history' = [history EXCEPT ![k] = @ + work[w].cost]
      /\ chan' = [chan EXCEPT ![k] = @ + 1]
      /\ work' = [work EXCEPT ![w] = Idle]
      /\ UNCHANGED <<now, row, cache, evicting, pending, flush, syncing, held,
                     refused, dropped, bills, real, crashes>>

\* The INSERT fails: update_usage returns before it schedules the sync.
RecordFails(w) ==
  /\ DbFails
  /\ work[w].at = "charged"
  /\ dropped' = dropped \cup {work[w].key}
  /\ work' = [work EXCEPT ![w] = Idle]
  /\ UNCHANGED <<now, store, sync, refused, bills, real, crashes>>

-----------------------------------------------------------------------------
(* background_sync_task: one task, so it takes no message while it syncs.  *)

\* Fault: messages are taken by another task than the one that syncs.
ReceiveAnytime(k) ==
  /\ chan[k] > 0
  /\ chan' = [chan EXCEPT ![k] = @ - 1]
  /\ pending' = pending \cup {k}
  /\ UNCHANGED <<now, store, work, flush, syncing, held, refused, dropped,
                 bills, real, crashes>>

Receive(k) ==
  /\ ~syncing
  /\ chan[k] > 0
  /\ chan' = [chan EXCEPT ![k] = @ - 1]
  /\ pending' = pending \cup {k}
  /\ UNCHANGED <<now, store, work, flush, syncing, held, refused, dropped,
                 bills, real, crashes>>

SyncStart ==
  /\ ~syncing
  /\ pending # {}
  /\ syncing' = TRUE
  /\ flush' = pending
  /\ UNCHANGED <<now, store, work, chan, pending, held, refused, dropped, bills, real,
                 crashes>>

\* cache.get: a key that is not cached is skipped.
SyncRead(k) ==
  /\ k \in flush
  /\ DOMAIN held = {}
  /\ flush' = flush \ {k}
  /\ held' = IF k \in DOMAIN cache THEN Put(held, k, cache[k].usage) ELSE held
  /\ UNCHANGED <<now, store, work, chan, pending, syncing, refused, dropped,
                 bills, real, crashes>>

SyncWrite(k) ==
  /\ k \in DOMAIN held
  /\ row' = [row EXCEPT ![k].usage = held[k]]
  /\ held' = Drop(held, k)
  /\ UNCHANGED <<now, history, cache, evicting, work, chan, pending, flush,
                 syncing, refused, dropped, bills, real, crashes>>

\* The UPDATE fails: logged, and the next key is taken.
SyncWriteFails(k) ==
  /\ DbFails
  /\ k \in DOMAIN held
  /\ held' = Drop(held, k)
  /\ dropped' = dropped \cup {k}
  /\ UNCHANGED <<now, store, work, chan, pending, flush, syncing, refused,
                 bills, real, crashes>>

\* pending_keys.clear(), whatever became of the writes.
SyncEnd ==
  /\ syncing
  /\ flush = {}
  /\ DOMAIN held = {}
  /\ syncing' = FALSE
  /\ pending' = {}
  /\ UNCHANGED <<now, store, work, chan, flush, held, refused, dropped, bills, real,
                 crashes>>

-----------------------------------------------------------------------------
(* Administration and restarts.                                            *)

\* disable_key, or the CLI's own process, which has another cache to evict.
Disable(k) ==
  /\ k \in DOMAIN row
  /\ ~row[k].disabled
  /\ row' = [row EXCEPT ![k].disabled = TRUE]
  /\ evicting' \in {evicting, evicting \cup {k}}
  /\ UNCHANGED <<now, history, cache, work, sync, refused, dropped, bills, real, crashes>>

Evict(k) ==
  /\ k \in evicting
  /\ evicting' = evicting \ {k}
  /\ cache' = Drop(cache, k)
  /\ UNCHANGED <<now, row, history, work, sync, refused, dropped, bills, real, crashes>>

\* Memory is lost; KeyStore::new reloads the enabled keys.
Restart ==
  /\ crashes < MaxCrashes
  /\ crashes' = crashes + 1
  /\ cache' = [k \in {j \in DOMAIN row : ~row[j].disabled} |-> row[k]]
  /\ real' = [k \in Keys |->
                IF k \in DOMAIN cache' /\ k \in DOMAIN cache
                THEN [real[k] EXCEPT !.lost =
                        @ + (cache[k].usage.total - row[k].usage.total)]
                ELSE real[k]]
  /\ evicting' = {}
  /\ work' = [w \in Workers |-> Idle]
  /\ chan' = [k \in Keys |-> 0]
  /\ pending' = {}
  /\ flush' = {}
  /\ syncing' = FALSE
  /\ held' = [k \in {} |-> {}]
  /\ UNCHANGED <<now, row, history, refused, dropped, bills>>

Background ==
  \/ \E k \in Keys : \/ Receive(k) \/ SyncRead(k)
                     \/ SyncWrite(k) \/ SyncWriteFails(k)
  \/ SyncStart
  \/ SyncEnd

Next ==
  \/ Tick
  \/ \E k \in Keys : CreateKey(k) \/ Disable(k) \/ Evict(k)
  \/ \E w \in Workers :
       \/ \E k \in Keys : AuthRead(w, k)
       \/ \E c \in Costs : Charge(w, c)
       \/ Admit(w) \/ Refuse(w) \/ UpstreamFails(w) \/ Record(w) \/ RecordFails(w)
  \/ Background
  \/ Restart

Spec == Init /\ [][Next]_vars

\* The runtime polls the background task and completes the INSERT of a
\* request that has been charged.
FairSpec ==
  /\ Spec
  /\ WF_vars(Background)
  /\ \A w \in Workers : WF_vars(Record(w))

-----------------------------------------------------------------------------
(* Properties.                                                             *)

Usage == [total: Nat, window: Nat, start: Nat \cup {Unset}]
Row   == [disabled: BOOLEAN, usage: Usage]
Work  == [at: {"idle"}]
         \cup [at: {"read"}, key: Keys, row: Row]
         \cup [at: {"upstream"}, key: Keys]
         \cup [at: {"charged"}, key: Keys, cost: Nat]

\* Every variable has its type.
TypeOK ==
  /\ now \in Nat
  /\ DOMAIN row \subseteq Keys /\ row \in [DOMAIN row -> Row]
  /\ DOMAIN cache \subseteq DOMAIN row /\ cache \in [DOMAIN cache -> Row]
  /\ history \in [Keys -> Nat]
  /\ evicting \subseteq Keys
  /\ work \in [Workers -> Work]
  /\ chan \in [Keys -> Nat]
  /\ pending \subseteq Keys
  /\ flush \subseteq pending
  /\ syncing \in BOOLEAN
  /\ DOMAIN held \subseteq pending /\ held \in [DOMAIN held -> Usage]
  /\ dropped \subseteq Keys
  /\ bills \in Nat
  /\ real \in [Keys -> [spent: Nat, opened: Nat \cup {Unset}, lost: Nat]]
  /\ crashes \in Nat

Charging(k) == {w \in Workers : work[w].at = "charged" /\ work[w].key = k}

\* Admission only compares what has been charged, so requests in flight can
\* pass the cap: what a key was really charged in a window stays within one
\* request of each worker of its cap, whatever resets, syncs, admissions and
\* evictions come between.  Restarts reload a row that a sync wrote earlier;
\* exactly what they forget comes on top (KeyStore::new, background_sync_task).
OvershootBounded ==
  \A k \in DOMAIN cache :
    Budget[k] > 0 /\ ~row[k].disabled =>
      real[k].spent < Budget[k] + Cardinality(Workers) * MaxCost + real[k].lost

\* Usage that SQLite does not have yet is on its way there: held by the sync,
\* pending, queued, or about to be queued by its request.  Only a write that
\* failed may leave it behind: pending_keys is cleared as a whole after a sync,
\* and charges keep coming while one is under way.
UnsyncedIsScheduled ==
  \A k \in DOMAIN cache :
    \/ cache[k].usage = row[k].usage
    \/ k \in DOMAIN held /\ held[k] = cache[k].usage
    \/ k \in (IF syncing THEN flush ELSE pending)
    \/ chan[k] > 0
    \/ Charging(k) # {}
    \/ k \in dropped
    \/ row[k].disabled

\* Without failures and restarts no charge is lost and none counted twice: the
\* total of an enabled key is its usage history plus the rows being inserted,
\* although every admission rewrites the cache entry from an older row.
TotalsAgree ==
  \A k \in DOMAIN cache :
    crashes = 0 /\ k \notin dropped /\ ~row[k].disabled =>
      cache[k].usage.total
        = history[k] + MapThenSumSet(LAMBDA w : work[w].cost, Charging(k))

\* The total SQLite keeps for an enabled key never goes down, over restarts too:
\* a sync never writes usage older than what an earlier sync wrote.
RowTotalMonotone ==
  [][\A k \in DOMAIN row :
       ~row[k].disabled => row'[k].usage.total >= row[k].usage.total]_vars

\* Once requests stop, write-behind catches up with every enabled key whose
\* writes did not fail.
EventuallySynced ==
  <>[](\A k \in DOMAIN cache :
         k \in dropped \/ row[k].disabled \/ row[k].usage = cache[k].usage)

\* BudgetWindow::Daily "Resets daily at midnight UTC": a request made on a later
\* day than the one the window began on is not refused for budget.
DailyBudgetReopens ==
  [][\A k \in Keys :
       /\ refused' # refused /\ refused'[1] = k
       /\ Window[k] = "daily" /\ Budget[k] > 0
       => DayOf(now) <= DayOf(cache'[k].usage.start)]_vars
=============================================================================
