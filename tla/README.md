# eavs: TLA+ models

`eavs` is an LLM gateway: clients send inference requests with virtual keys,
the gateway checks the key, its budget and its rate limits, chooses a provider
and a model, injects credentials, forwards, converts formats and accounts for
what was used. This directory models the parts of it whose correctness depends
on the order in which concurrent things happen, checks them with TLC on small
instances, and proves the most important facts with TLAPS for all instances.

Paths below are relative to the repository; a bare `x.rs` is `src/src/x.rs`.

## 1. Inventory

| Component | State | Operations | What is hard about it |
|---|---|---|---|
| Device enrollment ledger (`keys/store/enrollment.rs`) | invitation rows, virtual-key rows, the process's key cache | invite, revoke, redeem | two redemptions or a revocation at once; rollback and crash between claim and commit; a template that changes between read and insert or between invitation and redemption |
| Virtual key store (`keys/store.rs`, `keys/types.rs`) | `virtual_keys` and `usage_history` in SQLite, a `DashMap` cache, the pending set of a background task | create, `lookup_for_auth`, `update_usage`, `background_sync_task`, disable, restart | the cache is ahead of SQLite; every admission re-publishes a row it read earlier; failed writes; restarts |
| Key validation (`keys/validation.rs`) | none of its own | validate, `record_usage` | admission reserves nothing until the answer is complete |
| Budget windows (`keys/store.rs:862-899`) | `window_start`, `window_spend_usd` of a key | reset on a charge | midnights, whole days, months of different lengths |
| Rate limits (`keys/rate_limit.rs`) | two atomics for each limiter and key | `check_request`, `check_tokens`, `record_tokens`, `clear_key` | lock-free interleavings at a day's rollover and at a refill |
| Model availability (`availability.rs`, maintenance handlers in `api.rs`) | deactivations by provider and model, the last probe, a JSON file | deactivate, activate, `replace_active`, `apply_probe`, persist, load | two critical sections in one call; saves whose read and write are apart; entries of operator and prober in one map; TTLs |
| Availability prober (`prober.rs`) | when each provider is due | a probe round | answers folded in late, lost answers, a runtime that changes under it |
| Model pools (`pools.rs`) | cooldowns, sticky conversations | candidates, dispatch with retries | views taken before the attempts; cooldowns and the sticky map shared by all callers |
| OAuth token resolution and logins (`proxy.rs:4710-4832`, `oauth/`) | credential rows, or keychain entries and their index | read, refresh upstream, write back, log in, delete | rotating refresh tokens used by concurrent requests; unconditional write-back; two entries for one fact |
| Provider store (`provider_store.rs`) | provider rows, revisions, the backup of the last rotation, a cache | create, update, delete, rotate and roll back credentials | compare-and-swap over rows, cache and file; handlers dropped half way |
| Routing reload (`routing.rs`) | published snapshot, one staged candidate | preview, apply | two generations and a 60-second window, file changes in between |
| Conversations and live sessions (`state.rs`, WebSocket handlers in `proxy.rs`) | queued injections, session lists, the channels of each session's tasks | inject, take, register, unregister, evict, expire | delivery racing registration and removal; eviction in steps; tasks that end each other |
| Answers (`proxy.rs`, `transform/anthropic.rs`, `pi_messages/`) | the readers of one stream: parser, usage tracker, framer, machine, ledger | one chunk, one event, end, failure, departure | chunks cut anywhere; accounting on every way out |
| Jobs (`jobs.rs`) | signed job handles | create, poll, settle | repeated polls, settlement once |
| Upstream quota, subscription usage | cached quota snapshots | refresh, expire | stale answers |
| Inference and device ingress | admission state of a listener | restore shapes, forward | order of admission checks |
| Device configuration, setup, CLI, configuration, fleet registry | files | one-shot commands | none that is concurrent |
| Other transformations, signing, network policy, model knowledge, user interfaces | none shared, or tables | conversion, matching, presentation | large but sequential and pure |

How they interact: a request passes key validation (key store, rate limits),
availability, possibly a pool, OAuth resolution, and the provider chosen from
the routing snapshot and the provider store; when its answer ends,
`record_usage` charges the token bucket, the key's cache entry and
`usage_history` and sends a message to the background sync. The prober and the
maintenance endpoint both write the availability entries that the request path
and the pools read. Reloads and the provider store share the coordinator
`changes`. Enrollment creates rows of the key store and publishes them in its
cache. An injection goes to the open sessions of its conversation, or waits in
the conversation store for the next HTTP request.

What makes each component correct, in one line: an invitation yields at most
one key, never more than was approved, and revocation is final; charges are
neither lost nor counted twice and reach SQLite; a budget can be overshot only
by what was in flight; windows end when they should; a limiter accepts no more
than its limit unless a rollover races; an announce or a probe leaves exactly
the models available that it says and what was acknowledged survives a crash; a
pool request fails only if no member could have served it; a refresh token is
never lost without a fault; a name has one owner and what was previewed is what
is applied; an injection has one fate; an answer is told whole or ends in an
error, and is billed once for what upstream reported.

## 2. Modules

| Module | Models | Used by |
|---|---|---|
| `InvitationLedger` | abstract: one-shot tickets with an approval | refined by `Enrollment` |
| `Enrollment` | the enrollment ledger at the granularity of SQL statements | `MCEnrollment`, `EnrollmentProofs` |
| `BudgetWindow` | `should_reset` over the calendar of a year | `BudgetCalendar`, `KeyUsage` |
| `BudgetCalendar` | a key used at arbitrary instants through the year | itself, `RequestProofs` |
| `KeyUsage` | admission, charging and write-behind of virtual keys | `MCKeyUsage`, `KeyUsageProofs` |
| `DailyLimiter` | requests-per-day limiter | `MCRateLimits`, `RequestProofs` |
| `TokenBucket` | tokens-per-minute limiter | `MCRateLimits`, `RequestProofs` |
| `Availability` | deactivations, prober, file | `MCAvailability`, `AvailabilityProofs` |
| `Pools` | dispatch over old views, cooldowns, stickiness | `MCPools`, `PoolsProofs` |
| `LiveSessions` | conversation store, session lists, a WebSocket's tasks | `MCLiveSessions`, `LiveSessionsProofs` |
| `OAuthTokens` | refresh, write-back, login, deletion, keychain index | `MCOAuthTokens`, `OAuthTokensProofs` |
| `Providers` | reloads of the file and the provider store with its cache | `MCProviders`, `ProvidersProofs` |
| `UpstreamMessage` | the events of a streamed message and what they mean | `AnswerStream`, `PiTelling` |
| `PiTelling` | abstract: a message told in order, with one end | refined by `AnswerStream` |
| `AnswerStream` | an answer on the four ways to the client, and its bill | `MCAnswerStream`, `RequestProofs` |

In every module an action is what the code does between two points where
another task can run: an `.await`, a lock release, or, for the lock-free
limiters, a single atomic access. An operator whose comment begins with
"Fault:" is a plausible bug; the project's mutants put it in the place of the
operator after it to show that a property notices. Variables commented
"history" record what happened for the properties only; "bound" ones cap a run.
`RequestProofs` proves about the three modules that limit a key and about
`AnswerStream` together, and `MCRateLimits` runs the two limiters in one; that is
why the names in `TokenBucket`, `BudgetCalendar` and `AnswerStream` differ from
those of `DailyLimiter`.

### Enrollment

SQLite gives the write lock to a transaction with its first write and keeps it
until COMMIT or ROLLBACK; readers go on. `writer` is that lock. `InviteRead` /
`InviteInsert` are the SELECT and the INSERT of `invite_device`; `Claim`,
`Issue`, `Rollback` and `Publish` are the statements of `redeem_device` (the
claiming UPDATE, the key's INSERT with COMMIT, failure, and the publication in
the cache); `Revoke` is one UPDATE. `Restart` drops everything in memory,
including an open transaction. `Auths` stands for what `snapshot()` serialises
(permissions, owner, OAuth binding): the properties only ask whether it
changed. `call`, `claim` and `draft` are the local variables of the handlers.

The refinement to `InvitationLedger` maps a row that is not consumed to an open
ticket, and a consumed row to a redeemed ticket if a *committed* key refers to
it. A claim inside an open transaction is therefore still open: nobody but its
own transaction can see it, which is what the lock is for.

### BudgetWindow, BudgetCalendar

Instants are counted in `PerDay` steps from a new year's midnight. The calendar
is that of a common year. `Use` is a charge, the only place that resets a
window; all five windows are followed at once since they do not interact.

### KeyUsage

`AuthRead` is the SELECT of `lookup_for_auth`; `Admit` and `Refuse` are its
publication into the cache (atomic under the map's shard lock) and the checks
on the published copy. `Charge` is the cache part of `update_usage`, `Record`
the INSERT into `usage_history` and the message. The background task is
`Receive`, `SyncStart`, one `SyncRead` and `SyncWrite` per pending key, and
`SyncEnd`, which clears the pending set. The model keeps of a key: `disabled`,
total and window spending and the window's start. `real` is a history variable:
what each key was charged since its window opened, whatever the cache says, and
what restarts made the cache forget; a reset that only repeats a forgotten one
opens no new window. Messages are counted per key
since a set absorbs them. `Disable` stands for both callers of the UPDATE: the
server, which then evicts, and the command line's own process, which cannot.

Left out: `delete_key` and `Shutdown`, which nothing calls, and reservations,
which exist only under `cfg(test)`.

### DailyLimiter, TokenBucket

Each thread's program counter walks through the loads, stores and exchanges of
`check` / `consume`. Accesses are sequentially consistent; `Relaxed` is
stronger here than it looks, since every decision hangs on one variable and is
confirmed by an exchange, except for `store`s after a rollover, which the
models treat as separate steps anyway. In `TokenBucket` a request begins with
its estimate (`Begin`), or without a check when that is zero (`SkipCheck`), and
what its answer used is consumed in either case.

### Availability

One provider's entries, by name and model: the handler resolves the name in the
body (`Names` are the spellings that resolve to `Own`) but writes under the name
as it was typed; probes, requests and catalogs look under `Own`. `Announce`, `DeactivateOthers` and `ActivateListed` are
`mode=replace`: universe, first and second critical section. Every change is
followed by `SaveRead` (the state under the read lock) and `SaveWrite` (the
rename) as separate steps, and the caller continues after the save. The prober
is `ProbeAnswered` or `ProbeFails`, `Fold` (`apply_probe`'s critical section)
and `Compare` (its second look, which decides whether to save). `set_at` is not
kept; its only effect is that any write by a caller makes the prober's
comparison differ, which is the flag `raced`. `set_by` is `operator` for
every maintenance caller, whose ids the code never distinguishes. A TTL is an
instant of the clock; `Forever` is "no TTL". A lost or unreadable answer is one
action since the code folds them alike. `writer` is history: the call that wrote
last under `Own`.

### Pools

A slot `<<i, j>>` is the j-th known model under the i-th member; `Candidates`
is `candidates` with its filters (offered, not deactivated, permitted, not
cooling, not excluded) and `Pick` the choice of the sticky route or of the first
slot. `Arrive` takes the probe view, `ReadAvailability` reads one provider's
deactivations at a time (the lock is released between), `ReadSticky` the
conversation's route. Then `Dispatch` and the outcome alternate: `Refuse` (the
handler turns the key away), `Unavailable` (the model was deactivated since the
view), `Send` and `Answer`. `Outcome` is either `Retry` (cool the route, exclude
it, next attempt) or `Finish` (remember the conversation, cool a last failure,
answer). `Remember` contains the eviction of a full sticky map. `Probe`,
`Maintain` and `Tick` are the world; an entry and its cause are those of
`Availability`, seen from the reader. Which request follows which in a client is
`After`. A status is one of three kinds: success, retryable, other. `steady` and
`failed` are history.

### LiveSessions

`Deliver`, `Unlist`, `Add`, `Count`, `Choose` and `Evict` are the steps of
`POST /inject`: to the sessions that still receive, else into the store, and
then `maybe_evict`'s three steps. `Request`, `Clear` and `Cleanup` are the other
users of the store. A WebSocket is `Open` (register), `Connect` or
`ConnectFails`, then four tasks (`Tasks`): `ClientCloses` ends the reader,
`UpstreamCloses` and `UpstreamSends` the forwarder, `Forward` is the injector
and `Write` the writer; each ends when the ends of its channels are gone.
`Join` waits for all of them, `Leave` and `LeaveEmpty` are the guard's drop.
Payloads are the injections themselves and the close frame.

### OAuthTokens

A credential is a grant (one per login), the number of its refresh token, its
expiry and whether eavs owns it. `Resolve` reads and checks the credential,
`Exchange` asks the endpoint, `Upsert` stores; `Login` and `Callback` are a
login up to its own `Upsert`, `Delete` a deletion. The endpoint is external: it
accepts the current refresh token of a grant and, for a rotating provider,
replaces it. `AnswerLost` happens after the endpoint replaced the token,
`StoreFails` and `Crash` anywhere; each uses up `MaxFaults`. In the keychain the
credential and the list of providers are two entries: `ReadIndex` and
`WriteIndex` are two steps with no lock. `MisreadIndex`, a fault as well, is the
read of a list that cannot be fetched or parsed and counts as empty. `spoiled` is
history: two processes met in the list, or a fault did with one that edits it. `EndpointAssumption` says what the code
relies on: Anthropic's endpoint rotates (with no token in its answer the code
stores an empty one), GitHub's does not.

### Providers

A handler takes its job (`Ask...`), waits for the coordinator `changes`
(`Lock`) and runs under it. A reload loads the file before that (`Load`),
validates and compares (`Check`), and then stages the preview (`Stage`) or
publishes it (`Apply`). A handler of the store commits its row with the
compare-and-swap (`Commit`) and changes the cache (`Cache`) in a second step.
`fresh` numbers generations and revisions: the model takes from the code that a
new one was never given out before (for `save_provider` this rests on the
nanoseconds of `Utc::now()`). `Drop` ends a handler at whatever it awaits, and
`Restart` reads file and rows again.

### UpstreamMessage, AnswerStream, PiTelling

A message is a sequence of events; `Meaning(m)` in `UpstreamMessage` is what a
reader must make of it, whatever way it travels. In `AnswerStream` it arrives in
chunks that end at any of six places within an event: before it, inside the
word `event:`, inside its type, after that line, inside `data:`, inside the
JSON. Four paths read it. "translated" is `AnthropicStreamParser`: each chunk is
split into lines on its own, the type named last is kept across chunks, JSON
that does not parse gives the chunk up. "passed" looks for usage in each whole
line. "whole" is a body that is not streamed. "pi" is `Framer` (whose buffer is
the part of the message before `pos` that is not a whole event), `Machine` and
`Wire` (`Read`, `Parse`, `Finished`, `Failed`) and `Ledger` (`Observe`, and the
debit when it is dropped, of whatever was observed). The other paths debit what
`Debited` leaves: nothing if neither input nor output was counted. `Leave` is the client, `UpstreamFails` and
`PiUpstreamEnds` are upstream's ways to stop early.

Two assumptions say what upstream sends. `AnswerAssumption` is the order of a
message's events (`FollowsProtocol`): `message_start` comes first and only
there, nothing follows `message_stop`, blocks are opened in the order of their
numbers, a delta belongs to a block that was opened, and a block is stopped at
most once. A message may lack its stop, its reason or any of its counts, name a
reason that nobody knows, leave blocks open, continue one that was stopped, mix
kinds, or contain errors. `CountAssumption` is how it counts (`CountsUp`): a
`message_delta` repeats only the count of the output (`proxy.rs:2447` says so of
upstream, and the repository's tests send nothing else), which never falls, and
pieces of text are numbered as they are sent. Without the second a chunk whose
JSON is torn could leave the tracker with a count that upstream took back later.

The refinement maps what a Pi client was sent to `told`. Chunks, queueing and
accounting stutter; on the other paths `told` stays empty.

## 3. What the runs check

| Run | Instance | Distinct states | Shows |
|---|---|---|---|
| `enrollment` | 2 tokens, 2 redemptions, 2 templates (one expires at 3), device_ttl 2, clock to 3 | 1.2 M | `OneKeyPerInvitation`; `NeverBeyondApproval` (what was approved, until the earlier of device_ttl and the template); `SpentOnlyByKeyOrRevocation` (an open invitation never burns without a key or a revocation, crashes included); `RevokedYieldsNoKey`; `ImplementsLedger` |
| `key_usage` | 1 key, 2 workers, cost 2 on a daily budget of 2, 3 charges, 2 restarts, failing writes | 1.6 M | `OvershootBounded` (of what a key was really charged, restarts counted); `UnsyncedIsScheduled`; `TotalsAgree` (cache, row, history and what is in flight add up); `RowTotalMonotone`; `EventuallySynced` |
| `calendar` | 4 instants a day, gaps up to a day, 200 days | 0.9 M | `DailyStaysInItsDay` (at each charge); `SteadyWindowsEnd` |
| `rate_limits` | 3 threads, limit 2, two midnights; or 2 threads, limit 3, amounts 1 and 2 or no check, two refills | 1.5 M | `QuietDayCapped`; `RacedDayBounded`; `RefusedOnlyWhenFull`; `TokensAccountedFor`; `AdmittedBounded` |
| `availability` | shortlist of 2 models, 1 caller and the prober, TTL 1 or none, 3 environment events | 0.3 M | `AnnounceIsComplete` (with entries to refresh); `ServedComesBack`; `AbsentGoesOff` |
| `availability_calls` | the same with 2 callers, 2 spellings of the name and no TTL | 0.9 M | `SettledOnDisk`; `AnnounceIsComplete` (while others are under way) |
| `pools` | 3 requests, two of one conversation in turn; a probed wildcard, a plain member, a duplicate; 2 models, 2 attempts, a sticky map for one conversation | 0.9 M | `FailoverComplete`; `StaysHome`; `RestAfterFailure` |
| `live_sessions` | 2 messages for 2 conversations, a speech and a realtime session on the first, room for one conversation | 1.6 M | `OneFate`; `QuietWithinCapacity`; `SpeechEnds`; `GivenIsSent` |
| `oauth` | 3 requests, a login and a deletion over the accounts of a rotating and a non-rotating provider, either backend, 1 fault (a misread list among them), clock to 2 | 6.6 M | `RefreshTokenKept`; `IndexRight`; `FailureExplained` |
| `providers` | 1 name, 2 administrators of the file (with an invalid version of it) and 2 of the store, 4 requests, 1 dropped handler or restart | 4.1 M | `OneOwner`; `CacheAgrees`; `AppliedAsShown`; `RevisionNamesRow`; `RollbackUndoesRotation` |
| `answer_stream` | 14 messages (long, with tools, marred text, cached tokens with others and alone, missing counts, an odd reason, an error) on 4 paths, with every way to cut the body | 0.8 M | `ImplementsTelling`; `ChunksDoNotShow`; `BilledAsReported` |

Each property's comment in its module says what it means and which code it is
about.

Why the bounds are enough: the hazards these components have need at most two
actors of a kind (a third thread in `DailyLimiter` lets one be late by a day
while two compete; a third request in `Pools` comes back to a conversation; a
third one in `OAuthTokens` meets a second provider in the keychain's list), one
crash or fault, and one object to fight over; second objects are there where
something about one could leak to another (two tokens in `enrollment`, two
models where an announce turns one on and one off, two conversations where one
evicts the other). The keys of the key store share nothing but the background
task, whose loop over a pending set is one action per key; the instance has one
key, so a restart half way through that loop is not covered; nor are charges of
nothing (`record_request`), which the proofs cover. The providers of
the store share only the coordinator, so one name is enough. The calendar's 200
days contain months of 28, 30 and 31 days. The messages of `answer_stream`
contain each kind of event next to each that changes how it is read. Deadlock is
not checked: each instance stops when its bounds are used up. Symmetry is used
only in `enrollment`, `rate_limits` and `availability_calls`, where no liveness is
checked.

`AnnounceIsComplete` is about announces of a shortlist under the provider's own
name that no other call writes into, `IndexRight` about a list that is not
spoiled, `AdmittedBounded` about requests that were checked;
`AbsentGoesOff` leaves out an expired entry that nothing removes, `SpeechEnds`
and `GivenIsSent` say what holds of one kind of session only, and
`BilledAsReported` says what each path really records: section 5 lists what the
code does in the cases left out.

### Fairness

`KeyUsage`: weak fairness of the background task's loop (a spawned task that
never ends, driven by its interval) and of the INSERT of a charged request
(a spawned task too). Nothing is assumed of clients. `Availability`: weak
fairness of the clock, the probe loop (its requests have timeouts), and the
continuation of maintenance calls. The environment (calls, crashes, loadout
switches, lost answers) is not fair and is bounded by `MaxEvents`, so
"eventually" means: once the environment leaves the system alone.
`LiveSessions`: weak fairness of a session's tasks and its handler (polled by
the runtime), of upstream answering a connection attempt (it succeeds or times
out), and of upstream either sending or closing once the client is gone; no
client ever has to do anything. The other modules have only safety properties
and no fairness.

## 4. What is proved

Every theorem is proved for all values of the constants, under the assumptions
that its module names, which the runs evaluate as well. All 34 properties of
the passing runs that are not liveness are proved, the two refinements
(`ImplementsLedger`, `ImplementsTelling`) among them. Each proof module defines
its inductive invariants next to their explanation; the properties are seldom
inductive, and what they lack is this:

- `EnrollmentProofs` (`TypeCorrect`, `OneKey`, `WithinApproval`,
  `RevocationIsFinal`, `NothingElseSpends`, `EnrollmentIsALedger`). A key's
  invitation is consumed (`KeysAreSpentInvitations`), the only call between its
  claim and its COMMIT holds the write lock, and its token was not consumed
  before by a key (`ClaimsHoldTheLock`); then `Issue` cannot meet a second key,
  and `Claim` cannot find a consumed row free. `RevokedAreSpent` does the same
  for revocation, and `DraftsAreFresh` keeps an INSERT from reviving a token.
  `SpentInv`: what is spent has its key or was revoked, since rows are inserted
  unspent. For the refinement, `TicketFacts` reads a ticket off a row and the
  committed keys; three kinds of step are steps of the ledger (an INSERT opens a
  ticket, a COMMIT redeems it, a revocation voids it) and every other a stutter.
- `KeyUsageProofs` (`TypeCorrect`, `OvershootIsBounded`, `NothingForgotten`,
  `StoredTotalsGrow`, `BillsAgree`). An admission rewrites the cache entry from
  a row read earlier; that is harmless because only disabled keys are ever
  missing from the cache (`EnabledAreCached`). `CapKept`: spending *plus* the
  most that the requests now upstream can add stays below the cap.
  `TotalsOrdered`: row, held and cached totals are in that order.
  `RealInv`: every copy of a key's usage (row, held, cache) either dates from
  before the real window opened, and then what was charged in it is among what
  restarts forgot or what the cache has on top of the copy, and the copy is due
  for a reset; or it counts all that was charged up to it. `DueStaysDue` (a
  window once due stays due, and an earlier one is due as well) carries this
  over resets. `HeldIsCurrentOrFollowed`: when what a sync holds is not current, a message, a
  charge in progress or a failure follows. `BillInv` is that what a key was
  charged is its history plus what its requests have yet to insert. That sum is
  a fold over a set of workers, in an order that `CHOOSE` picks; the section
  "Sums over the requests" proves that the order does not matter (`SumAny`) and
  what one more or one changed worker adds (`SumFacts`, `SumSame`).
- `RequestProofs` on `DailyLimiter` (`DailyTypeCorrect`, `LimitHoldsOnQuietDays`,
  `NoEarlyRefusal`, `RacedDaysAreBounded`). `day_start` only moves forward
  (`DailyLocals`), so nothing was counted for a later day (`FutureEmpty`); on a
  day whose reset nobody overtook the count *is* what was accepted, or zero
  while the reset is under way (`CountIsAccepted`). On any day, what was
  accepted, the room that is left and one allowance for each thread about to
  zero the count stay within one allowance for each thread (`AllowanceLeft`),
  unless all threads are about to, when nobody has counted yet.
- `RequestProofs` on `TokenBucket` (`BucketTypeCorrect`, `TokensAddUp`,
  `OverdraftIsBounded`). A thread about to store a refill read a clock no later
  than the present one (`ClockRead`). While tokens are left, what checked requests
  asked for is within what was taken; once the bucket is empty no check admits
  anybody, and each checked consumer still under way adds its amount at most once
  (`Debt`). Requests without a check only take, which leaves fewer tokens to admit
  others with.
- `RequestProofs` on `BudgetCalendar` (`DaysAreKeptApart`, `WindowsEnd`), for any
  granularity of time and any gaps between uses.
  Every open window began in this year, in the past, and in the day, week or
  month that it counts for (`CalendarInv`); the lemmas `WholeDays`, `DaysPassed`,
  `DaysMove`, `MonthsEnd` are about the calendar itself.
- `RequestProofs` on `AnswerStream` (`AnswerAsItArrives`, `TellsTheMessage`,
  `CutsDoNotShow`, `KeyIsBilledAsReported`), for any set of messages that
  upstream's protocol allows, of any length and with any number of blocks and
  counts, and every way of cutting them. The invariant `AnswerInv` says that what a
  reader holds between two chunks is what a reader of the arrived part in one
  piece would hold. `PiInv`: the `Wire` agrees with the events so far in its
  blocks, counts and reason, and what was sent and queued is their story
  (`Proceeds`); or it is a part of the story and an error (`Broke`); or the whole
  meaning (`Completed`). `TranslatedInv` needs two parts, since a torn line loses
  something: `Tight` is exactly the translation and ends with the first tear,
  while `Loose` survives every tear: pieces are ascending and before all that are
  to come, and no count is above what was reported. Its last conjunct is what the
  parser keeps across a cut after a line `event:`, namely that event's type.
  `PassedInv` does the same for the usage seen in passing, `BillsInv` ties the
  bills to what was observed, and `IdleInv` keeps the `Machine` out of the other
  paths. A step appends the events that became whole, so each operator over
  messages (`Story`, `Reported`, `Reason`, `Opened`, `Closings`, `Translation`)
  has a lemma for one event more, and each reader's fold one for one line more
  (`StartParses` to `StopParses`, `LooseStep`, `TightStep`); a chunk is an
  induction over its events (`FramesGood`, `HandledGood`, `ExtractedGood`). The
  refinement follows: what is told grows along `Story`, of which every
  `Story(Upto(m, j))` is a prefix, and `Completed` or `Broke` is the only way to
  an end.
- `AvailabilityProofs` (`TypeCorrect`, `SettledIsOnDisk`,
  `AnnouncesAreComplete`), for any number of maintenance calls under way and any
  spellings of the name. While the last save neither failed nor overlapped
  another, at most one actor holds bytes (`Alone`), and what callers left in
  memory is on its way (`OnItsWay`): somebody has yet to read it, or the one who
  writes has read it, or it is in the file. Between the two halves of an announce
  of a shortlist the models it left out carry its deactivation or a probe's
  decision, as long as its call was the last to write under the provider's name
  (`HalfWay`); section 5 has what happens otherwise.
- `PoolsProofs` (`TypeCorrect`, `FailoverIsComplete`, `ConversationStaysHome`,
  `RestIsKept`), for any pool and any number of requests. A route that was
  usable all along stays inside what the request saw before its first attempt
  (`SteadyIsSeen`), although that view is old, because whatever the view lacks
  was not usable when it was taken; a route that failed rests (`Rest`) and so is
  no longer steady. Hence a steady route is a candidate, and a conversation's
  steady member is the one that is called (`HomeIsCalled`).
- `LiveSessionsProofs` (`LiveTypeCorrect`, `EveryMessageHasOneFate`,
  `StoreStaysWithinCapacity`), for any number of messages, conversations and
  WebSockets, any capacity and any lifetime. A message only waits in its own
  conversation's queue (`EntriesOK`), so a request, an eviction or the cleanup
  task takes it there or nowhere; `Fate` names the one state of the four that
  each message is in, and `ForgetFacts`, `RequestFacts` and `AddFacts` say how
  each operation of the store moves it. For the capacity: a call that added a
  conversation has yet to count; and if none has, either there are not too many,
  or some call that counted after the last was added has still to choose as many
  as are too many, or to remove what it chose (`Bounded`).
- `OAuthTokensProofs` (`TypeCorrect`, `RefreshTokensAreKept`,
  `FailuresAreExplained`, `TheListIsRight`). A grant belongs to one login and so
  to one account (`Unseen`), no token is ahead of the one its endpoint accepts
  (`Behind`), and a rotating endpoint serialises its users: while a process is
  about to store a token, nobody else has one of that grant that is accepted
  (`Serial`). As long as no two processes met in the keychain's list and no fault
  met an edit of it, the one that edits it knows what it holds, and the list is
  right about every provider that nobody is editing (`ListInv`).
- `ProvidersProofs` (`TypeCorrect`, `NamesKeepOneOwner`, `CacheFollowsStore`,
  `ReloadAppliesPreview`, `RevisionsNameRows`, `RollbackIsExact`). A number is
  given out once (`GivenOut`), so equal numbers mean equal contents wherever a
  number is kept (`Generations`, `Revisions`); between its check and its end a
  reload has the stored names to itself (`Publishing`), because every change of
  them takes the coordinator.

Some of these need induction, which the library states with an operator as a
parameter. `FiniteSetsGrow` (`RequestProofs`) and `SmallestSubset`
(`KeyUsageProofs`) take a set of subsets in its place, `UpTo` (`RequestProofs`) a
set of numbers, and argue with a smallest counterexample, which the
well-foundedness of strict inclusion and of the order of the numbers yields. With
`UpTo` the folds of the community modules are unrolled: `FlattenSeq` and
`FoldLeft` choose a recursive function, and `FlattensExists` and `ReadRuns` show
that there is one, so that the choice obeys its equation.

Model-checked only: liveness (`EventuallySynced`, `ServedComesBack`,
`AbsentGoesOff`, `SpeechEnds`, `GivenIsSent`), which the prover does not do.

## 5. Where the code does something else

In one run TLC finds a documented statement violated (a finding in
`PROJECT.json`):

- `key_usage_daily`: a key that used up its daily budget stays refused for ever,
  since only a charge resets the window (`keys/store.rs:862`) and a refused
  request is never charged.

The models made these further disagreements between the code and its comments,
tests or documents plain; they have no run of their own.

- Rate limits: a request whose estimate is zero passes an empty bucket
  (`keys/rate_limit.rs:93`), and any number of them do; a request counted
  between the exchange of the day and the zeroing of the count is forgotten
  (`keys/rate_limit.rs:292`, against its comment and the test at 464); `raced`
  in `DailyLimiter` marks such days.
- Budgets: requests admitted together overspend by more than the last of them
  (`keys/types.rs:294-296`; `OvershootBounded` states the bound that does hold,
  with what restarts forget on top of it). A weekly window lasts seven whole
  days from its first charge and a monthly one at least 28
  (`keys/store.rs:876`, 882), where `keys/types.rs:110-113` names Sunday and
  the 1st; a month that begins some hours into the 1st of February is still
  open on 1 March.
- Availability: of two announces at once both deactivate before both
  re-activate (the lock is released between the halves, `availability.rs:263`),
  and the models of both end up available, where the later was to be the
  complete set (`api.rs:1373`). On a provider without a shortlist a second
  announce does not deactivate what the first one announced (`api.rs:1454`
  against its comment at 1439-1441). A maintenance call that spells the
  provider's name in another case is answered as a change, but its entry is
  under the name as typed (`api.rs:1513`, 1525, 1537), where no request looks
  (`proxy.rs:1389`). A probe removes an operator's deactivation when the
  runtime serves the model (`availability.rs:335` against 290-291); an expired
  operator entry is never removed and keeps the prober from deactivating a
  model that is gone (317 against `prober.rs:6-8`); probe results are saved
  only when a caller happened to race (367 against 66-67).
- Sessions: a realtime session's usage is recorded after all its tasks ended
  (`proxy.rs:3781`), but its injector waits for a sender that only the guard
  drops afterwards, so with the client gone nothing is recorded
  (`RealtimeUsageRecorded` in `LiveSessions` states what the comment says). The
  Codex WebSocket holds a sender across its join in the same way. A message to
  a session that is still connecting to a speech provider is dropped.
  Overlapping evictions remove more than needed; with `capture_all` nothing is
  evicted. `/inject` takes the raw conversation id where requests use
  `key:<hash>:<id>` (`proxy.rs:272`).
- Streams: on the paths without a framer, text in a line cut by the network is
  lost, and so is the usage in it (`transform/anthropic.rs:117` against the
  comment at `proxy.rs:2676`); a chunk that does not parse is passed to an
  OpenAI client as it is; cached tokens are not debited on the translated and
  whole paths, and an answer with nothing but cached tokens is debited on the
  Pi path only (`proxy.rs:2621` has a check that `Ledger::drop` lacks); a
  stream that breaks off or whose client leaves is debited on the Pi path only;
  a Pi answer with cached tokens for a model without a price for them fails and
  is recorded without tokens.
- Pools: a retry loses the injections that the first attempt took
  (`proxy.rs:934`), and the key's own 429 or eavs's own 404 cools a member for
  everybody (`RestAfterFailure` includes them).
- OAuth: a stale write-back resurrects a deleted credential (`proxy.rs:4824`);
  a Copilot token is stored and never exchanged (`docs/usage.md:54`), and its
  base URL comes from the default account; a login and a deletion that edit the
  keychain's list at once leave it without the provider that logged in
  (`oauth/storage.rs:565`); a list of the keychain that cannot be read counts
  as empty, and the next login writes one with itself alone
  (`oauth/storage.rs:538-548`); states of unfinished logins never expire.
- Providers: after a handler was dropped between commit and cache the old row
  is served until the next change or restart; rotating a disabled provider
  leaves the cache alone; a start from an edited file may shadow stored names.

## 6. Not modelled, and what would come next

Next, in order of what it would add: `jobs.rs` (handles, polling, settlement)
and the cached quotas; the request path as a composition of `KeyUsage`, `Pools`
and `AnswerStream` over one request; the stream readers of
the OpenAI, Responses and Google formats and the Pi interface's bodies that are
not streamed, which have the form of `AnswerStream`; the schedule of several
probed providers over one state file (and its shared `.tmp` name); a second key
in `key_usage`; `clear_key` against requests that hold a limiter.

Left out: format conversion, signing, configuration parsing, command-line
output, user interfaces, client adapters and network policy, which are
sequential data transformation that tests reach; plugins and capture, which are
external processes and append-only files; device configuration and the fleet
registry, one-shot commands. They are most of the lines of the repository. The
per-minute request limit is the `governor` crate's. Memory orders weaker than
sequential consistency, SQLite's own recovery and the file system's durability
below rename are taken for granted.
