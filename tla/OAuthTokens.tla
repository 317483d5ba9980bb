---------------------------- MODULE OAuthTokens ----------------------------
(***************************************************************************)
(* OAuth credentials: the stored tokens of each provider account, the      *)
(* requests that refresh an expired one and write the new one back, and    *)
(* the logins and deletions they run against.  Nothing serialises two      *)
(* requests; the token endpoint accepts each rotating refresh token once.  *)
(* The keychain keeps its list of providers in an entry of its own.        *)
(***************************************************************************)
EXTENDS Integers, FiniteSets

CONSTANTS
  Kind,      \* provider -> "anthropic", "openai-codex" or "github-copilot"
  Rotating,  \* providers whose endpoint replaces each refresh token it accepts
  Labels, Default,    \* account labels
  Backends,           \* "sqlite", "keychain": where credentials are stored
  Requests, Flows, Deletions, \* requests, logins, deletions
  Wanted,             \* request -> the accounts its key may be bound to
  For,                \* login, deletion -> its provider
  Initially,          \* account -> the set of credentials it may start with
  Life,               \* how long an access token lasts
  Never,              \* no end in sight: ten years
  NoCred,
  MaxTime, MaxFaults  \* bounds

Providers == DOMAIN Kind
Accounts  == Providers \X Labels
Processes == Requests \union Flows \union Deletions
\* One grant per login; those of before the start are named by their account.
Grants    == Accounts \union Flows
Home(g)   == IF g \in Flows THEN <<For[g], Default>> ELSE g

\* refresh: which token of the grant, 0 for none.
Creds == [grant : Grants, refresh : Nat, expires : Nat, owned : BOOLEAN]

ASSUME OAuthAssumption ==
  /\ Kind \in [Providers -> {"anthropic", "openai-codex", "github-copilot"}]
  /\ Rotating \subseteq Providers
  /\ Default \in Labels /\ Backends \subseteq {"sqlite", "keychain"}
  /\ Wanted \in [Requests -> SUBSET Accounts]
  /\ For \in [Flows \union Deletions -> Providers]
  /\ Initially \in [Accounts -> SUBSET (Creds \union {NoCred})]
  /\ \A a \in Accounts : \A c \in Initially[a] \ {NoCred} : c.grant = a
  /\ Life \in Nat \ {0} /\ Never \in Nat /\ NoCred \notin Creds
  /\ MaxTime \in Nat /\ MaxFaults \in Nat
  /\ Requests \intersect Flows = {} /\ Requests \intersect Deletions = {}
  /\ Flows \intersect Deletions = {} /\ Flows \intersect Accounts = {}

\* The code stores no refresh token for Anthropic when none comes back, and
\* GitHub's token is kept: it is not one that is replaced.
ASSUME EndpointAssumption ==
  \A p \in Providers : /\ Kind[p] = "anthropic" => p \in Rotating
                       /\ Kind[p] = "github-copilot" => p \notin Rotating

VARIABLES
  now,      \* Utc::now()
  backend,  \* the backend in use
  target,   \* request -> the account its key is bound to
  stored,   \* account -> its credentials
  index,    \* the keychain's list of providers
  current,  \* external: grant -> the refresh token its endpoint accepts
  stage,    \* process -> where it stands
  held,     \* process -> the credentials it works on
  listed,   \* process -> the list of providers it read
  answer,   \* the answer to a request given last, and its token
  faults,   \* bound: lost answers, failed writes, misread lists and crashes
  raced,    \* history: request -> another process met it on its account
  spoiled   \* history: two processes met in the keychain's list, or a fault
            \* hit one that was in it

vars == <<now, backend, target, stored, index, current, stage, held, listed, answer,
          faults, raced, spoiled>>

Stages == {"idle", "asked", "refresh", "write", "index", "put", "done"}

Account(p) == IF p \in Requests THEN target[p] ELSE <<For[p], Default>>
Provider(p) == Account(p)[1]

Init ==
  /\ now = 0
  /\ backend \in Backends
  /\ target \in {t \in [Requests -> Accounts] : \A r \in Requests : t[r] \in Wanted[r]}
  /\ stored \in {s \in [Accounts -> UNION {Initially[a] : a \in Accounts}] :
                   \A a \in Accounts : s[a] \in Initially[a]}
  /\ index = {p \in Providers : \E l \in Labels : stored[<<p, l>>] # NoCred}
  /\ current = [g \in Grants |->
       IF g \in Accounts /\ stored[g] # NoCred THEN stored[g].refresh ELSE 0]
  /\ stage = [p \in Processes |-> "idle"]
  /\ held = [p \in Processes |-> NoCred]
  /\ listed = [p \in Processes |-> {}]
  /\ answer = [outcome |-> "", cred |-> NoCred]
  /\ faults = 0
  /\ raced = [r \in Requests |-> FALSE]
  /\ spoiled = FALSE

---------------------------------------------------------------------------

Tick == /\ now < MaxTime /\ now' = now + 1
        /\ UNCHANGED <<backend, target, stored, index, current, stage, held, listed,
                       answer, faults>>

\* Process p goes on to stage s with credentials c.
Goto(p, s, c) == /\ stage' = [stage EXCEPT ![p] = s]
                 /\ held' = [held EXCEPT ![p] = c]
                 /\ listed' = [listed EXCEPT ![p] = {}]

\* The end of process p; a request answers with an outcome and a token.
Finish(p, outcome, c) ==
  /\ Goto(p, "done", NoCred)
  /\ answer' = IF p \in Requests THEN [outcome |-> outcome, cred |-> c]
               ELSE answer

Expired(c) == now >= c.expires

\* What the store holds for the account of the key.
Load(r) == stored[target[r]]

Refreshable(c) == c.owned /\ c.refresh # 0

\* Either an answer at once, or a refresh.
Resolve(r) ==
  /\ stage[r] = "idle"
  /\ LET c == Load(r) IN
       IF c = NoCred THEN Finish(r, "not_found", NoCred)
       ELSE IF ~Expired(c) THEN Finish(r, "token", c)
       ELSE IF Refreshable(c) THEN Goto(r, "refresh", c) /\ UNCHANGED answer
       ELSE Finish(r, IF c.owned THEN "no_refresh" ELSE "borrowed", NoCred)
  /\ UNCHANGED <<now, backend, target, stored, index, current, faults>>

\* The token an endpoint hands out for the next refresh, 0 for none.
Replacement(c, p) == IF p \in Rotating THEN c.refresh + 1 ELSE 0

\* Fault: a replacement is ignored.
NextRefreshSame(c, p) == c.refresh
\* Codex keeps the used token when there is no replacement; Copilot always
\* keeps GitHub's; Anthropic keeps none.
NextRefresh(c, p) ==
  IF Kind[p] = "github-copilot" \/ (Kind[p] = "openai-codex" /\ Replacement(c, p) = 0)
  THEN c.refresh ELSE Replacement(c, p)

Refreshed(c, p) ==
  [grant |-> c.grant, refresh |-> NextRefresh(c, p),
   expires |-> now + Life, owned |-> TRUE]

\* The endpoint takes a token it knows, and replaces it if it rotates them.
Accepted(c) == c.refresh = current[c.grant]
Rotate(c, p) == current' =
  IF p \in Rotating THEN [current EXCEPT ![c.grant] = c.refresh + 1] ELSE current

Exchange(r) ==
  /\ stage[r] = "refresh"
  /\ LET c == held[r] IN
       IF Accepted(c)
       THEN /\ Rotate(c, Provider(r))
            /\ Goto(r, "write", Refreshed(c, Provider(r)))
            /\ UNCHANGED answer
       ELSE Finish(r, "failed", NoCred) /\ UNCHANGED current
  /\ UNCHANGED <<now, backend, target, stored, index, faults>>

(* Logins and deletions. *)

\* /auth/login: the flow waits for its code in oauth_states.
Login(f) ==
  /\ f \in Flows /\ stage[f] = "idle"
  /\ Goto(f, "asked", NoCred)
  /\ UNCHANGED <<now, backend, target, stored, index, current, answer, faults>>

\* The code comes back and is exchanged.  A Copilot device login brings
\* GitHub's token, for ten years and without a refresh token.
Callback(f) ==
  /\ stage[f] = "asked"
  /\ LET device == Kind[Provider(f)] = "github-copilot"
         first == IF device THEN 0 ELSE 1 IN
       /\ Goto(f, "write",
            [grant |-> f, refresh |-> first,
             expires |-> IF device THEN now + Never ELSE now + Life,
             owned |-> TRUE])
       /\ current' = [current EXCEPT ![f] = first]
  /\ UNCHANGED <<now, backend, target, stored, index, answer, faults>>

(* Storing. *)

\* The account that is written: a refresh puts the label back.
Target(p) == Account(p)

\* Fault: a row that is there already is kept.
UpsertNew(p) ==
  /\ stage[p] = "write" /\ p \notin Deletions
  /\ stored' = IF stored[Target(p)] # NoCred THEN stored
               ELSE [stored EXCEPT ![Target(p)] = held[p]]
  /\ IF backend = "keychain" THEN Goto(p, "index", held[p]) /\ UNCHANGED answer
     ELSE Finish(p, "token", held[p])
  /\ UNCHANGED <<now, backend, target, index, current, faults>>
\* The keychain then adds the provider to its list.
Upsert(p) ==
  /\ stage[p] = "write" /\ p \notin Deletions
  /\ stored' = [stored EXCEPT ![Target(p)] = held[p]]
  /\ IF backend = "keychain" THEN Goto(p, "index", held[p]) /\ UNCHANGED answer
     ELSE Finish(p, "token", held[p])
  /\ UNCHANGED <<now, backend, target, index, current, faults>>

Delete(d) ==
  /\ d \in Deletions /\ stage[d] = "idle"
  /\ LET found == stored[Account(d)] # NoCred IN
       IF found /\ backend = "keychain" THEN Goto(d, "index", NoCred) /\ UNCHANGED answer
       ELSE Finish(d, "", NoCred)
  /\ stored' = [stored EXCEPT ![Account(d)] = NoCred]
  /\ UNCHANGED <<now, backend, target, index, current, faults>>

\* The list with p's provider added or removed.
Edited(p, list) == IF p \in Deletions THEN list \ {Provider(p)}
                   ELSE list \union {Provider(p)}

\* Process p reads the list as it is here, and is done if there is nothing to edit.
ReadList(p, list) ==
  /\ stage[p] = "index"
  /\ IF Edited(p, list) = list THEN Finish(p, "token", held[p])
     ELSE /\ stage' = [stage EXCEPT ![p] = "put"]
          /\ listed' = [listed EXCEPT ![p] = list]
          /\ UNCHANGED <<held, answer>>
  /\ UNCHANGED <<now, backend, target, stored, index, current>>

ReadIndex(p) == ReadList(p, index) /\ UNCHANGED faults

\* Fault: the list is replaced by the provider.
WriteIndexAlone(p) ==
  /\ stage[p] = "put"
  /\ index' = Edited(p, {})
  /\ Finish(p, "token", held[p])
  /\ UNCHANGED <<now, backend, target, stored, current, faults>>
WriteIndex(p) ==
  /\ stage[p] = "put"
  /\ index' = Edited(p, listed[p])
  /\ Finish(p, "token", held[p])
  /\ UNCHANGED <<now, backend, target, stored, current, faults>>

(* What goes wrong. *)

Fault == faults < MaxFaults /\ faults' = faults + 1

\* The endpoint took the token, and its answer never arrives.
AnswerLost(r) ==
  /\ Fault
  /\ stage[r] = "refresh" /\ Accepted(held[r])
  /\ Rotate(held[r], Provider(r))
  /\ Finish(r, "failed", NoCred)
  /\ UNCHANGED <<now, backend, target, stored, index>>

StoreFails(p) ==
  /\ Fault
  /\ stage[p] \in {"write", "index", "put"}
  /\ Finish(p, "failed", NoCred)
  /\ UNCHANGED <<now, backend, target, stored, index, current>>

\* An entry that cannot be read, or parsed, passes for an empty list.
MisreadIndex(p) == Fault /\ ReadList(p, {})

\* Everything under way is gone, oauth_states too.
Crash ==
  /\ Fault
  /\ stage' = [p \in Processes |-> IF stage[p] = "idle" THEN "idle" ELSE "done"]
  /\ held' = [p \in Processes |-> NoCred]
  /\ listed' = [p \in Processes |-> {}]
  /\ UNCHANGED <<now, backend, target, stored, index, current, answer>>

---------------------------------------------------------------------------

Working(p, a) == stage[p] \in {"refresh", "write"} /\ Account(p) = a
InList(p) == stage[p] \in {"index", "put"}

Observe ==
  /\ raced' = [r \in Requests |->
       /\ stage'[r] \in {"refresh", "write"}
       /\ \/ raced[r]
          \/ stored'[target[r]] # stored[target[r]]
          \/ \E p \in Processes \ {r} : Working(p, target[r]) \/ Working(p, target[r])']
  /\ spoiled' = \/ spoiled
                \/ faults' # faults /\ \E p \in Processes : InList(p)
                \/ \E p, q \in Processes : p # q /\ InList(p)' /\ InList(q)'

Next ==
  /\ \/ Tick \/ Crash
     \/ \E r \in Requests : Resolve(r) \/ Exchange(r) \/ AnswerLost(r)
     \/ \E f \in Flows : Login(f) \/ Callback(f)
     \/ \E d \in Deletions : Delete(d)
     \/ \E p \in Processes : Upsert(p) \/ ReadIndex(p) \/ WriteIndex(p)
                           \/ MisreadIndex(p) \/ StoreFails(p)
  /\ Observe

Spec == Init /\ [][Next]_vars

---------------------------------------------------------------------------
(* Properties. *)

\* Accounts of one provider stay apart (the account_label that is put back
\* through a refresh): an account only ever stores tokens of its own grants,
\* and a process only ever works on its account's, while it refreshes or
\* writes, and on none once it ended.
TypeOK ==
  /\ now \in 0 .. MaxTime
  /\ backend \in Backends
  /\ target \in [Requests -> Accounts]
  /\ stored \in [Accounts -> Creds \union {NoCred}]
  /\ \A a \in Accounts : stored[a] # NoCred => Home(stored[a].grant) = a
  /\ index \subseteq Providers
  /\ current \in [Grants -> Nat]
  /\ stage \in [Processes -> Stages]
  /\ held \in [Processes -> Creds \union {NoCred}]
  /\ \A p \in Processes : stage[p] \in {"refresh", "write"} => held[p] # NoCred
  /\ \A p \in Processes : held[p] # NoCred => Home(held[p].grant) = Account(p)
  /\ \A p \in Processes : stage[p] \in {"idle", "asked", "done"} => held[p] = NoCred
  /\ listed \in [Processes -> SUBSET Providers]
  /\ answer \in [outcome : {"", "token", "not_found", "borrowed", "no_refresh", "failed"},
                 cred : Creds \union {NoCred}]
  /\ faults \in 0 .. MaxFaults
  /\ raced \in [Requests -> BOOLEAN] /\ spoiled \in BOOLEAN

\* No refresh token is lost (the unconditional write-back of
\* resolve_oauth_access_token_using_client): whatever requests, logins and
\* deletions meet, the endpoint still accepts what an account stores, or the
\* request that traded it in is about to store the next one.  A rotating
\* token serialises its own refreshes: who loses the race has nothing to write.
RefreshTokenKept ==
  faults = 0 => \A a \in Accounts :
    stored[a] # NoCred =>
      \/ Accepted(stored[a])
      \/ \E r \in Requests : /\ stage[r] = "write" /\ target[r] = a
                             /\ held[r].grant = stored[a].grant
                             /\ Accepted(held[r])

\* A refresh fails only by a fault or in a race (RefreshFailed): alone on its
\* account, a request is never told to log in again.
FailureExplained ==
  [][\A r \in Requests :
       stage[r] = "refresh" /\ stage'[r] = "done" => faults' > 0 \/ raced[r]]_vars

\* The keychain's list goes wrong only from inside (index_add, index_remove).
\* It names every provider with a default login and no provider without any,
\* whatever answers get lost, credentials are not written and crashes come,
\* unless two processes met in the list, or one was in it when a write failed,
\* when the entry could not be read or when the gateway crashed.
IndexRight ==
  backend = "keychain" /\ ~spoiled /\ (\A p \in Processes : ~InList(p)) =>
    \A p \in Providers :
      /\ stored[<<p, Default>>] # NoCred => p \in index
      /\ p \in index => \E l \in Labels : stored[<<p, l>>] # NoCred

=============================================================================
