------------------------------- MODULE Pools -------------------------------
(***************************************************************************)
(* Pools: virtual models that eavs resolves to whichever member is         *)
(* available.  A request takes a snapshot of what is known about the       *)
(* members, then calls one member after the other, while probes,           *)
(* maintenance and the other requests change what it saw.  Cooldowns and   *)
(* the memory of which conversation is on which member are shared.         *)
(***************************************************************************)
EXTENDS Integers, Sequences, FiniteSets

CONSTANTS
  Members,     \* the pool's members in order, [provider, model]
  AnyModel,    \* the model of a member `provider/*`
  Listing,     \* the models there are, in the order a runtime lists them
  Probed,      \* providers with an enabled probe
  Configured,  \* provider -> the models it is configured with
  Requests,    \* pool requests
  Permitted,   \* request -> the routes its key may use
  Session,     \* request -> its caller's conversation
  After,       \* request -> the requests its client waits for first
  NoSession,   \* a request without a session header
  NoRoute,
  Cooldown, StickyTtl, StickyMax, MaxAttempts, \* COOLDOWN, STICKY_TTL, ...
  MaxTime, MaxEvents                           \* bounds

Models    == {Listing[j] : j \in DOMAIN Listing}
Providers == {Members[i].provider : i \in DOMAIN Members}
Routes    == [provider : Providers, model : Models]
Sessions  == {Session[r] : r \in Requests} \ {NoSession}

ASSUME PoolAssumption ==
  /\ Members \in Seq([provider : Providers, model : Models \union {AnyModel}])
  /\ Listing \in Seq(Models) /\ AnyModel \notin Models
  /\ Probed \subseteq Providers
  /\ Configured \in [Providers -> SUBSET Models]
  /\ Permitted \in [Requests -> SUBSET Routes]
  /\ Session \in [Requests -> Sessions \union {NoSession}]
  /\ After \in [Requests -> SUBSET Requests]
  /\ NoSession \notin Sessions /\ NoRoute \notin Routes
  /\ Cooldown \in Nat \ {0} /\ StickyTtl \in Nat
  /\ StickyMax \in Nat \ {0} /\ MaxAttempts \in Nat \ {0}
  /\ MaxTime \in Nat /\ MaxEvents \in Nat

VARIABLES
  now,      \* Instant::now()
  served,   \* probed provider -> what a fresh, successful probe listed
  off,      \* routes whose model is deactivated
  events,   \* bound: what probes, maintenance and the limiters have done
  cooldown, \* route -> the end of its rest
  sticky,   \* conversation -> the route it is on and since when
  stage,    \* request -> where it stands
  plan,     \* request -> what it saw before its first attempt
  call,     \* request -> the route of the attempt under way
  excluded, \* request -> the routes that failed it
  attempt,  \* request -> the number of attempts it made before this one
  answer,   \* the answer given last
  steady,   \* history: request -> its routes usable ever since it came
  failed    \* history: route -> when its last retryable answer came

vars == <<now, served, off, events, cooldown, sticky, stage, plan, call,
          excluded, attempt, answer, steady, failed>>
world   == <<served, off, events>>
request == <<stage, plan, call, excluded, attempt, answer>>

Stages  == {"idle", "views", "pick", "called", "sent", "done"}
\* ok: 2xx.  refused: a status that is not retried.  failed: 404, 408, 429,
\* 500, 502, 503 or 504.  none: no_available_model.
Answers == {"", "ok", "refused", "failed", "none"}

NoPlan == [served |-> [p \in Probed |-> {}], off |-> {}, looked |-> {},
           sticky |-> NoRoute]

---------------------------------------------------------------------------
(* Candidates.  A slot <<i, j>> is the j-th model under the i-th member.   *)

Slots == (DOMAIN Members) \X (DOMAIN Listing)
RouteAt(s) == [provider |-> Members[s[1]].provider, model |-> Listing[s[2]]]

\* Whether the member names this model, given what the probes listed.
Offers(s, listed) ==
  LET member == Members[s[1]]  model == Listing[s[2]] IN
  /\ member.model \in {AnyModel, model}
  /\ member.provider \in Probed => model \in listed[member.provider]
  /\ member.provider \notin Probed /\ member.model = AnyModel
       => model \in Configured[member.provider]

Offered(listed) == {RouteAt(s) : s \in {t \in Slots : Offers(t, listed)}}

Cooling(x) == now < cooldown[x]

Candidates(r) ==
  {s \in Slots : /\ Offers(s, plan[r].served)
                 /\ RouteAt(s) \notin plan[r].off
                 /\ RouteAt(s) \in Permitted[r]
                 /\ ~Cooling(RouteAt(s))
                 /\ RouteAt(s) \notin excluded[r]}

Before(s, t) == s[1] < t[1] \/ (s[1] = t[1] /\ s[2] <= t[2])
First(S) == CHOOSE s \in S : \A t \in S : Before(s, t)

\* Fault: the conversation's member is not looked at.
PickFirst(r) == RouteAt(First(Candidates(r)))
\* The conversation's member while it is a candidate, else the first one.
Pick(r) ==
  IF \E s \in Candidates(r) : RouteAt(s) = plan[r].sticky
  THEN plan[r].sticky ELSE RouteAt(First(Candidates(r)))

---------------------------------------------------------------------------

Init ==
  /\ now = 0
  /\ served = [p \in Probed |-> Models]
  /\ off = {}
  /\ events = 0
  /\ cooldown = [x \in Routes |-> 0]
  /\ sticky = <<>>
  /\ stage = [r \in Requests |-> "idle"]
  /\ plan = [r \in Requests |-> NoPlan]
  /\ call = [r \in Requests |-> NoRoute]
  /\ excluded = [r \in Requests |-> {}]
  /\ attempt = [r \in Requests |-> 0]
  /\ answer = ""
  /\ steady = [r \in Requests |-> {}]
  /\ failed = [x \in Routes |-> -Cooldown]

(* The world around: the clock, the prober and maintenance. *)

Tick ==
  /\ now < MaxTime /\ now' = now + 1
  /\ UNCHANGED <<world, cooldown, sticky, request, failed>>

Event == events < MaxEvents /\ events' = events + 1

\* A probe lists other models, or fails or goes stale: then it lists none.
Probe ==
  /\ Event
  /\ \E p \in Probed : \E listed \in SUBSET Models \ {served[p]} :
       served' = [served EXCEPT ![p] = listed]
  /\ UNCHANGED <<now, off, cooldown, sticky, request, failed>>

Maintain ==
  /\ Event
  /\ \E x \in Offered([p \in Probed |-> Models]) :
       off' = IF x \in off THEN off \ {x} ELSE off \union {x}
  /\ UNCHANGED <<now, served, cooldown, sticky, request, failed>>

(* One request. *)

Goto(r, s) == stage' = [stage EXCEPT ![r] = s]

\* A client sends the next request of a conversation after the answer.
Arrive(r) ==
  /\ stage[r] = "idle"
  /\ \A q \in After[r] : stage[q] = "done"
  /\ plan' = [plan EXCEPT ![r].served = served]
  /\ Goto(r, "views")
  /\ UNCHANGED <<now, world, cooldown, sticky, call, excluded, attempt, answer,
                 failed>>

NextProvider(r) ==
  LET left == {i \in DOMAIN Members : Members[i].provider \notin plan[r].looked}
  IN Members[CHOOSE i \in left : \A k \in left : i <= k].provider

Live(s) == s \in DOMAIN sticky /\ now - sticky[s].at < StickyTtl

\* The availability of one provider's models; the lock is released between.
ReadAvailability(r) ==
  /\ stage[r] = "views" /\ plan[r].looked # Providers
  /\ LET p == NextProvider(r) IN
       plan' = [plan EXCEPT
         ![r].off = @ \union {x \in off : x.provider = p},
         ![r].looked = @ \union {p}]
  /\ UNCHANGED <<now, world, cooldown, sticky, stage, call, excluded, attempt,
                 answer, failed>>

ReadSticky(r) ==
  /\ stage[r] = "views" /\ plan[r].looked = Providers
  /\ plan' = [plan EXCEPT ![r].sticky =
       IF Live(Session[r]) THEN sticky[Session[r]].route ELSE NoRoute]
  /\ Goto(r, "pick")
  /\ UNCHANGED <<now, world, cooldown, sticky, call, excluded, attempt, answer,
                 failed>>

Dispatch(r) ==
  /\ stage[r] = "pick" /\ Candidates(r) # {}
  /\ call' = [call EXCEPT ![r] = Pick(r)]
  /\ Goto(r, "called")
  /\ UNCHANGED <<now, world, cooldown, sticky, plan, excluded, attempt, answer,
                 failed>>

\* The answer, and the end of everything the request remembered.
Reply(r, status) ==
  /\ answer' = status
  /\ plan' = [plan EXCEPT ![r] = NoPlan]
  /\ call' = [call EXCEPT ![r] = NoRoute]
  /\ excluded' = [excluded EXCEPT ![r] = {}]
  /\ attempt' = [attempt EXCEPT ![r] = 0]
  /\ Goto(r, "done")

\* No member is left: the last failure is the answer, if there was one.
GiveUp(r) ==
  /\ stage[r] = "pick" /\ Candidates(r) = {}
  /\ Reply(r, IF excluded[r] = {} THEN "none" ELSE "failed")
  /\ UNCHANGED <<now, world, cooldown, sticky, failed>>

\* A full map forgets its expired entries; if it is still full, all of them.
Kept == LET live == {s \in DOMAIN sticky : Live(s)} IN
  IF Cardinality(DOMAIN sticky) < StickyMax THEN DOMAIN sticky
  ELSE IF Cardinality(live) < StickyMax THEN live ELSE {}

Remember(s, x) ==
  sticky' = [t \in Kept \union {s} |->
               IF t = s THEN [route |-> x, at |-> now] ELSE sticky[t]]

\* Fault: a later failure does not lengthen or renew a rest.
CoolOnce(x) == cooldown' =
  [cooldown EXCEPT ![x] = IF @ = 0 THEN now + Cooldown ELSE @]
Cool(x) == cooldown' = [cooldown EXCEPT ![x] = now + Cooldown]

\* A retryable answer of an attempt that is not the last one.
Retry(r) ==
  /\ Cool(call[r])
  /\ excluded' = [excluded EXCEPT ![r] = @ \union {call[r]}]
  /\ attempt' = [attempt EXCEPT ![r] = @ + 1]
  /\ Goto(r, "pick")
  /\ UNCHANGED <<sticky, answer, plan, call>>

\* Any other answer is the request's own.
Finish(r, status) ==
  /\ IF status = "ok" /\ Session[r] # NoSession
     THEN Remember(Session[r], call[r]) ELSE UNCHANGED sticky
  /\ IF status = "failed" THEN Cool(call[r]) ELSE UNCHANGED cooldown
  /\ Reply(r, status)

\* Fault: the last attempt is left out.
OutcomeEarly(r, status) ==
  /\ IF status = "failed" /\ attempt[r] + 2 < MaxAttempts
     THEN Retry(r) ELSE Finish(r, status)
  /\ failed' = IF status = "failed" THEN [failed EXCEPT ![call[r]] = now]
               ELSE failed
  /\ UNCHANGED <<now, served, off>>
Outcome(r, status) ==
  /\ IF status = "failed" /\ attempt[r] + 1 < MaxAttempts
     THEN Retry(r) ELSE Finish(r, status)
  /\ failed' = IF status = "failed" THEN [failed EXCEPT ![call[r]] = now]
               ELSE failed
  /\ UNCHANGED <<now, served, off>>

\* The handler turns the key away: 401 and 403, or 429 for its own limits.
Refuse(r) ==
  /\ stage[r] = "called"
  /\ Event
  /\ \E status \in {"refused", "failed"} : Outcome(r, status)

\* The model was deactivated after the snapshot: 404 model_unavailable.
Unavailable(r) ==
  /\ stage[r] = "called" /\ call[r] \in off
  /\ Outcome(r, "failed")
  /\ UNCHANGED events

Send(r) ==
  /\ stage[r] = "called" /\ call[r] \notin off
  /\ Goto(r, "sent")
  /\ UNCHANGED <<now, world, cooldown, sticky, plan, call, excluded, attempt,
                 answer, failed>>

Answer(r) ==
  /\ stage[r] = "sent"
  /\ \E status \in {"ok", "refused", "failed"} : Outcome(r, status)
  /\ UNCHANGED events

---------------------------------------------------------------------------

\* What a request that arrived this instant could use.
Usable(r) == {x \in Permitted[r] \intersect Offered(served) :
                x \notin off /\ ~Cooling(x)}

Observe == steady' =
  [r \in Requests |-> IF stage'[r] = "idle" \/ stage[r] = "done" THEN {}
     ELSE Usable(r)' \intersect (IF stage[r] = "idle" THEN Usable(r) ELSE steady[r])]

Step(r) == \/ ReadAvailability(r) \/ ReadSticky(r)
           \/ Dispatch(r) \/ GiveUp(r) \/ Unavailable(r) \/ Send(r) \/ Answer(r)

Serve == \E r \in Requests : Arrive(r) \/ Step(r) \/ Refuse(r)

Next == (Tick \/ Probe \/ Maintain \/ Serve) /\ Observe

Spec == Init /\ [][Next]_vars

---------------------------------------------------------------------------
(* Properties. *)

\* The memory of conversations names routes only and never passes STICKY_MAX
\* (remember), and no request makes more attempts than it may (dispatch).
TypeOK ==
  /\ now \in 0 .. MaxTime
  /\ served \in [Probed -> SUBSET Models] /\ off \subseteq Routes
  /\ events \in 0 .. MaxEvents
  /\ cooldown \in [Routes -> Nat]
  /\ DOMAIN sticky \subseteq Sessions
  /\ Cardinality(DOMAIN sticky) <= StickyMax
  /\ \A s \in DOMAIN sticky : sticky[s] \in [route : Routes, at : Nat]
  /\ stage \in [Requests -> Stages]
  /\ plan \in [Requests ->
       [served : [Probed -> SUBSET Models], off : SUBSET Routes,
        looked : SUBSET Providers, sticky : Routes \union {NoRoute}]]
  /\ call \in [Requests -> Routes \union {NoRoute}]
  /\ excluded \in [Requests -> SUBSET Routes]
  /\ attempt \in [Requests -> 0 .. MaxAttempts - 1]
  /\ answer \in Answers
  /\ steady \in [Requests -> SUBSET Routes]
  /\ failed \in [Routes -> Int]

Replies(r, answers) ==
  stage[r] # "done" /\ stage'[r] = "done" /\ answer' \in answers

\* Failover is complete (dispatch): a request fails, or is told that no
\* member is available, only after its last attempt or when no member was
\* usable ever since it came.  The snapshot of view never costs an answer
\* that a member could have given all along.
FailoverComplete == [][\A r \in Requests :
  Replies(r, {"failed", "none"})
    => attempt[r] + 1 = MaxAttempts \/ steady'[r] = {}]_vars

\* A conversation stays on its member (pick, remember): it is answered by
\* another one only if its own was unusable at some time since the request.
StaysHome == [][\A r \in Requests :
  Replies(r, {"ok"}) /\ plan[r].sticky \in steady[r]
    => call[r] = plan[r].sticky]_vars

\* A member that failed any request is given to no request until its rest
\* is over, whichever request and attempt it failed (cool, cooling).
RestAfterFailure ==
  [][\A r \in Requests : stage[r] = "pick" /\ stage'[r] = "called"
       => now >= failed[call'[r]] + Cooldown]_vars

=============================================================================
