---------------------------- MODULE PoolsProofs ----------------------------
(***************************************************************************)
(* Theorems about Pools, for any pool, any requests and any bounds.        *)
(***************************************************************************)
EXTENDS Pools, FiniteSetTheorems, WellFoundedInduction, TLAPS

(***************************************************************************)
(* The inductive invariant.  What a request may count on, its steady       *)
(* routes, stays usable and inside what the request saw before its first   *)
(* attempt; so a steady route is a candidate until it is called, and a     *)
(* route that failed rests and is no longer steady.                        *)
(***************************************************************************)
Calling(r)  == stage[r] \in {"called", "sent"}
Underway(r) == stage[r] \in {"views", "pick", "called", "sent"}

Rest == \A x \in Routes : failed[x] + Cooldown <= cooldown[x]
Calls == \A r \in Requests : Calling(r) => call[r] \in Routes
Blank == \A r \in Requests :
  stage[r] = "idle" => plan[r] = NoPlan /\ excluded[r] = {} /\ steady[r] = {}
SteadyIsUsable == \A r \in Requests : steady[r] \subseteq Usable(r)
SteadyIsSeen == \A r \in Requests : Underway(r) =>
  steady[r] \subseteq Offered(plan[r].served) \ (plan[r].off \union excluded[r])
HomeIsCalled == \A r \in Requests :
  Calling(r) /\ plan[r].sticky \in steady[r] => call[r] = plan[r].sticky

IInv == /\ TypeOK /\ IsFiniteSet(DOMAIN sticky) /\ Rest /\ Calls /\ Blank
        /\ SteadyIsUsable /\ SteadyIsSeen /\ HomeIsCalled

---------------------------------------------------------------------------
(* The choice of a member.                                                 *)

\* A set of numbers has a least one.
LEMMA LeastNumber ==
  ASSUME NEW T, T \subseteq Nat, T # {}
  PROVE  \E x \in T : \A y \in T : x <= y
  <1>. DEFINE R == {p \in Nat \X Nat : p[1] < p[2]}
  <1>1. IsWellFoundedOn(R, Nat)
    BY NatLessThanWellFounded DEF OpToRel
  <1>. HIDE DEF R
  <1>2. PICK x \in T : \A y \in T : <<y, x>> \notin R
    BY <1>1, WFMin
  <1>3. ASSUME NEW y \in T PROVE x <= y
    <2>1. <<y, x>> \notin R
      BY <1>2
    <2>2. x \in Nat /\ y \in Nat /\ <<y, x>> \in Nat \X Nat
      OBVIOUS
    <2>3. <<y, x>>[1] = y /\ <<y, x>>[2] = x
      OBVIOUS
    <2>4. ~ (y < x)
      BY <2>1, <2>2, <2>3 DEF R
    <2>. QED
      BY <2>2, <2>4
  <1>. QED
    BY <1>3

\* The slots are pairs of numbers, and name routes.
LEMMA SlotsAreRoutes ==
  /\ DOMAIN Members \subseteq Nat /\ DOMAIN Listing \subseteq Nat
  /\ Slots \subseteq Nat \X Nat
  /\ \A s \in Slots : RouteAt(s) \in Routes
  /\ \A i \in DOMAIN Members : Members[i].provider \in Providers
  <1>. USE PoolAssumption
  <1>1. DOMAIN Members \subseteq Nat /\ DOMAIN Listing \subseteq Nat
    OBVIOUS
  <1>2. Slots \subseteq Nat \X Nat
    BY <1>1 DEF Slots
  <1>3. \A i \in DOMAIN Members : Members[i].provider \in Providers
    BY DEF Providers
  <1>4. \A j \in DOMAIN Listing : Listing[j] \in Models
    BY DEF Models
  <1>5. ASSUME NEW s \in Slots PROVE RouteAt(s) \in Routes
    <2>1. s[1] \in DOMAIN Members /\ s[2] \in DOMAIN Listing
      BY DEF Slots
    <2>. QED
      BY <2>1, <1>3, <1>4 DEF RouteAt, Routes
  <1>. QED
    BY <1>1, <1>2, <1>3, <1>5

\* The first slot of a set of slots is one of them (pick).
LEMMA FirstIsIn ==
  ASSUME NEW S, S \subseteq Slots, S # {}
  PROVE  First(S) \in S
  <1>1. \A s \in S : s[1] \in Nat /\ s[2] \in Nat /\ s = <<s[1], s[2]>>
    BY SlotsAreRoutes
  <1>2. DEFINE I == {s[1] : s \in S}
  <1>3. I \subseteq Nat /\ I # {}
    BY <1>1
  <1>4. PICK i \in I : \A k \in I : i <= k
    BY <1>3, LeastNumber
  <1>5. DEFINE J == {s[2] : s \in {t \in S : t[1] = i}}
  <1>6. J \subseteq Nat /\ J # {}
    BY <1>1
  <1>7. PICK j \in J : \A k \in J : j <= k
    BY <1>6, LeastNumber
  <1>8. PICK s \in S : s[1] = i /\ s[2] = j
    OBVIOUS
  <1>9. \A t \in S : Before(s, t)
    <2>. SUFFICES ASSUME NEW t \in S PROVE Before(s, t)
      OBVIOUS
    <2>1. i <= t[1] /\ (t[1] = i => j <= t[2])
      BY <1>4, <1>7
    <2>2. i \in Nat /\ t[1] \in Nat
      BY <1>1, <1>3
    <2>. QED
      BY <2>1, <2>2, <1>8 DEF Before
  <1>. QED
    BY <1>9 DEF First

\* A request is given a candidate, and its conversation's if that is one.
LEMMA PickIsCandidate ==
  ASSUME NEW r \in Requests, Candidates(r) # {}
  PROVE  \E s \in Candidates(r) : /\ s \in Slots /\ Pick(r) = RouteAt(s)
                                  /\ Pick(r) \in Routes
  <1>1. Candidates(r) \subseteq Slots
    BY DEF Candidates
  <1>2. First(Candidates(r)) \in Candidates(r)
    BY <1>1, FirstIsIn
  <1>. QED
    BY <1>1, <1>2, SlotsAreRoutes DEF Pick

\* The next provider to look at is one of the pool's (view).
LEMMA NextIsProvider ==
  ASSUME NEW r \in Requests, plan[r].looked \subseteq Providers,
         plan[r].looked # Providers
  PROVE  NextProvider(r) \in Providers
  <1>1. DEFINE left == {i \in DOMAIN Members : Members[i].provider \notin plan[r].looked}
  <1>2. left \subseteq Nat
    BY SlotsAreRoutes
  <1>3. left # {}
    BY DEF Providers
  <1>4. \E i \in left : \A k \in left : i <= k
    BY <1>2, <1>3, LeastNumber
  <1>5. (CHOOSE i \in left : \A k \in left : i <= k) \in left
    BY <1>4
  <1>. QED
    BY <1>5, SlotsAreRoutes DEF NextProvider

---------------------------------------------------------------------------
(* Types.                                                                  *)

\* The initial state is well-formed and satisfies the invariant.
LEMMA InitIInv == Init => IInv
  <1>. SUFFICES ASSUME Init PROVE IInv
    OBVIOUS
  <1>1. /\ MaxTime \in Nat /\ MaxEvents \in Nat /\ MaxAttempts \in Nat \ {0}
        /\ Cooldown \in Nat \ {0} /\ StickyMax \in Nat
    BY PoolAssumption
  <1>2. NoPlan \in [served : [Probed -> SUBSET Models], off : SUBSET Routes,
                    looked : SUBSET Providers, sticky : Routes \union {NoRoute}]
    BY DEF NoPlan
  <1>3. sticky = <<>> /\ DOMAIN sticky = {}
    <2>1. sticky = <<>>
      BY DEF Init
    <2>2. <<>> \in Seq({}) /\ Len(<<>>) = 0
      OBVIOUS
    <2>3. DOMAIN <<>> = 1 .. Len(<<>>)
      BY <2>2
    <2>4. 1 .. 0 = {}
      OBVIOUS
    <2>. QED
      BY <2>1, <2>2, <2>3, <2>4
  <1>4. Cardinality({}) = 0 /\ IsFiniteSet({})
    BY FS_EmptySet
  <1>5. 0 \in 0 .. MaxTime /\ 0 \in 0 .. MaxEvents /\ 0 \in 0 .. MaxAttempts - 1
    BY <1>1
  <1>6. /\ stage \in [Requests -> Stages] /\ answer \in Answers
        /\ attempt \in [Requests -> 0 .. MaxAttempts - 1]
    BY <1>5 DEF Stages, Answers, Init
  <1>7. /\ failed = [x \in Routes |-> -Cooldown] /\ cooldown = [x \in Routes |-> 0]
    BY DEF Init
  <1>8. failed \in [Routes -> Int] /\ cooldown \in [Routes -> Nat]
    BY <1>1, <1>7
  <1>9. DOMAIN sticky \subseteq Sessions /\ Cardinality(DOMAIN sticky) <= StickyMax
    BY <1>1, <1>3, <1>4
  <1>10. TypeOK
    BY <1>2, <1>3, <1>5, <1>6, <1>8, <1>9 DEF TypeOK, Init
  <1>11. Rest
    BY <1>1, <1>7 DEF Rest
  <1>12. \A r \in Requests : /\ stage[r] = "idle" /\ plan[r] = NoPlan
                             /\ excluded[r] = {} /\ steady[r] = {}
    BY DEF Init
  <1>13. Calls /\ Blank /\ SteadyIsUsable /\ SteadyIsSeen /\ HomeIsCalled
    BY <1>12 DEF Calls, Blank, Calling, Underway, SteadyIsUsable, SteadyIsSeen, HomeIsCalled
  <1>. QED
    BY <1>3, <1>4, <1>10, <1>11, <1>13 DEF IInv

\* The memory of conversations stays finite and within STICKY_MAX (remember).
LEMMA RememberKeeps ==
  ASSUME TypeOK, IsFiniteSet(DOMAIN sticky),
         NEW s \in Sessions, NEW x \in Routes, Remember(s, x)
  PROVE  /\ IsFiniteSet(DOMAIN sticky') /\ DOMAIN sticky' \subseteq Sessions
         /\ Cardinality(DOMAIN sticky') <= StickyMax
         /\ \A t \in DOMAIN sticky' : sticky'[t] \in [route : Routes, at : Nat]
  <1>1. DOMAIN sticky' = Kept \union {s}
    BY DEF Remember
  <1>2. Kept \subseteq DOMAIN sticky
    BY DEF Kept
  <1>3. IsFiniteSet(Kept)
    BY <1>2, FS_Subset
  <1>4. Cardinality(Kept) < StickyMax
    BY FS_EmptySet, PoolAssumption DEF Kept
  <1>5. IsFiniteSet(Kept \union {s}) /\ Cardinality(Kept \union {s}) <= Cardinality(Kept) + 1
    <2>1. /\ IsFiniteSet(Kept \union {s})
          /\ Cardinality(Kept \union {s}) =
               IF s \in Kept THEN Cardinality(Kept) ELSE Cardinality(Kept) + 1
      BY <1>3, FS_AddElement
    <2>2. Cardinality(Kept) \in Nat
      BY <1>3, FS_CardinalityType
    <2>. QED
      BY <2>1, <2>2
  <1>6. Cardinality(Kept) \in Nat /\ Cardinality(Kept \union {s}) \in Nat /\ StickyMax \in Nat
    BY <1>3, <1>5, FS_CardinalityType, PoolAssumption
  <1>7. Cardinality(Kept \union {s}) <= StickyMax
    BY <1>4, <1>5, <1>6
  <1>8. Kept \union {s} \subseteq Sessions
    BY <1>2 DEF TypeOK
  <1>9. now \in Nat
    BY PoolAssumption DEF TypeOK
  <1>10. ASSUME NEW t \in Kept \union {s} PROVE sticky'[t] \in [route : Routes, at : Nat]
    <2>1. sticky'[t] = IF t = s THEN [route |-> x, at |-> now] ELSE sticky[t]
      BY DEF Remember
    <2>2. t # s => sticky[t] \in [route : Routes, at : Nat]
      BY <1>2 DEF TypeOK
    <2>. QED
      BY <2>1, <2>2, <1>9
  <1>. QED
    BY <1>1, <1>5, <1>7, <1>8, <1>10

\* The parts of TypeOK that different actions touch.
TypeWorld == /\ now \in 0 .. MaxTime /\ events \in 0 .. MaxEvents
             /\ served \in [Probed -> SUBSET Models] /\ off \subseteq Routes
TypeShared == /\ cooldown \in [Routes -> Nat] /\ failed \in [Routes -> Int]
              /\ DOMAIN sticky \subseteq Sessions /\ IsFiniteSet(DOMAIN sticky)
              /\ Cardinality(DOMAIN sticky) <= StickyMax
              /\ \A s \in DOMAIN sticky : sticky[s] \in [route : Routes, at : Nat]
Plans == [served : [Probed -> SUBSET Models], off : SUBSET Routes,
          looked : SUBSET Providers, sticky : Routes \union {NoRoute}]
TypeRequest == /\ stage \in [Requests -> Stages] /\ answer \in Answers
               /\ plan \in [Requests -> Plans]
               /\ call \in [Requests -> Routes \union {NoRoute}]
               /\ excluded \in [Requests -> SUBSET Routes]
               /\ attempt \in [Requests -> 0 .. MaxAttempts - 1]

\* The parts are the whole.
LEMMA TypeParts ==
  /\ IInv => TypeWorld /\ TypeShared /\ TypeRequest
  /\ TypeWorld' /\ TypeShared' /\ TypeRequest' /\ steady' \in [Requests -> SUBSET Routes]
       => TypeOK' /\ IsFiniteSet(DOMAIN sticky)'
  <1>1. IInv => TypeWorld
    BY DEF IInv, TypeOK, TypeWorld
  <1>2. IInv => TypeShared
    BY DEF IInv, TypeOK, TypeShared
  <1>3. IInv => TypeRequest
    BY DEF IInv, TypeOK, TypeRequest, Plans
  <1>4. /\ TypeWorld' /\ TypeShared' /\ TypeRequest'
        /\ steady' \in [Requests -> SUBSET Routes]
        => TypeOK' /\ IsFiniteSet(DOMAIN sticky)'
    BY DEF TypeOK, TypeWorld, TypeShared, TypeRequest, Plans
  <1>. QED
    BY <1>1, <1>2, <1>3, <1>4

\* The clock, the prober, maintenance and a refusal keep their own types.
LEMMA WorldStep ==
  ASSUME TypeWorld, [Next]_vars
  PROVE  TypeWorld'
  <1>1. MaxTime \in Nat /\ MaxEvents \in Nat
    BY PoolAssumption
  <1>2. now' \in 0 .. MaxTime /\ now' >= now
    <2>1. CASE Tick
      BY <1>1, <2>1 DEF TypeWorld, Tick
    <2>2. CASE UNCHANGED now
      BY <1>1, <2>2 DEF TypeWorld
    <2>3. \/ Tick \/ UNCHANGED now
      BY DEF Next, vars, Probe, Maintain, Serve, Arrive, Step, ReadAvailability,
             ReadSticky, Dispatch, GiveUp, Unavailable, Send, Answer, Refuse, Outcome
    <2>. QED
      BY <2>1, <2>2, <2>3
  <1>3. events' \in 0 .. MaxEvents
    <2>1. CASE Event
      BY <1>1, <2>1 DEF TypeWorld, Event
    <2>2. CASE UNCHANGED events
      BY <1>1, <2>2 DEF TypeWorld
    <2>3. \/ Event \/ UNCHANGED events
      BY DEF Next, vars, world, Tick, Probe, Maintain, Serve, Arrive, Step,
             ReadAvailability, ReadSticky, Dispatch, GiveUp, Unavailable, Send,
             Answer, Refuse
    <2>. QED
      BY <2>1, <2>2, <2>3
  <1>4. served' \in [Probed -> SUBSET Models]
    <2>1. CASE Probe
      BY <2>1 DEF TypeWorld, Probe
    <2>2. CASE UNCHANGED served
      BY <2>2 DEF TypeWorld
    <2>3. \/ Probe \/ UNCHANGED served
      BY DEF Next, vars, world, Tick, Maintain, Serve, Arrive, Step,
             ReadAvailability, ReadSticky, Dispatch, GiveUp, Unavailable, Send,
             Answer, Refuse, Outcome
    <2>. QED
      BY <2>1, <2>2, <2>3
  <1>5. off' \subseteq Routes
    <2>1. CASE Maintain
      <3>1. PICK x \in Offered([p \in Probed |-> Models]) :
              off' = IF x \in off THEN off \ {x} ELSE off \union {x}
        BY <2>1 DEF Maintain
      <3>2. x \in Routes
        BY SlotsAreRoutes DEF Offered
      <3>. QED
        BY <3>1, <3>2 DEF TypeWorld
    <2>2. CASE UNCHANGED off
      BY <2>2 DEF TypeWorld
    <2>3. \/ Maintain \/ UNCHANGED off
      BY DEF Next, vars, world, Tick, Probe, Serve, Arrive, Step,
             ReadAvailability, ReadSticky, Dispatch, GiveUp, Unavailable, Send,
             Answer, Refuse, Outcome
    <2>. QED
      BY <2>1, <2>2, <2>3
  <1>. QED
    BY <1>2, <1>3, <1>4, <1>5 DEF TypeWorld

\* An outcome keeps the types, whichever way it goes.
LEMMA OutcomeTypes ==
  ASSUME IInv, NEW r \in Requests, Calling(r),
         NEW status \in {"ok", "refused", "failed"}, Outcome(r, status)
  PROVE  /\ TypeShared' /\ TypeRequest' /\ call[r] \in Routes
         /\ now' = now /\ served' = served /\ off' = off
  <1>1. TypeWorld /\ TypeShared /\ TypeRequest
    BY TypeParts
  <1>2. call[r] \in Routes /\ now \in Nat /\ Cooldown \in Nat /\ MaxAttempts \in Nat \ {0}
    BY <1>1, PoolAssumption DEF IInv, Calls, TypeWorld
  <1>3. failed' \in [Routes -> Int]
    BY <1>1, <1>2 DEF Outcome, TypeShared
  <1>4. cooldown' \in [Routes -> Nat]
    <2>1. Cool(call[r]) \/ UNCHANGED cooldown
      BY DEF Outcome, Retry, Finish
    <2>2. Cool(call[r]) => cooldown' \in [Routes -> Nat]
      BY <1>1, <1>2 DEF Cool, TypeShared
    <2>. QED
      BY <2>1, <2>2, <1>1 DEF TypeShared
  <1>5. /\ DOMAIN sticky' \subseteq Sessions /\ IsFiniteSet(DOMAIN sticky')
        /\ Cardinality(DOMAIN sticky') <= StickyMax
        /\ \A t \in DOMAIN sticky' : sticky'[t] \in [route : Routes, at : Nat]
    <2>1. CASE UNCHANGED sticky
      BY <2>1, <1>1 DEF TypeShared
    <2>2. CASE Session[r] # NoSession /\ Remember(Session[r], call[r])
      <3>1. Session[r] \in Sessions
        BY <2>2 DEF Sessions
      <3>. QED
        BY <2>2, <3>1, <1>2, RememberKeeps DEF IInv
    <2>3. \/ UNCHANGED sticky
          \/ Session[r] # NoSession /\ Remember(Session[r], call[r])
      BY DEF Outcome, Retry, Finish
    <2>. QED
      BY <2>1, <2>2, <2>3
  <1>6. TypeRequest'
    <2>1. CASE Reply(r, status)
      <3>1. 0 \in 0 .. MaxAttempts - 1
        BY <1>2
      <3>2. NoPlan \in Plans
        BY DEF NoPlan, Plans
      <3>. QED
        BY <2>1, <3>1, <3>2, <1>1 DEF Reply, Goto, TypeRequest, Stages, Answers
    <2>2. CASE attempt[r] + 1 < MaxAttempts /\ Retry(r)
      <3>1. attempt[r] + 1 \in 0 .. MaxAttempts - 1
        BY <2>2, <1>1, <1>2 DEF TypeRequest
      <3>. QED
        BY <2>2, <3>1, <1>1, <1>2 DEF Retry, Goto, TypeRequest, Stages
    <2>3. Reply(r, status) \/ (attempt[r] + 1 < MaxAttempts /\ Retry(r))
      BY DEF Outcome, Finish
    <2>. QED
      BY <2>1, <2>2, <2>3
  <1>7. TypeShared'
    BY <1>3, <1>4, <1>5 DEF TypeShared
  <1>. QED
    BY <1>2, <1>6, <1>7 DEF Outcome

\* A step by a request is one of these.
LEMMA Steps ==
  ASSUME Next
  PROVE  \/ UNCHANGED <<cooldown, sticky, request, failed>>
         \/ \E r \in Requests :
              \/ Arrive(r) \/ ReadAvailability(r) \/ ReadSticky(r) \/ Dispatch(r)
              \/ GiveUp(r) \/ Send(r)
              \/ \E status \in {"ok", "refused", "failed"} :
                   Calling(r) /\ Outcome(r, status)
  BY DEF Next, Tick, Probe, Maintain, Serve, Step, Unavailable, Answer, Refuse, Calling

\* Every step keeps TypeOK.
LEMMA TypeStep ==
  ASSUME IInv, Next
  PROVE  TypeOK' /\ IsFiniteSet(DOMAIN sticky)'
  <1>1. TypeWorld /\ TypeShared /\ TypeRequest
    BY TypeParts
  <1>2. TypeWorld'
    BY <1>1, WorldStep
  <1>3. steady' \in [Requests -> SUBSET Routes]
    <2>1. \A r \in Requests : Permitted[r] \subseteq Routes
      BY PoolAssumption
    <2>2. \A r \in Requests : Usable(r)' \subseteq Routes
      BY <2>1 DEF Usable
    <2>. QED
      BY <2>2 DEF Next, Observe
  <1>4. MaxAttempts \in Nat \ {0}
    BY PoolAssumption
  <1>5. TypeShared' /\ TypeRequest'
    <2>1. CASE UNCHANGED <<cooldown, sticky, request, failed>>
      BY <2>1, <1>1 DEF TypeShared, TypeRequest, request
    <2>2. ASSUME NEW r \in Requests, Arrive(r) PROVE TypeShared' /\ TypeRequest'
      <3>1. plan' \in [Requests -> Plans]
        BY <2>2, <1>1 DEF Arrive, TypeRequest, TypeWorld, Plans
      <3>. QED
        BY <2>2, <3>1, <1>1 DEF Arrive, Goto, TypeShared, TypeRequest, Stages
    <2>3. ASSUME NEW r \in Requests, ReadAvailability(r) PROVE TypeShared' /\ TypeRequest'
      <3>1. plan[r] \in Plans /\ NextProvider(r) \in Providers
        BY <2>3, <1>1, NextIsProvider DEF ReadAvailability, TypeRequest, Plans
      <3>2. plan' \in [Requests -> Plans]
        BY <2>3, <3>1, <1>1 DEF ReadAvailability, TypeRequest, TypeWorld, Plans
      <3>. QED
        BY <2>3, <3>2, <1>1 DEF ReadAvailability, TypeShared, TypeRequest
    <2>4. ASSUME NEW r \in Requests, ReadSticky(r) PROVE TypeShared' /\ TypeRequest'
      <3>. DEFINE home == IF Live(Session[r]) THEN sticky[Session[r]].route ELSE NoRoute
      <3>1. home \in Routes \union {NoRoute}
        BY <1>1 DEF Live, TypeShared
      <3>2. plan' = [plan EXCEPT ![r].sticky = home]
        BY <2>4 DEF ReadSticky
      <3>. HIDE DEF home
      <3>3. plan' \in [Requests -> Plans]
        BY <3>1, <3>2, <1>1 DEF TypeRequest, Plans
      <3>. QED
        BY <2>4, <3>3, <1>1 DEF ReadSticky, Goto, TypeShared, TypeRequest, Stages
    <2>5. ASSUME NEW r \in Requests, Dispatch(r) PROVE TypeShared' /\ TypeRequest'
      <3>1. Pick(r) \in Routes
        BY <2>5, PickIsCandidate DEF Dispatch
      <3>. QED
        BY <2>5, <3>1, <1>1 DEF Dispatch, Goto, TypeShared, TypeRequest, Stages
    <2>6. ASSUME NEW r \in Requests, GiveUp(r) PROVE TypeShared' /\ TypeRequest'
      <3>1. 0 \in 0 .. MaxAttempts - 1
        BY <1>4
      <3>2. NoPlan \in Plans
        BY DEF NoPlan, Plans
      <3>. QED
        BY <2>6, <3>1, <3>2, <1>1
           DEF GiveUp, Reply, Goto, TypeShared, TypeRequest, Stages, Answers
    <2>7. ASSUME NEW r \in Requests, Send(r) PROVE TypeShared' /\ TypeRequest'
      BY <2>7, <1>1 DEF Send, Goto, TypeShared, TypeRequest, Stages
    <2>8. ASSUME NEW r \in Requests, NEW status \in {"ok", "refused", "failed"},
                 Calling(r), Outcome(r, status)
          PROVE TypeShared' /\ TypeRequest'
      BY <2>8, OutcomeTypes
    <2>. QED
      BY <2>1, <2>2, <2>3, <2>4, <2>5, <2>6, <2>7, <2>8, Steps
  <1>. QED
    BY <1>2, <1>3, <1>5, TypeParts

---------------------------------------------------------------------------
(* What a step does to what a request may count on.                        *)

\* A route counts as steady only while it is usable, and never anew.
LEMMA SteadyShrinks ==
  ASSUME Next, NEW r \in Requests
  PROVE  /\ steady'[r] \subseteq Usable(r)'
         /\ stage[r] = "idle" => steady'[r] \subseteq Usable(r)
         /\ stage[r] # "idle" => steady'[r] \subseteq steady[r]
         /\ stage'[r] = "idle" \/ stage[r] = "done" => steady'[r] = {}
  <1>1. steady'[r] =
          IF stage'[r] = "idle" \/ stage[r] = "done" THEN {}
          ELSE Usable(r)' \intersect
                 (IF stage[r] = "idle" THEN Usable(r) ELSE steady[r])
    BY DEF Next, Observe
  <1>. QED
    BY <1>1

\* A failed route rests (cool).
LEMMA RestStep ==
  ASSUME IInv, Next
  PROVE  Rest'
  <1>1. Rest /\ TypeWorld /\ TypeShared
    BY TypeParts DEF IInv
  <1>2. Cooldown \in Nat /\ now \in Nat
    BY <1>1, PoolAssumption DEF TypeWorld
  <1>3. CASE UNCHANGED <<cooldown, failed>>
    BY <1>1, <1>3 DEF Rest
  <1>4. ASSUME NEW r \in Requests, NEW status \in {"ok", "refused", "failed"},
               Calling(r), Outcome(r, status)
        PROVE  Rest'
    <2>1. call[r] \in Routes
      BY <1>4, OutcomeTypes
    <2>2. CASE status = "failed"
      <3>1. /\ failed' = [failed EXCEPT ![call[r]] = now]
            /\ cooldown' = [cooldown EXCEPT ![call[r]] = now + Cooldown]
        BY <1>4, <2>2 DEF Outcome, Retry, Finish, Cool
      <3>2. ASSUME NEW x \in Routes PROVE failed'[x] + Cooldown <= cooldown'[x]
        BY <3>1, <2>1, <1>1, <1>2 DEF Rest, TypeShared
      <3>. QED
        BY <3>2 DEF Rest
    <2>3. CASE status # "failed"
      <3>1. UNCHANGED <<cooldown, failed>>
        BY <1>4, <2>3 DEF Outcome, Retry, Finish
      <3>. QED
        BY <3>1, <1>1 DEF Rest
    <2>. QED
      BY <2>2, <2>3
  <1>. QED
    BY <1>3, <1>4, Steps DEF Arrive, ReadAvailability, ReadSticky, Dispatch, GiveUp, Send

\* What one request does in a step, seen from it.
LEMMA OwnStep ==
  ASSUME IInv, Next, NEW q \in Requests
  PROVE  \/ /\ stage'[q] = stage[q] /\ plan'[q] = plan[q]
            /\ call'[q] = call[q] /\ excluded'[q] = excluded[q]
         \/ Arrive(q) \/ ReadAvailability(q) \/ ReadSticky(q) \/ Dispatch(q)
         \/ GiveUp(q) \/ Send(q)
         \/ \E status \in {"ok", "refused", "failed"} :
              Calling(q) /\ Outcome(q, status)
  <1>. DEFINE Same == /\ stage'[q] = stage[q] /\ plan'[q] = plan[q]
                      /\ call'[q] = call[q] /\ excluded'[q] = excluded[q]
  <1>1. TypeRequest
    BY TypeParts
  <1>2. CASE UNCHANGED <<cooldown, sticky, request, failed>>
    BY <1>2 DEF request
  <1>3. ASSUME NEW r \in Requests \ {q}, Arrive(r) PROVE Same
    BY <1>1, <1>3 DEF Arrive, Goto, TypeRequest
  <1>4. ASSUME NEW r \in Requests \ {q}, ReadAvailability(r) PROVE Same
    BY <1>1, <1>4 DEF ReadAvailability, TypeRequest
  <1>5. ASSUME NEW r \in Requests \ {q}, ReadSticky(r) PROVE Same
    BY <1>1, <1>5 DEF ReadSticky, Goto, TypeRequest
  <1>6. ASSUME NEW r \in Requests \ {q}, Dispatch(r) \/ Send(r) PROVE Same
    BY <1>1, <1>6 DEF Dispatch, Send, Goto, TypeRequest
  <1>7. ASSUME NEW r \in Requests \ {q}, GiveUp(r) PROVE Same
    BY <1>1, <1>7 DEF GiveUp, Reply, Goto, TypeRequest
  <1>8. ASSUME NEW r \in Requests \ {q}, NEW status \in {"ok", "refused", "failed"},
               Outcome(r, status)
        PROVE Same
    <2>1. Retry(r) \/ Reply(r, status)
      BY <1>8 DEF Outcome, Finish
    <2>. QED
      BY <2>1, <1>1 DEF Retry, Reply, Goto, TypeRequest
  <1>. HIDE DEF Same
  <1>9. ASSUME NEW r \in Requests \ {q},
               \/ Arrive(r) \/ ReadAvailability(r) \/ ReadSticky(r) \/ Dispatch(r)
               \/ GiveUp(r) \/ Send(r)
               \/ \E status \in {"ok", "refused", "failed"} :
                    Calling(r) /\ Outcome(r, status)
        PROVE Same
    BY <1>3, <1>4, <1>5, <1>6, <1>7, <1>8, <1>9
  <1>10. \/ UNCHANGED <<cooldown, sticky, request, failed>>
         \/ \E r \in Requests :
              \/ Arrive(r) \/ ReadAvailability(r) \/ ReadSticky(r) \/ Dispatch(r)
              \/ GiveUp(r) \/ Send(r)
              \/ \E status \in {"ok", "refused", "failed"} :
                   Calling(r) /\ Outcome(r, status)
    BY Steps
  <1>. QED
    BY <1>2, <1>9, <1>10 DEF Same

\* A steady route is a candidate (candidates, view).
LEMMA SteadyIsCandidate ==
  ASSUME IInv, NEW r \in Requests, Underway(r), NEW x \in steady[r]
  PROVE  \E s \in Candidates(r) : RouteAt(s) = x
  <1>1. x \in Usable(r) /\ x \in Offered(plan[r].served) \ (plan[r].off \union excluded[r])
    BY DEF IInv, SteadyIsUsable, SteadyIsSeen
  <1>2. PICK s \in Slots : Offers(s, plan[r].served) /\ RouteAt(s) = x
    BY <1>1 DEF Offered
  <1>. QED
    BY <1>1, <1>2 DEF Candidates, Usable

\* A failed route is at rest, so it is not usable (cool).
LEMMA FailedIsNotUsable ==
  ASSUME IInv, NEW r \in Requests, NEW q \in Requests, Calling(r), Outcome(r, "failed")
  PROVE  call[r] \notin Usable(q)'
  <1>1. call[r] \in Routes /\ now' = now /\ TypeWorld /\ TypeShared
    BY OutcomeTypes, TypeParts
  <1>2. cooldown' = [cooldown EXCEPT ![call[r]] = now + Cooldown]
    BY DEF Outcome, Retry, Finish, Cool
  <1>3. now \in Nat /\ Cooldown \in Nat \ {0}
    BY <1>1, PoolAssumption DEF TypeWorld
  <1>4. now' < cooldown'[call[r]]
    BY <1>1, <1>2, <1>3 DEF TypeShared
  <1>. QED
    BY <1>4 DEF Usable, Cooling

\* Every step keeps what a request may count on inside what it saw.
LEMMA SeenStep ==
  ASSUME IInv, Next, NEW q \in Requests, Underway(q)'
  PROVE  steady'[q] \subseteq
           Offered(plan'[q].served) \ (plan'[q].off \union excluded'[q])
  <1>. DEFINE Goal == steady'[q] \subseteq
                Offered(plan'[q].served) \ (plan'[q].off \union excluded'[q])
  <1>1. TypeWorld /\ TypeRequest /\ plan[q] \in Plans /\ NoPlan \in Plans
    BY TypeParts DEF TypeRequest, NoPlan, Plans
  <1>2. /\ steady'[q] \subseteq Usable(q)'
        /\ stage[q] = "idle" => steady'[q] \subseteq Usable(q)
        /\ stage[q] # "idle" => steady'[q] \subseteq steady[q]
    BY SteadyShrinks
  <1>3. Underway(q) => steady[q] \subseteq
                Offered(plan[q].served) \ (plan[q].off \union excluded[q])
    BY DEF IInv, SteadyIsSeen
  <1>4. Underway(q) => stage[q] # "idle"
    BY DEF Underway
  <1>5. ASSUME stage'[q] = stage[q], plan'[q] = plan[q], excluded'[q] = excluded[q]
        PROVE Goal
    BY <1>2, <1>3, <1>4, <1>5 DEF Underway
  <1>6. ASSUME Arrive(q) PROVE Goal
    <2>1. /\ plan'[q].served = served /\ plan'[q].off = {} /\ excluded'[q] = {}
          /\ stage[q] = "idle"
      BY <1>6, <1>1 DEF Arrive, IInv, Blank, TypeRequest, NoPlan
    <2>2. Usable(q) \subseteq Offered(served)
      BY DEF Usable
    <2>. QED
      BY <2>1, <2>2, <1>2
  <1>7. ASSUME ReadAvailability(q) PROVE Goal
    <2>1. Underway(q)
      BY <1>7 DEF ReadAvailability, Underway
    <2>2. /\ plan'[q].served = plan[q].served /\ excluded'[q] = excluded[q]
          /\ plan'[q].off \subseteq plan[q].off \union off
      BY <1>7, <1>1 DEF ReadAvailability, TypeRequest, Plans
    <2>3. off' = off
      BY <1>7 DEF ReadAvailability, world
    <2>4. steady'[q] \intersect off = {}
      BY <2>3, <1>2 DEF Usable
    <2>. QED
      BY <2>1, <2>2, <2>4, <1>2, <1>3, <1>4
  <1>8. ASSUME ReadSticky(q) \/ Dispatch(q) \/ Send(q) PROVE Goal
    <2>1. Underway(q)
      BY <1>8 DEF ReadSticky, Dispatch, Send, Underway
    <2>2. /\ plan'[q].served = plan[q].served /\ plan'[q].off = plan[q].off
          /\ excluded'[q] = excluded[q]
      BY <1>8, <1>1 DEF ReadSticky, Dispatch, Send, TypeRequest, Plans
    <2>. QED
      BY <2>1, <2>2, <1>2, <1>3, <1>4
  <1>9. ~GiveUp(q)
    BY <1>1 DEF GiveUp, Reply, Goto, Underway, TypeRequest
  <1>10. ASSUME NEW status \in {"ok", "refused", "failed"}, Calling(q), Outcome(q, status)
         PROVE Goal
    <2>1. status = "failed" /\ Retry(q)
      <3>1. ~Finish(q, status)
        BY <1>1 DEF Finish, Reply, Goto, Underway, TypeRequest
      <3>. QED
        BY <1>10, <3>1 DEF Outcome
    <2>2. /\ plan'[q] = plan[q] /\ excluded'[q] = excluded[q] \union {call[q]}
      BY <2>1, <1>1 DEF Retry, TypeRequest
    <2>3. call[q] \notin steady'[q]
      BY <2>1, <1>10, <1>2, FailedIsNotUsable
    <2>4. Underway(q)
      BY <1>10 DEF Calling, Underway
    <2>. QED
      BY <2>2, <2>3, <2>4, <1>2, <1>3, <1>4
  <1>. QED
    BY <1>5, <1>6, <1>7, <1>8, <1>9, <1>10, OwnStep

\* Every step keeps a conversation's steady member the one that is called.
LEMMA HomeStep ==
  ASSUME IInv, Next, NEW q \in Requests, Calling(q)', plan'[q].sticky \in steady'[q]
  PROVE  call'[q] = plan'[q].sticky
  <1>1. TypeRequest /\ plan[q] \in Plans
    BY TypeParts DEF TypeRequest
  <1>2. Underway(q) => steady'[q] \subseteq steady[q]
    BY SteadyShrinks DEF Underway
  <1>3. Calling(q) /\ plan[q].sticky \in steady[q] => call[q] = plan[q].sticky
    BY DEF IInv, HomeIsCalled
  <1>4. ASSUME stage'[q] = stage[q], plan'[q] = plan[q], call'[q] = call[q]
        PROVE call'[q] = plan'[q].sticky
    BY <1>2, <1>3, <1>4 DEF Calling, Underway
  <1>5. ASSUME Send(q) PROVE call'[q] = plan'[q].sticky
    BY <1>2, <1>3, <1>5 DEF Send, Calling, Underway
  <1>6. ASSUME Dispatch(q) PROVE call'[q] = plan'[q].sticky
    <2>1. Underway(q) /\ plan'[q] = plan[q] /\ call'[q] = Pick(q)
      BY <1>6, <1>1 DEF Dispatch, Underway, TypeRequest
    <2>2. plan[q].sticky \in steady[q]
      BY <2>1, <1>2
    <2>3. \E s \in Candidates(q) : RouteAt(s) = plan[q].sticky
      BY <2>1, <2>2, SteadyIsCandidate
    <2>. QED
      BY <2>1, <2>3 DEF Pick
  <1>7. ~Arrive(q) /\ ~ReadAvailability(q) /\ ~ReadSticky(q) /\ ~GiveUp(q)
    BY <1>1 DEF Arrive, ReadAvailability, ReadSticky, GiveUp, Reply, Goto, Calling,
                TypeRequest
  <1>8. \A status \in {"ok", "refused", "failed"} : ~Outcome(q, status)
    BY <1>1 DEF Outcome, Retry, Finish, Reply, Goto, Calling, TypeRequest
  <1>. QED
    BY <1>4, <1>5, <1>6, <1>7, <1>8, OwnStep

\* Every step keeps a call's route, and a request that has not come blank.
LEMMA CallStep ==
  ASSUME IInv, Next, NEW q \in Requests
  PROVE  /\ Calling(q)' => call'[q] \in Routes
         /\ stage'[q] = "idle" =>
              plan'[q] = NoPlan /\ excluded'[q] = {} /\ steady'[q] = {}
  <1>1. TypeRequest
    BY TypeParts
  <1>2. (Calling(q) => call[q] \in Routes)
        /\ (stage[q] = "idle" => plan[q] = NoPlan /\ excluded[q] = {})
    BY DEF IInv, Calls, Blank
  <1>3. stage'[q] = "idle" => steady'[q] = {}
    BY SteadyShrinks
  <1>4. ASSUME stage'[q] = stage[q], plan'[q] = plan[q], call'[q] = call[q],
               excluded'[q] = excluded[q]
        PROVE  /\ Calling(q)' => call'[q] \in Routes
               /\ stage'[q] = "idle" => plan'[q] = NoPlan /\ excluded'[q] = {}
    BY <1>2, <1>4 DEF Calling
  <1>5. ASSUME Dispatch(q)
        PROVE  /\ Calling(q)' => call'[q] \in Routes
               /\ stage'[q] # "idle"
    <2>1. Pick(q) \in Routes
      BY <1>5, PickIsCandidate DEF Dispatch
    <2>. QED
      BY <1>5, <2>1, <1>1 DEF Dispatch, Goto, TypeRequest
  <1>6. ASSUME Send(q)
        PROVE  (Calling(q)' => call'[q] \in Routes) /\ stage'[q] # "idle"
    BY <1>6, <1>1, <1>2 DEF Send, Goto, TypeRequest, Calling
  <1>7. ASSUME Arrive(q) \/ ReadAvailability(q) \/ ReadSticky(q) \/ GiveUp(q)
        PROVE  ~Calling(q)' /\ stage'[q] # "idle"
    BY <1>1, <1>7 DEF Arrive, ReadAvailability, ReadSticky, GiveUp, Reply, Goto,
                      Calling, TypeRequest
  <1>8. ASSUME NEW status \in {"ok", "refused", "failed"}, Outcome(q, status)
        PROVE  ~Calling(q)' /\ stage'[q] # "idle"
    BY <1>1, <1>8 DEF Outcome, Retry, Finish, Reply, Goto, Calling, TypeRequest
  <1>. QED
    BY <1>3, <1>4, <1>5, <1>6, <1>7, <1>8, OwnStep

\* Every step keeps the invariant.
LEMMA NextIInv == IInv /\ [Next]_vars => IInv'
  <1>1. ASSUME IInv, Next PROVE IInv'
    <2>1. TypeOK' /\ IsFiniteSet(DOMAIN sticky)'
      BY <1>1, TypeStep
    <2>2. Rest'
      BY <1>1, RestStep
    <2>3. Calls' /\ Blank'
      BY <1>1, CallStep DEF Calls, Blank
    <2>4. SteadyIsUsable'
      BY <1>1, SteadyShrinks DEF SteadyIsUsable
    <2>5. SteadyIsSeen'
      BY <1>1, SeenStep DEF SteadyIsSeen
    <2>6. HomeIsCalled'
      BY <1>1, HomeStep DEF HomeIsCalled
    <2>. QED
      BY <2>1, <2>2, <2>3, <2>4, <2>5, <2>6 DEF IInv
  <1>2. ASSUME IInv, UNCHANGED vars PROVE IInv'
    BY <1>2 DEF IInv, vars, TypeOK, Rest, Calls, Blank, SteadyIsUsable, SteadyIsSeen,
            HomeIsCalled, Calling, Underway, Usable, Cooling
  <1>. QED
    BY <1>1, <1>2

---------------------------------------------------------------------------
(* The theorems.                                                           *)

\* Every reachable state satisfies the inductive invariant.
THEOREM Invariance == Spec => []IInv
  BY InitIInv, NextIInv, PTL DEF Spec

\* The memory of conversations names routes only and never passes STICKY_MAX
\* (remember), and no request makes more attempts than it may (dispatch).
THEOREM TypeCorrect == Spec => []TypeOK
  <1>1. IInv => TypeOK
    BY DEF IInv
  <1>. QED
    BY <1>1, Invariance, PTL

\* A member that failed any request is given to no request until its rest is
\* over (cool, candidates).
THEOREM RestIsKept == Spec => RestAfterFailure
  <1>1. ASSUME IInv, [Next]_vars
        PROVE [\A r \in Requests : stage[r] = "pick" /\ stage'[r] = "called"
                 => now >= failed[call'[r]] + Cooldown]_vars
    <2>. SUFFICES ASSUME Next, NEW r \in Requests,
                         stage[r] = "pick", stage'[r] = "called"
                  PROVE now >= failed[call'[r]] + Cooldown
      BY <1>1
    <2>1. TypeRequest /\ TypeShared /\ TypeWorld /\ Rest
      BY <1>1, TypeParts DEF IInv
    <2>2. Dispatch(r)
      BY <1>1, <2>1, OwnStep
         DEF Arrive, ReadAvailability, ReadSticky, GiveUp, Send, Reply, Goto, Calling,
             TypeRequest
    <2>3. call'[r] = Pick(r)
      BY <2>1, <2>2 DEF Dispatch, TypeRequest
    <2>4. PICK s \in Candidates(r) : Pick(r) = RouteAt(s) /\ Pick(r) \in Routes
      BY <2>2, PickIsCandidate DEF Dispatch
    <2>5. ~ (now < cooldown[Pick(r)])
      BY <2>4 DEF Candidates, Cooling
    <2>6. /\ failed[Pick(r)] + Cooldown <= cooldown[Pick(r)]
          /\ failed[Pick(r)] \in Int /\ cooldown[Pick(r)] \in Nat
      BY <2>1, <2>4 DEF Rest, TypeShared
    <2>7. now \in Nat /\ Cooldown \in Nat
      BY <2>1, PoolAssumption DEF TypeWorld
    <2>. QED
      BY <2>3, <2>5, <2>6, <2>7
  <1>. QED
    BY <1>1, Invariance, PTL DEF Spec, RestAfterFailure

\* A conversation is answered by another member only if its own was unusable
\* at some time since the request (pick, remember).
THEOREM ConversationStaysHome == Spec => StaysHome
  <1>1. ASSUME IInv, [Next]_vars
        PROVE [\A r \in Requests : Replies(r, {"ok"}) /\ plan[r].sticky \in steady[r]
                 => call[r] = plan[r].sticky]_vars
    <2>. SUFFICES ASSUME Next, NEW r \in Requests, Replies(r, {"ok"}),
                         plan[r].sticky \in steady[r]
                  PROVE call[r] = plan[r].sticky
      BY <1>1
    <2>1. TypeRequest
      BY <1>1, TypeParts
    <2>2. ~GiveUp(r)
      BY DEF GiveUp, Reply, Replies
    <2>3. Calling(r)
      BY <1>1, <2>1, <2>2, OwnStep
         DEF Arrive, ReadAvailability, ReadSticky, Dispatch, Send, Goto, Replies,
             TypeRequest
    <2>. QED
      BY <1>1, <2>3 DEF IInv, HomeIsCalled
  <1>. QED
    BY <1>1, Invariance, PTL DEF Spec, StaysHome

\* A request fails only after its last attempt or when no member was usable
\* ever since it came (dispatch).
THEOREM FailoverIsComplete == Spec => FailoverComplete
  <1>1. ASSUME IInv, [Next]_vars
        PROVE [\A r \in Requests : Replies(r, {"failed", "none"})
                 => attempt[r] + 1 = MaxAttempts \/ steady'[r] = {}]_vars
    <2>. SUFFICES ASSUME Next, NEW r \in Requests, Replies(r, {"failed", "none"})
                  PROVE attempt[r] + 1 = MaxAttempts \/ steady'[r] = {}
      BY <1>1
    <2>1. TypeRequest
      BY <1>1, TypeParts
    <2>2. MaxAttempts \in Nat \ {0} /\ attempt[r] \in 0 .. MaxAttempts - 1
      BY <2>1, PoolAssumption DEF TypeRequest
    <2>3. CASE GiveUp(r)
      <3>1. Underway(r) /\ Candidates(r) = {} /\ stage[r] # "idle"
        BY <2>3 DEF GiveUp, Underway
      <3>2. steady[r] = {}
        BY <1>1, <3>1, SteadyIsCandidate
      <3>. QED
        BY <3>1, <3>2, SteadyShrinks
    <2>4. ASSUME NEW status \in {"ok", "refused", "failed"}, Outcome(r, status)
          PROVE attempt[r] + 1 = MaxAttempts
      <3>1. ~Retry(r)
        BY <2>1 DEF Retry, Goto, Replies, TypeRequest
      <3>2. Finish(r, status)
        BY <2>4, <3>1 DEF Outcome
      <3>3. status = "failed"
        BY <3>2 DEF Finish, Reply, Replies
      <3>4. ~ (attempt[r] + 1 < MaxAttempts)
        BY <2>4, <3>1, <3>3 DEF Outcome
      <3>. QED
        BY <2>2, <3>4
    <2>5. GiveUp(r) \/ \E status \in {"ok", "refused", "failed"} : Outcome(r, status)
      BY <1>1, <2>1, OwnStep
         DEF Arrive, ReadAvailability, ReadSticky, Dispatch, Send, Goto, Replies,
             TypeRequest
    <2>. QED
      BY <2>3, <2>4, <2>5
  <1>. QED
    BY <1>1, Invariance, PTL DEF Spec, FailoverComplete
=============================================================================
