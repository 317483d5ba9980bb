------------------------- MODULE LiveSessionsProofs -------------------------
(***************************************************************************)
(* Theorems about LiveSessions, for any number of conversations, messages  *)
(* and WebSockets, any capacity and any lifetime.                          *)
(***************************************************************************)
EXTENDS LiveSessions, FiniteSetTheorems, TLAPS

\* Where a call stands, and what it carries there.
Calls == [step : Steps \ {"choose", "evict"}]
           \union [step : {"choose"}, excess : Nat]
           \union [step : {"evict"}, chosen : SUBSET Conversations]

\* A conversation's entry has its type, and a message only waits in the queue of
\* its own conversation.
EntriesOK ==
  /\ DOMAIN entries \subseteq Conversations
  /\ \A c \in DOMAIN entries :
       /\ entries[c] \in [queued : Seq(Injections), at : 0 .. MaxTime]
       /\ \A i \in Items(entries[c].queued) : To[i] = c

\* The store's types are those of TypeOK.
StoreOK ==
  /\ now \in 0 .. MaxTime
  /\ EntriesOK
  /\ call \in [Injections -> Calls]
  /\ taken \in [Injections -> Nat]
  /\ dropped \subseteq Injections
  /\ delivered \in [Injections -> SUBSET Sessions]

\* The sessions' types are those of TypeOK.
ListsOK ==
  /\ DOMAIN sessions \subseteq Conversations
  /\ \A c \in DOMAIN sessions : sessions[c] \subseteq {s \in Sessions : On[s] = c}

InboxOK == inbox \in [Sessions -> Seq(Injections)]

HandlersOK ==
  /\ stage \in [Sessions -> Stages] /\ tasks \in [Sessions -> SUBSET Tasks]
  /\ outbox \in [Sessions -> Seq(Injections \union {Close})]
  /\ client \in [Sessions -> BOOLEAN] /\ upstream \in [Sessions -> BOOLEAN]
  /\ recorded \in [Sessions -> BOOLEAN]
  /\ sent \in [Sessions -> SUBSET Injections]

SocketsOK == ListsOK /\ InboxOK /\ HandlersOK

\* A call that has put its message away.
Accepted == {"count", "choose", "evict", "done"}

\* One fate of message i, and no other.
Fate(i) ==
  IF call[i].step \in Accepted
  THEN \/ Queued(i) /\ taken[i] = 0 /\ delivered[i] = {} /\ i \notin dropped
       \/ ~Queued(i) /\ taken[i] = 1 /\ delivered[i] = {} /\ i \notin dropped
       \/ ~Queued(i) /\ taken[i] = 0 /\ delivered[i] # {} /\ i \notin dropped
       \/ ~Queued(i) /\ taken[i] = 0 /\ delivered[i] = {} /\ i \in dropped
  ELSE ~Queued(i) /\ taken[i] = 0 /\ delivered[i] = {} /\ i \notin dropped

(***************************************************************************)
(* The inductive invariant for the capacity: unless a call has yet to      *)
(* count, there are not too many conversations, or a call that counted     *)
(* after the last was added has still to choose as many as are too many,   *)
(* or to remove what it chose.  Calls that overlap may remove more.        *)
(***************************************************************************)
Counting == {i \in Injections : call[i].step = "count"}

Bounded ==
  \/ Cardinality(DOMAIN entries) <= MaxConversations
  \/ \E i \in Injections :
       /\ call[i].step = "choose"
       /\ Cardinality(DOMAIN entries) <= MaxConversations + call[i].excess
  \/ \E i \in Injections :
       /\ call[i].step = "evict"
       /\ Cardinality(DOMAIN entries \ call[i].chosen) <= MaxConversations

Capacity ==
  /\ IsFiniteSet(DOMAIN entries)
  /\ ~CaptureAll /\ Counting = {} => Bounded

Fates == \A i \in Injections : Fate(i)

LiveInv == StoreOK /\ SocketsOK /\ Capacity /\ Fates

-----------------------------------------------------------------------------
(* Operators.                                                              *)

\* Put changes one value, and may add it.
LEMMA PutAt ==
  ASSUME NEW f, NEW x, NEW y
  PROVE  /\ DOMAIN Put(f, x, y) = DOMAIN f \union {x}
         /\ Put(f, x, y)[x] = y
         /\ \A z \in DOMAIN f \ {x} : Put(f, x, y)[z] = f[z]
  BY DEF Put

\* Without takes values away.
LEMMA WithoutAt ==
  ASSUME NEW f, NEW S
  PROVE  /\ DOMAIN Without(f, S) = DOMAIN f \ S
         /\ \A z \in DOMAIN f \ S : Without(f, S)[z] = f[z]
  BY DEF Without

\* What is appended is in the queue with what was there.
LEMMA ItemsAppended ==
  ASSUME NEW S, NEW q \in Seq(S), NEW x \in S
  PROVE  /\ Append(q, x) \in Seq(S)
         /\ Items(Append(q, x)) = Items(q) \union {x}
  <1>1. /\ Append(q, x) \in Seq(S)
        /\ DOMAIN Append(q, x) = 1 .. Len(q) + 1 /\ DOMAIN q = 1 .. Len(q)
        /\ Len(q) \in Nat
        /\ \A n \in 1 .. Len(q) : Append(q, x)[n] = q[n]
        /\ Append(q, x)[Len(q) + 1] = x
    OBVIOUS
  <1>2. Items(q) \union {x} \subseteq Items(Append(q, x))
    BY <1>1 DEF Items
  <1>3. Items(Append(q, x)) \subseteq Items(q) \union {x}
    <2>1. ASSUME NEW n \in 1 .. Len(q) + 1
          PROVE  Append(q, x)[n] \in Items(q) \union {x}
      <3>1. n \in 1 .. Len(q) \/ n = Len(q) + 1
        BY <1>1
      <3>. QED
        BY <1>1, <3>1 DEF Items
    <2>. QED
      BY <1>1, <2>1 DEF Items
  <1>. QED
    BY <1>1, <1>2, <1>3

\* Nothing waits in an empty queue.
LEMMA ItemsOfNone == Items(<<>>) = {} /\ \A S : <<>> \in Seq(S)
  BY DEF Items

-----------------------------------------------------------------------------
(* What the store's operations do.                                         *)

\* A message leaves its queue when its conversation is forgotten, and is dropped.
LEMMA ForgetFacts ==
  ASSUME StoreOK, NEW S, Forget(S)
  PROVE  /\ EntriesOK' /\ taken' = taken /\ dropped' \subseteq Injections
         /\ DOMAIN entries' = DOMAIN entries \ S
         /\ \A i \in Injections : Queued(i)' <=> Queued(i) /\ To[i] \notin S
         /\ \A i \in Injections : i \in dropped' <=> i \in dropped \/ (Queued(i) /\ To[i] \in S)
  <1>1. /\ entries' = Without(entries, S) /\ taken' = taken
        /\ dropped' = dropped \union {i \in Injections : To[i] \in S /\ Queued(i)}
    BY DEF Forget
  <1>2. /\ DOMAIN entries' = DOMAIN entries \ S
        /\ \A c \in DOMAIN entries \ S : entries'[c] = entries[c]
    BY <1>1, WithoutAt
  <1>3. \A i \in Injections : Queued(i)' <=> Queued(i) /\ To[i] \notin S
    BY <1>2 DEF Queued
  <1>. QED
    BY <1>1, <1>2, <1>3 DEF StoreOK, EntriesOK

\* A request takes what waits for its conversation, and each of it once.
LEMMA RequestFacts ==
  ASSUME StoreOK, NEW c \in Conversations, Request(c)
  PROVE  /\ EntriesOK' /\ taken' \in [Injections -> Nat] /\ dropped' = dropped
         /\ DOMAIN entries' = DOMAIN entries \union {c}
         /\ ~CaptureAll => c \in DOMAIN entries
         /\ \A i \in Injections : Queued(i)' <=> Queued(i) /\ To[i] # c
         /\ \A i \in Injections :
              taken'[i] = taken[i] + (IF Queued(i) /\ To[i] = c THEN 1 ELSE 0)
  <1>. DEFINE queue == IF c \in DOMAIN entries THEN entries[c].queued ELSE <<>>
              new == [queued |-> <<>>, at |-> now]
  <1>1. /\ entries' = Put(entries, c, new) /\ dropped' = dropped
        /\ taken' = [i \in Injections |-> taken[i] + IF i \in Items(queue) THEN 1 ELSE 0]
        /\ c \in DOMAIN entries \/ CaptureAll
    BY DEF Request
  <1>a. entries' = Put(entries, c, new)
    BY <1>1
  <1>2. \A i \in Injections : i \in Items(queue) <=> Queued(i) /\ To[i] = c
    BY ItemsOfNone DEF StoreOK, EntriesOK, Queued
  <1>3. /\ new \in [queued : Seq(Injections), at : 0 .. MaxTime]
        /\ Items(new.queued) = {}
    BY ItemsOfNone DEF StoreOK
  <1>. HIDE DEF new
  <1>4. /\ DOMAIN entries' = DOMAIN entries \union {c} /\ entries'[c] = new
        /\ \A d \in DOMAIN entries \ {c} : entries'[d] = entries[d]
    BY <1>a DEF Put
  <1>5. EntriesOK'
    BY <1>3, <1>4 DEF StoreOK, EntriesOK
  <1>6. \A i \in Injections : Queued(i)' <=> Queued(i) /\ To[i] # c
    BY <1>3, <1>4 DEF Queued
  <1>7. /\ taken' \in [Injections -> Nat]
        /\ \A i \in Injections :
              taken'[i] = taken[i] + (IF Queued(i) /\ To[i] = c THEN 1 ELSE 0)
    <2>1. taken \in [Injections -> Nat]
      BY DEF StoreOK
    <2>. HIDE DEF queue
    <2>. QED
      BY <1>1, <1>2, <2>1
  <1>. QED
    BY <1>1, <1>4, <1>5, <1>6, <1>7

\* A message that is added waits with those that were there.
LEMMA AddFacts ==
  ASSUME StoreOK, NEW i \in Injections, Add(i)
  PROVE  /\ EntriesOK' /\ taken' = taken /\ dropped' = dropped /\ delivered' = delivered
         /\ DOMAIN entries' = DOMAIN entries \union {To[i]}
         /\ call[i].step = "add" /\ call' = [call EXCEPT ![i] = At("count")]
         /\ \A j \in Injections : Queued(j)' <=> Queued(j) \/ j = i
  <1>. DEFINE c == To[i]
              old == IF c \in DOMAIN entries THEN entries[c].queued ELSE <<>>
              new == [queued |-> Append(old, i), at |-> now]
  <1>1. /\ entries' = Put(entries, c, new)
        /\ UNCHANGED <<taken, dropped, delivered>>
        /\ call[i].step = "add" /\ call' = [call EXCEPT ![i] = At("count")]
    BY DEF Add, Goto
  <1>a. entries' = Put(entries, c, new)
    BY <1>1
  <1>2. c \in Conversations /\ now \in 0 .. MaxTime
    BY LiveAssumption DEF StoreOK
  <1>3. /\ old \in Seq(Injections)
        /\ \A j \in Items(old) : To[j] = c
        /\ \A j \in Injections : j \in Items(old) <=> Queued(j) /\ To[j] = c
    BY ItemsOfNone DEF StoreOK, EntriesOK, Queued
  <1>. HIDE DEF old
  <1>4. Append(old, i) \in Seq(Injections) /\ Items(Append(old, i)) = Items(old) \union {i}
    BY <1>3, ItemsAppended
  <1>5. /\ new \in [queued : Seq(Injections), at : 0 .. MaxTime]
        /\ Items(new.queued) = Items(old) \union {i}
    BY <1>2, <1>4
  <1>. HIDE DEF new
  <1>6. /\ DOMAIN entries' = DOMAIN entries \union {c} /\ entries'[c] = new
        /\ \A d \in DOMAIN entries \ {c} : entries'[d] = entries[d]
    BY <1>a DEF Put
  <1>7. EntriesOK'
    BY <1>2, <1>3, <1>5, <1>6 DEF StoreOK, EntriesOK
  <1>8. \A j \in Injections : Queued(j)' <=> Queued(j) \/ j = i
    BY <1>3, <1>5, <1>6 DEF Queued
  <1>. QED
    BY <1>1, <1>6, <1>7, <1>8

-----------------------------------------------------------------------------
(* The fates.                                                              *)

\* A step that leaves the calls and the store alone leaves the store's types.
LEMMA CalmStore ==
  ASSUME StoreOK, Capacity, Fates, now' \in 0 .. MaxTime,
         UNCHANGED <<entries, taken, dropped, call, delivered>>
  PROVE  StoreOK' /\ Capacity' /\ Fates'
  <1>1. StoreOK'
    BY DEF StoreOK, EntriesOK
  <1>2. Capacity'
    BY DEF Capacity, Bounded, Counting
  <1>3. Fates'
    BY DEF Fates, Fate, Queued
  <1>. QED
    BY <1>1, <1>2, <1>3

\* Forgetting gives every message that waited there its fate.
LEMMA ForgetFates ==
  ASSUME StoreOK, Fates, NEW S, Forget(S), delivered' = delivered,
         \A i \in Injections : call'[i].step \in Accepted <=> call[i].step \in Accepted
  PROVE  Fates'
  <1>1. SUFFICES ASSUME NEW i \in Injections PROVE Fate(i)'
    BY DEF Fates
  <1>2. /\ taken' = taken
        /\ Queued(i)' <=> Queued(i) /\ To[i] \notin S
        /\ i \in dropped' <=> i \in dropped \/ (Queued(i) /\ To[i] \in S)
    BY ForgetFacts
  <1>3. Fate(i)
    BY DEF Fates
  <1>4. call'[i].step \in Accepted <=> call[i].step \in Accepted
    OBVIOUS
  <1>. QED
    BY <1>2, <1>3, <1>4 DEF Fate

\* A request is one fate for all it takes.
LEMMA RequestFates ==
  ASSUME StoreOK, Fates, NEW c \in Conversations, Request(c), delivered' = delivered,
         call' = call
  PROVE  Fates'
  <1>1. SUFFICES ASSUME NEW i \in Injections PROVE Fate(i)'
    BY DEF Fates
  <1>2. /\ dropped' = dropped
        /\ Queued(i)' <=> Queued(i) /\ To[i] # c
        /\ taken'[i] = taken[i] + (IF Queued(i) /\ To[i] = c THEN 1 ELSE 0)
        /\ taken[i] \in Nat
    BY RequestFacts DEF StoreOK
  <1>3. Fate(i)
    BY DEF Fates
  <1>4. CASE Queued(i) /\ To[i] = c
    BY <1>2, <1>3, <1>4 DEF Fate
  <1>5. CASE ~(Queued(i) /\ To[i] = c)
    <2>1. taken'[i] = taken[i] /\ (Queued(i)' <=> Queued(i))
      BY <1>2, <1>5
    <2>. QED
      BY <1>2, <1>3, <2>1 DEF Fate
  <1>. QED
    BY <1>4, <1>5

\* A call that adds its message gives it its first fate.
LEMMA AddFates ==
  ASSUME StoreOK, Fates, NEW i \in Injections, Add(i)
  PROVE  Fates'
  <1>1. SUFFICES ASSUME NEW j \in Injections PROVE Fate(j)'
    BY DEF Fates
  <1>2. /\ taken' = taken /\ dropped' = dropped /\ delivered' = delivered
        /\ call[i].step = "add" /\ call' = [call EXCEPT ![i] = At("count")]
        /\ Queued(j)' <=> Queued(j) \/ j = i
    BY AddFacts
  <1>3. Fate(j) /\ call \in [Injections -> Calls]
    BY DEF Fates, StoreOK
  <1>4. CASE j = i
    BY <1>2, <1>3, <1>4 DEF Fate, Accepted, At
  <1>5. CASE j # i
    <2>1. call'[j] = call[j] /\ (Queued(j)' <=> Queued(j))
      BY <1>2, <1>3, <1>5
    <2>. QED
      BY <1>2, <1>3, <2>1 DEF Fate
  <1>. QED
    BY <1>4, <1>5

\* A call that goes on changes no fate.
LEMMA SameFates ==
  ASSUME Fates, UNCHANGED <<entries, taken, dropped, delivered>>,
         \A i \in Injections : call'[i].step \in Accepted <=> call[i].step \in Accepted
  PROVE  Fates'
  <1>1. SUFFICES ASSUME NEW i \in Injections PROVE Fate(i)'
    BY DEF Fates
  <1>2. Fate(i) /\ (Queued(i)' <=> Queued(i))
    BY DEF Fates, Queued
  <1>3. call'[i].step \in Accepted <=> call[i].step \in Accepted
    OBVIOUS
  <1>. QED
    BY <1>2, <1>3 DEF Fate

-----------------------------------------------------------------------------
(* The capacity.                                                           *)

\* With fewer conversations, what was bounded is bounded.
LEMMA FewerBounded ==
  ASSUME StoreOK, Capacity, DOMAIN entries' \subseteq DOMAIN entries,
         \A i \in Injections : call[i].step \in {"count", "choose", "evict"} =>
           call'[i] = call[i]
  PROVE  Capacity'
  <1>0. IsFiniteSet(DOMAIN entries) /\ MaxConversations \in Nat
    BY LiveAssumption DEF Capacity
  <1>1. /\ IsFiniteSet(DOMAIN entries')
        /\ Cardinality(DOMAIN entries') <= Cardinality(DOMAIN entries)
        /\ Cardinality(DOMAIN entries') \in Nat /\ Cardinality(DOMAIN entries) \in Nat
    BY <1>0, FS_Subset, FS_CardinalityType
  <1>2. SUFFICES ASSUME ~CaptureAll, Counting' = {} PROVE Bounded'
    BY <1>1 DEF Capacity
  <1>3. Counting = {}
    BY <1>2 DEF Counting
  <1>4. Bounded
    BY <1>2, <1>3 DEF Capacity
  <1>5. CASE Cardinality(DOMAIN entries) <= MaxConversations
    BY <1>0, <1>1, <1>5 DEF Bounded
  <1>6. ASSUME NEW i \in Injections, call[i].step = "choose",
               Cardinality(DOMAIN entries) <= MaxConversations + call[i].excess
        PROVE  Bounded'
    <2>1. call'[i] = call[i]
      BY <1>6
    <2>2. call[i].excess \in Nat
      BY <1>6 DEF StoreOK, Calls, Steps
    <2>3. Cardinality(DOMAIN entries') <= MaxConversations + call'[i].excess
      BY <1>0, <1>1, <1>6, <2>1, <2>2
    <2>. QED
      BY <1>6, <2>1, <2>3 DEF Bounded
  <1>7. ASSUME NEW i \in Injections, call[i].step = "evict",
               Cardinality(DOMAIN entries \ call[i].chosen) <= MaxConversations
        PROVE  Bounded'
    <2>1. call'[i] = call[i]
      BY <1>7
    <2>2. DOMAIN entries' \ call[i].chosen \subseteq DOMAIN entries \ call[i].chosen
      OBVIOUS
    <2>3. IsFiniteSet(DOMAIN entries \ call[i].chosen)
      BY <1>0, FS_Subset
    <2>4. /\ Cardinality(DOMAIN entries' \ call[i].chosen)
               <= Cardinality(DOMAIN entries \ call[i].chosen)
          /\ Cardinality(DOMAIN entries' \ call[i].chosen) \in Nat
          /\ Cardinality(DOMAIN entries \ call[i].chosen) \in Nat
      BY <2>2, <2>3, FS_Subset, FS_CardinalityType
    <2>5. Cardinality(DOMAIN entries' \ call'[i].chosen) <= MaxConversations
      BY <1>0, <1>7, <2>1, <2>4
    <2>. QED
      BY <1>7, <2>1, <2>5 DEF Bounded
  <1>. QED
    BY <1>4, <1>5, <1>6, <1>7 DEF Bounded

\* After a message was added somebody has to count.
LEMMA AddCapacity ==
  ASSUME StoreOK, Capacity, NEW i \in Injections, Add(i)
  PROVE  Capacity'
  <1>1. /\ DOMAIN entries' = DOMAIN entries \union {To[i]}
        /\ call' = [call EXCEPT ![i] = At("count")] /\ call \in [Injections -> Calls]
    BY AddFacts DEF StoreOK
  <1>2. IsFiniteSet(DOMAIN entries')
    BY <1>1, FS_AddElement DEF Capacity
  <1>3. i \in Counting'
    BY <1>1 DEF Counting, At
  <1>. QED
    BY <1>2, <1>3 DEF Capacity

\* Whoever counts last knows how many are too many.
LEMMA CountCapacity ==
  ASSUME StoreOK, Capacity, NEW i \in Injections, Count(i)
  PROVE  Capacity' /\ call' \in [Injections -> Calls]
  <1>. DEFINE size == Cardinality(DOMAIN entries)
  <1>1. /\ entries' = entries /\ call[i].step = "count" /\ call \in [Injections -> Calls]
        /\ call' = [call EXCEPT ![i] =
             IF size - MaxConversations > 0
             THEN [step |-> "choose", excess |-> size - MaxConversations] ELSE At("done")]
    BY DEF Count, Goto, StoreOK, store
  <1>2. size \in Nat /\ MaxConversations \in Nat /\ IsFiniteSet(DOMAIN entries)
    BY FS_CardinalityType, LiveAssumption DEF Capacity
  <1>a. Cardinality(DOMAIN entries') = size
    BY <1>1
  <1>. HIDE DEF size
  <1>3. call'[i] = IF size - MaxConversations > 0
                   THEN [step |-> "choose", excess |-> size - MaxConversations]
                   ELSE At("done")
    BY <1>1
  <1>4. CASE size <= MaxConversations
    <2>1. ~(size - MaxConversations > 0)
      BY <1>2, <1>4
    <2>2. call' \in [Injections -> Calls]
      BY <1>1, <2>1 DEF Calls, At, Steps
    <2>3. Bounded'
      BY <1>a, <1>4 DEF Bounded
    <2>. QED
      BY <1>1, <1>2, <2>2, <2>3 DEF Capacity
  <1>5. CASE size > MaxConversations
    <2>1. size - MaxConversations > 0 /\ size - MaxConversations \in Nat
      BY <1>2, <1>5
    <2>2. call' \in [Injections -> Calls]
      BY <1>1, <2>1 DEF Calls, Steps
    <2>3. /\ call'[i].step = "choose"
          /\ size <= MaxConversations + call'[i].excess
      BY <1>2, <1>3, <2>1
    <2>4. Bounded'
      BY <1>a, <2>3 DEF Bounded
    <2>. QED
      BY <1>1, <1>2, <2>2, <2>4 DEF Capacity
  <1>. QED
    BY <1>2, <1>4, <1>5

\* A call that has chosen will leave as many as may stay.
LEMMA ChooseCapacity ==
  ASSUME StoreOK, Capacity, NEW i \in Injections, Choose(i)
  PROVE  Capacity' /\ call' \in [Injections -> Calls]
  <1>. DEFINE size == Cardinality(DOMAIN entries)
  <1>1. /\ entries' = entries /\ call[i].step = "choose" /\ call \in [Injections -> Calls]
        /\ call[i].excess \in Nat
    BY DEF Choose, StoreOK, store, Calls, Steps
  <1>2. PICK S \in SUBSET DOMAIN entries :
          /\ Cardinality(S) = IF call[i].excess < size THEN call[i].excess ELSE size
          /\ call' = [call EXCEPT ![i] = [step |-> "evict", chosen |-> S]]
    BY DEF Choose, Goto
  <1>3. /\ IsFiniteSet(DOMAIN entries) /\ MaxConversations \in Nat
        /\ size \in Nat /\ Cardinality(DOMAIN entries \ S) = size - Cardinality(S)
    <2>1. IsFiniteSet(DOMAIN entries)
      BY DEF Capacity
    <2>2. DOMAIN entries \intersect S = S
      BY <1>2
    <2>3. Cardinality(DOMAIN entries \ S) = size - Cardinality(DOMAIN entries \intersect S)
      BY <2>1, FS_Difference
    <2>. QED
      BY <2>1, <2>2, <2>3, FS_CardinalityType, LiveAssumption
  <1>a. Cardinality(DOMAIN entries') = size
    BY <1>1
  <1>b. Bounded <=> \/ size <= MaxConversations
                    \/ \E j \in Injections :
                         /\ call[j].step = "choose"
                         /\ size <= MaxConversations + call[j].excess
                    \/ \E j \in Injections :
                         /\ call[j].step = "evict"
                         /\ Cardinality(DOMAIN entries \ call[j].chosen) <= MaxConversations
    BY DEF Bounded
  <1>. HIDE DEF size
  <1>4. /\ call'[i] = [step |-> "evict", chosen |-> S]
        /\ \A j \in Injections : j # i => call'[j] = call[j]
        /\ call' \in [Injections -> Calls]
    <2>1. S \subseteq Conversations
      BY <1>2 DEF StoreOK, EntriesOK
    <2>2. [step |-> "evict", chosen |-> S] \in Calls
      BY <2>1 DEF Calls
    <2>. QED
      BY <1>1, <1>2, <2>2
  <1>5. ASSUME ~CaptureAll, Counting' = {} PROVE Bounded'
    <2>1. Counting = {}
      BY <1>1, <1>4, <1>5 DEF Counting
    <2>2. Bounded
      BY <1>5, <2>1 DEF Capacity
    <2>3. CASE size <= MaxConversations
      BY <1>a, <2>3 DEF Bounded
    <2>4. CASE size <= MaxConversations + call[i].excess
      <3>1. Cardinality(DOMAIN entries \ S) <= MaxConversations
        <4>1. CASE call[i].excess < size
          BY <1>1, <1>2, <1>3, <2>4, <4>1
        <4>2. CASE ~(call[i].excess < size)
          BY <1>1, <1>2, <1>3, <4>2
        <4>. QED
          BY <4>1, <4>2
      <3>2. /\ call'[i].step = "evict"
            /\ Cardinality(DOMAIN entries' \ call'[i].chosen) <= MaxConversations
        BY <1>1, <1>4, <3>1
      <3>. QED
        BY <3>2 DEF Bounded
    <2>5. ASSUME NEW j \in Injections, j # i, call[j].step = "choose",
                 size <= MaxConversations + call[j].excess
          PROVE  Bounded'
      <3>1. call'[j] = call[j]
        BY <1>4, <2>5
      <3>. QED
        BY <1>a, <2>5, <3>1 DEF Bounded
    <2>6. ASSUME NEW j \in Injections, call[j].step = "evict",
                 Cardinality(DOMAIN entries \ call[j].chosen) <= MaxConversations
          PROVE  Bounded'
      <3>1. call'[j] = call[j]
        BY <1>1, <1>4, <2>6
      <3>2. Cardinality(DOMAIN entries' \ call'[j].chosen) <= MaxConversations
        BY <1>1, <2>6, <3>1
      <3>. QED
        BY <2>6, <3>1, <3>2 DEF Bounded
    <2>. QED
      BY <1>b, <2>2, <2>3, <2>4, <2>5, <2>6
  <1>. QED
    BY <1>1, <1>3, <1>4, <1>5 DEF Capacity

\* A call that removes what it chose has as much less to remove.
LEMMA EvictCapacity ==
  ASSUME StoreOK, Capacity, NEW i \in Injections, Evict(i)
  PROVE  Capacity' /\ call' \in [Injections -> Calls]
  <1>1. /\ call[i].step = "evict" /\ call \in [Injections -> Calls]
        /\ call[i] \in [step : {"evict"}, chosen : SUBSET Conversations]
    BY DEF Evict, StoreOK, Calls, Steps
  <1>2. PICK gone :
          /\ gone \subseteq call[i].chosen
          /\ DOMAIN entries' = DOMAIN entries \ gone
          /\ \/ /\ call[i].chosen = {} /\ call' = [call EXCEPT ![i] = At("done")]
             \/ call' = [call EXCEPT ![i] = [call[i] EXCEPT !.chosen = @ \ gone]]
    <2>1. CASE call[i].chosen = {}
      <3>1. entries' = entries /\ call' = [call EXCEPT ![i] = At("done")]
        BY <2>1 DEF Evict, Goto, store
      <3>. QED
        BY <2>1, <3>1
    <2>2. CASE call[i].chosen # {}
      <3>1. PICK c \in call[i].chosen :
              /\ Forget({c})
              /\ call' = [call EXCEPT ![i] = [call[i] EXCEPT !.chosen = @ \ {c}]]
        BY <2>2 DEF Evict, Goto
      <3>2. DOMAIN entries' = DOMAIN entries \ {c}
        BY <3>1, ForgetFacts
      <3>. QED
        BY <3>1, <3>2
    <2>. QED
      BY <2>1, <2>2
  <1>3. /\ IsFiniteSet(DOMAIN entries) /\ IsFiniteSet(DOMAIN entries')
        /\ Cardinality(DOMAIN entries') \in Nat /\ Cardinality(DOMAIN entries) \in Nat
        /\ Cardinality(DOMAIN entries') <= Cardinality(DOMAIN entries)
        /\ MaxConversations \in Nat
    BY <1>2, FS_Subset, FS_CardinalityType, LiveAssumption DEF Capacity
  <1>4. /\ call' \in [Injections -> Calls]
        /\ \A j \in Injections : j # i => call'[j] = call[j]
        /\ call'[i].step # "count"
    <2>1. At("done") \in Calls /\ At("done").step # "count"
      BY DEF At, Calls, Steps
    <2>2. /\ [call[i] EXCEPT !.chosen = @ \ gone] \in Calls
          /\ [call[i] EXCEPT !.chosen = @ \ gone].step # "count"
      BY <1>1 DEF Calls
    <2>. QED
      BY <1>1, <1>2, <2>1, <2>2
  <1>5. ASSUME ~CaptureAll, Counting' = {} PROVE Bounded'
    <2>1. Counting = {}
      BY <1>1, <1>4, <1>5 DEF Counting
    <2>2. Bounded
      BY <1>5, <2>1 DEF Capacity
    <2>3. CASE Cardinality(DOMAIN entries) <= MaxConversations
      BY <1>3, <2>3 DEF Bounded
    <2>4. ASSUME NEW j \in Injections, call[j].step = "choose",
                 Cardinality(DOMAIN entries) <= MaxConversations + call[j].excess
          PROVE  Bounded'
      <3>1. call'[j] = call[j] /\ call[j].excess \in Nat
        BY <1>1, <1>4, <2>4 DEF Calls, Steps
      <3>2. Cardinality(DOMAIN entries') <= MaxConversations + call'[j].excess
        BY <1>3, <2>4, <3>1
      <3>. QED
        BY <2>4, <3>1, <3>2 DEF Bounded
    <2>5. ASSUME NEW j \in Injections, j # i, call[j].step = "evict",
                 Cardinality(DOMAIN entries \ call[j].chosen) <= MaxConversations
          PROVE  Bounded'
      <3>1. call'[j] = call[j]
        BY <1>4, <2>5
      <3>2. DOMAIN entries' \ call[j].chosen \subseteq DOMAIN entries \ call[j].chosen
        BY <1>2
      <3>3. IsFiniteSet(DOMAIN entries \ call[j].chosen)
        BY <1>3, FS_Subset
      <3>4. /\ Cardinality(DOMAIN entries' \ call[j].chosen)
                  <= Cardinality(DOMAIN entries \ call[j].chosen)
            /\ Cardinality(DOMAIN entries' \ call[j].chosen) \in Nat
            /\ Cardinality(DOMAIN entries \ call[j].chosen) \in Nat
        BY <3>2, <3>3, FS_Subset, FS_CardinalityType
      <3>5. Cardinality(DOMAIN entries' \ call'[j].chosen) <= MaxConversations
        BY <1>3, <2>5, <3>1, <3>4
      <3>. QED
        BY <2>5, <3>1, <3>5 DEF Bounded
    <2>6. CASE Cardinality(DOMAIN entries \ call[i].chosen) <= MaxConversations
      <3>1. CASE call[i].chosen = {}
        <4>1. DOMAIN entries \ call[i].chosen = DOMAIN entries
          BY <3>1
        <4>. QED
          BY <2>3, <2>6, <4>1
      <3>2. CASE call' = [call EXCEPT ![i] = [call[i] EXCEPT !.chosen = @ \ gone]]
        <4>1. call'[i].step = "evict" /\ call'[i].chosen = call[i].chosen \ gone
          BY <1>1, <3>2
        <4>2. DOMAIN entries' \ call'[i].chosen = DOMAIN entries \ call[i].chosen
          BY <1>2, <4>1
        <4>3. Cardinality(DOMAIN entries' \ call'[i].chosen) <= MaxConversations
          BY <2>6, <4>2
        <4>. QED
          BY <4>1, <4>3 DEF Bounded
      <3>. QED
        BY <1>2, <3>1, <3>2
    <2>. QED
      BY <2>2, <2>3, <2>4, <2>5, <2>6 DEF Bounded
  <1>. QED
    BY <1>3, <1>4, <1>5 DEF Capacity

-----------------------------------------------------------------------------
(* Steps.                                                                  *)

\* What the store keeps through a step.
StoreKept == StoreOK' /\ Capacity' /\ Fates'

\* A request, an operator or the cleanup task.
LEMMA StoreStepKeeps ==
  ASSUME StoreOK, Capacity, Fates, StoreStep, UNCHANGED <<now, call, delivered>>
  PROVE  StoreKept
  <1>1. now' \in 0 .. MaxTime /\ call' \in [Injections -> Calls]
        /\ delivered' \in [Injections -> SUBSET Sessions]
    BY DEF StoreOK
  <1>2. ASSUME NEW c \in Conversations, Request(c) PROVE StoreKept
    <2>1. StoreOK'
      <3>1. EntriesOK' /\ taken' \in [Injections -> Nat] /\ dropped' = dropped
        BY <1>2, RequestFacts
      <3>. QED
        BY <1>1, <3>1 DEF StoreOK
    <2>2. Fates'
      BY <1>2, RequestFates
    <2>3. Capacity'
      <3>1. /\ DOMAIN entries' = DOMAIN entries \union {c}
            /\ ~CaptureAll => c \in DOMAIN entries
        BY <1>2, RequestFacts
      <3>2. CASE CaptureAll
        <4>1. IsFiniteSet(DOMAIN entries')
          BY <3>1, FS_AddElement DEF Capacity
        <4>. QED
          BY <3>2, <4>1 DEF Capacity
      <3>3. CASE ~CaptureAll
        <4>1. DOMAIN entries' \subseteq DOMAIN entries
          BY <3>1, <3>3
        <4>. QED
          BY <4>1, FewerBounded
      <3>. QED
        BY <3>2, <3>3
    <2>. QED
      BY <2>1, <2>2, <2>3 DEF StoreKept
  <1>3. ASSUME NEW S, Forget(S) PROVE StoreKept
    <2>1. StoreOK'
      <3>1. EntriesOK' /\ taken' = taken /\ dropped' \subseteq Injections
        BY <1>3, ForgetFacts
      <3>. QED
        BY <1>1, <3>1 DEF StoreOK
    <2>2. Fates'
      BY <1>3, ForgetFates
    <2>3. Capacity'
      <3>1. DOMAIN entries' \subseteq DOMAIN entries
        BY <1>3, ForgetFacts
      <3>. QED
        BY <3>1, FewerBounded
    <2>. QED
      BY <2>1, <2>2, <2>3 DEF StoreKept
  <1>. QED
    BY <1>2, <1>3 DEF StoreStep, Clear, Cleanup

\* An injection, with the sessions it finds.
LEMMA InjectKeeps ==
  ASSUME StoreOK, SocketsOK, Capacity, Fates, NEW i \in Injections, Inject(i)
  PROVE  StoreKept
  <1>1. call \in [Injections -> Calls] /\ taken \in [Injections -> Nat]
        /\ delivered \in [Injections -> SUBSET Sessions] /\ now \in 0 .. MaxTime
    BY DEF StoreOK
  <1>2. CASE Deliver(i)
    <2>. DEFINE heard == IF To[i] \in DOMAIN sessions
                         THEN {s \in sessions[To[i]] : Receiving(s)} ELSE {}
                next == IF heard # {} THEN "done"
                        ELSE IF To[i] \in DOMAIN sessions THEN "unlist" ELSE "add"
    <2>1. /\ heard \subseteq Sessions /\ next \in {"done", "unlist", "add"}
          /\ next = "done" <=> heard # {}
          /\ call[i].step = "idle" /\ call' = [call EXCEPT ![i] = At(next)]
          /\ delivered' = [delivered EXCEPT ![i] = heard]
          /\ UNCHANGED <<now, entries, taken, dropped>>
      <3>1. heard \subseteq Sessions
        BY DEF SocketsOK, ListsOK
      <3>2. /\ call[i].step = "idle" /\ call' = [call EXCEPT ![i] = At(next)]
            /\ delivered' = [delivered EXCEPT ![i] = heard]
            /\ UNCHANGED <<now, entries, taken, dropped>>
        BY <1>2 DEF Deliver, Goto, store, At
      <3>. HIDE DEF heard
      <3>3. next \in {"done", "unlist", "add"} /\ (next = "done" <=> heard # {})
        OBVIOUS
      <3>. HIDE DEF next
      <3>. QED
        BY <3>1, <3>2, <3>3
    <2>. HIDE DEF heard, next
    <2>2. At(next) \in Calls /\ At(next).step = next
      BY <2>1 DEF At, Calls, Steps
    <2>3. StoreOK'
      BY <1>1, <2>1, <2>2 DEF StoreOK, EntriesOK
    <2>4. Capacity'
      <3>1. DOMAIN entries' \subseteq DOMAIN entries
        BY <2>1
      <3>2. \A j \in Injections : call[j].step \in {"count", "choose", "evict"} =>
              call'[j] = call[j]
        BY <1>1, <2>1
      <3>. QED
        BY <3>1, <3>2, FewerBounded
    <2>5. ASSUME NEW j \in Injections PROVE Fate(j)'
      <3>1. Fate(j) /\ (Queued(j)' <=> Queued(j)) /\ taken' = taken /\ dropped' = dropped
        BY <2>1 DEF Fates, Queued
      <3>2. CASE j = i
        <4>1. call'[i].step = next /\ delivered'[i] = heard
          BY <1>1, <2>1, <2>2
        <4>. QED
          BY <2>1, <3>1, <3>2, <4>1 DEF Fate, Accepted
      <3>3. CASE j # i
        <4>1. call'[j] = call[j] /\ delivered'[j] = delivered[j]
          BY <1>1, <2>1, <3>3
        <4>. QED
          BY <3>1, <4>1 DEF Fate
      <3>. QED
        BY <3>2, <3>3
    <2>. QED
      BY <2>3, <2>4, <2>5 DEF StoreKept, Fates
  <1>3. CASE Unlist(i)
    <2>1. /\ call[i].step = "unlist" /\ call' = [call EXCEPT ![i] = At("add")]
          /\ UNCHANGED <<now, entries, taken, dropped, delivered>>
      BY <1>3 DEF Unlist, Goto, store
    <2>2. At("add") \in Calls /\ At("add").step = "add"
      BY DEF At, Calls, Steps
    <2>3. StoreOK'
      BY <1>1, <2>1, <2>2 DEF StoreOK, EntriesOK
    <2>4. Capacity'
      <3>1. DOMAIN entries' \subseteq DOMAIN entries
        BY <2>1
      <3>2. \A j \in Injections : call[j].step \in {"count", "choose", "evict"} =>
              call'[j] = call[j]
        BY <1>1, <2>1
      <3>. QED
        BY <3>1, <3>2, FewerBounded
    <2>5. Fates'
      BY <1>1, <2>1, <2>2, SameFates DEF Accepted
    <2>. QED
      BY <2>3, <2>4, <2>5 DEF StoreKept
  <1>4. CASE Add(i)
    <2>1. /\ EntriesOK' /\ UNCHANGED <<taken, dropped, delivered, now>>
          /\ call' = [call EXCEPT ![i] = At("count")]
      BY <1>4, AddFacts DEF Add
    <2>2. At("count") \in Calls
      BY DEF At, Calls, Steps
    <2>3. StoreOK'
      BY <1>1, <2>1, <2>2 DEF StoreOK
    <2>. QED
      BY <1>4, <2>3, AddCapacity, AddFates DEF StoreKept
  <1>5. CASE Count(i)
    <2>. DEFINE excess == Cardinality(DOMAIN entries) - MaxConversations
                next == IF excess > 0 THEN [step |-> "choose", excess |-> excess]
                        ELSE At("done")
    <2>1. /\ call[i].step = "count" /\ UNCHANGED <<now, entries, taken, dropped, delivered>>
          /\ call' = [call EXCEPT ![i] = next]
      BY <1>5 DEF Count, Goto, store
    <2>a. next.step \in {"choose", "done"}
      BY DEF At
    <2>. HIDE DEF next
    <2>2. Capacity' /\ call' \in [Injections -> Calls]
      BY <1>5, CountCapacity
    <2>3. StoreOK'
      BY <1>1, <2>1, <2>2 DEF StoreOK, EntriesOK
    <2>4. Fates'
      BY <1>1, <2>1, <2>a, SameFates DEF Accepted
    <2>. QED
      BY <2>2, <2>3, <2>4 DEF StoreKept
  <1>6. CASE Choose(i)
    <2>1. /\ call[i].step = "choose" /\ UNCHANGED <<now, entries, taken, dropped, delivered>>
          /\ \E c : c.step = "evict" /\ call' = [call EXCEPT ![i] = c]
      BY <1>6 DEF Choose, Goto, store
    <2>2. Capacity' /\ call' \in [Injections -> Calls]
      BY <1>6, ChooseCapacity
    <2>3. StoreOK'
      BY <1>1, <2>1, <2>2 DEF StoreOK, EntriesOK
    <2>4. Fates'
      BY <1>1, <2>1, SameFates DEF Accepted
    <2>. QED
      BY <2>2, <2>3, <2>4 DEF StoreKept
  <1>7. CASE Evict(i)
    <2>1. Capacity' /\ call' \in [Injections -> Calls]
      BY <1>7, EvictCapacity
    <2>2. UNCHANGED <<now, delivered>> /\ call[i].step = "evict"
      BY <1>7 DEF Evict
    <2>3. CASE call[i].chosen = {}
      <3>1. /\ call' = [call EXCEPT ![i] = At("done")] /\ At("done").step = "done"
            /\ UNCHANGED <<entries, taken, dropped>>
        BY <1>7, <2>3 DEF Evict, Goto, store, At
      <3>2. StoreOK'
        BY <1>1, <2>1, <2>2, <3>1 DEF StoreOK, EntriesOK
      <3>3. Fates'
        BY <1>1, <2>2, <3>1, SameFates DEF Accepted
      <3>. QED
        BY <2>1, <3>2, <3>3 DEF StoreKept
    <2>4. CASE call[i].chosen # {}
      <3>1. PICK c \in call[i].chosen :
              /\ Forget({c})
              /\ call' = [call EXCEPT ![i] = [call[i] EXCEPT !.chosen = @ \ {c}]]
        BY <1>7, <2>4 DEF Evict, Goto
      <3>2. call[i] \in [step : {"evict"}, chosen : SUBSET Conversations]
        BY <1>1, <2>2 DEF Calls, Steps
      <3>3. call'[i].step = "evict" /\ \A j \in Injections : j # i => call'[j] = call[j]
        BY <1>1, <3>1, <3>2
      <3>4. EntriesOK' /\ taken' = taken /\ dropped' \subseteq Injections
        BY <3>1, ForgetFacts
      <3>5. StoreOK'
        BY <1>1, <2>1, <2>2, <3>4 DEF StoreOK
      <3>6. \A j \in Injections : call'[j].step \in Accepted <=> call[j].step \in Accepted
        BY <2>2, <3>3
      <3>7. Fates'
        BY <2>2, <3>1, <3>6, ForgetFates
      <3>. QED
        BY <2>1, <3>5, <3>7 DEF StoreKept
    <2>. QED
      BY <2>3, <2>4
  <1>. QED
    BY <1>2, <1>3, <1>4, <1>5, <1>6, <1>7 DEF Inject

\* The head of a queue and what follows.
LEMMA QueueParts ==
  ASSUME NEW S, NEW q \in Seq(S), q # <<>>
  PROVE  Head(q) \in S /\ Tail(q) \in Seq(S)
  OBVIOUS

\* An injection gives its message to inboxes, and may shorten or remove a list.
LEMMA InjectSockets ==
  ASSUME SocketsOK, NEW i \in Injections, Inject(i)
  PROVE  SocketsOK'
  <1>1. CASE Deliver(i)
    <2>. DEFINE heard == IF To[i] \in DOMAIN sessions
                         THEN {s \in sessions[To[i]] : Receiving(s)} ELSE {}
    <2>1. /\ inbox' = [s \in Sessions |->
                         IF s \in heard THEN Append(inbox[s], i) ELSE inbox[s]]
          /\ sessions' = IF To[i] \in DOMAIN sessions THEN Put(sessions, To[i], heard)
                         ELSE sessions
          /\ UNCHANGED sockets
      BY <1>1 DEF Deliver
    <2>2. HandlersOK'
      BY <2>1 DEF SocketsOK, HandlersOK, sockets
    <2>3. InboxOK'
      <3>1. \A s \in Sessions : Append(inbox[s], i) \in Seq(Injections)
        BY DEF SocketsOK, InboxOK
      <3>. HIDE DEF heard
      <3>. QED
        BY <2>1, <3>1 DEF SocketsOK, InboxOK
    <2>4. ListsOK'
      <3>1. CASE To[i] \in DOMAIN sessions
        <4>1. heard \subseteq sessions[To[i]]
          BY <3>1
        <4>. HIDE DEF heard
        <4>2. sessions' = Put(sessions, To[i], heard)
          BY <2>1, <3>1
        <4>3. /\ DOMAIN sessions' = DOMAIN sessions
              /\ sessions'[To[i]] = heard
              /\ \A c \in DOMAIN sessions \ {To[i]} : sessions'[c] = sessions[c]
          BY <3>1, <4>2 DEF Put
        <4>. QED
          BY <4>1, <4>3 DEF SocketsOK, ListsOK
      <3>2. CASE To[i] \notin DOMAIN sessions
        BY <2>1, <3>2 DEF SocketsOK, ListsOK
      <3>. QED
        BY <3>1, <3>2
    <2>. QED
      BY <2>2, <2>3, <2>4 DEF SocketsOK
  <1>2. CASE Unlist(i)
    BY <1>2 DEF Unlist, Without, SocketsOK, ListsOK, InboxOK, HandlersOK, sockets
  <1>3. CASE Add(i) \/ Count(i) \/ Choose(i) \/ Evict(i)
    <2>1. UNCHANGED <<sessions, inbox, sockets>>
      BY <1>3 DEF Add, Count, Choose, Evict
    <2>. QED
      BY <2>1 DEF SocketsOK, ListsOK, InboxOK, HandlersOK, sockets
  <1>. QED
    BY <1>1, <1>2, <1>3 DEF Inject

\* A session keeps to its list, its channels and its tasks.
LEMMA ServeSockets ==
  ASSUME SocketsOK, NEW s \in Sessions, Serve(s)
  PROVE  SocketsOK'
  <1>. USE DEF SocketsOK, ListsOK, InboxOK, HandlersOK, Set, End
  <1>1. CASE Open(s)
    <2>. DEFINE list == {s} \union IF On[s] \in DOMAIN sessions THEN sessions[On[s]] ELSE {}
    <2>1. ListsOK'
      <3>1. On[s] \in Conversations /\ list \subseteq {x \in Sessions : On[x] = On[s]}
        BY LiveAssumption
      <3>2. sessions' = Put(sessions, On[s], list)
        BY <1>1 DEF Open
      <3>. HIDE DEF list
      <3>3. /\ DOMAIN sessions' = DOMAIN sessions \union {On[s]}
            /\ sessions'[On[s]] = list
            /\ \A c \in DOMAIN sessions \ {On[s]} : sessions'[c] = sessions[c]
        BY <3>2 DEF Put
      <3>. QED
        BY <3>1, <3>3
    <2>2. InboxOK' /\ HandlersOK'
      BY <1>1 DEF Open, Stages
    <2>. QED
      BY <2>1, <2>2
  <1>2. CASE Connect(s)
    <2>1. ListsOK'
      BY <1>2 DEF Connect
    <2>2. InboxOK'
      <3>1. <<>> \in Seq(Injections)
        OBVIOUS
      <3>. QED
        BY <1>2, <3>1 DEF Connect
    <2>3. HandlersOK'
      BY <1>2 DEF Connect, Stages
    <2>. QED
      BY <2>1, <2>2, <2>3
  <1>3. CASE ConnectFails(s)
    BY <1>3 DEF ConnectFails, Stages
  <1>4. CASE ClientCloses(s)
    <2>1. ListsOK' /\ InboxOK'
      BY <1>4 DEF ClientCloses
    <2>2. Append(outbox[s], Close) \in Seq(Injections \union {Close})
      OBVIOUS
    <2>3. outbox' \in [Sessions -> Seq(Injections \union {Close})]
      BY <1>4, <2>2 DEF ClientCloses
    <2>4. HandlersOK'
      BY <1>4, <2>3 DEF ClientCloses
    <2>. QED
      BY <2>1, <2>4
  <1>5. CASE UpstreamSends(s)
    BY <1>5 DEF UpstreamSends
  <1>6. CASE UpstreamCloses(s)
    BY <1>6 DEF UpstreamCloses
  <1>7. CASE Forward(s)
    <2>1. UNCHANGED <<sessions, stage, client, upstream, recorded, sent>>
      BY <1>7 DEF Forward
    <2>2. inbox' \in [Sessions -> Seq(Injections)]
      <3>1. CASE inbox[s] # <<>>
        <4>1. Tail(inbox[s]) \in Seq(Injections)
          BY <3>1, QueueParts
        <4>2. inbox' = [inbox EXCEPT ![s] = Tail(inbox[s])]
          BY <1>7, <3>1 DEF Forward
        <4>. QED
          BY <4>1, <4>2
      <3>2. CASE inbox[s] = <<>>
        BY <1>7, <3>2 DEF Forward
      <3>. QED
        BY <3>1, <3>2
    <2>3. outbox' \in [Sessions -> Seq(Injections \union {Close})]
      <3>1. CASE inbox[s] # <<>> /\ "writer" \in tasks[s]
        <4>1. Head(inbox[s]) \in Injections
          BY <3>1, QueueParts
        <4>2. Append(outbox[s], Head(inbox[s])) \in Seq(Injections \union {Close})
          BY <4>1
        <4>3. outbox' = [outbox EXCEPT ![s] = Append(outbox[s], Head(inbox[s]))]
          BY <1>7, <3>1 DEF Forward
        <4>. QED
          BY <4>2, <4>3
      <3>2. CASE ~(inbox[s] # <<>> /\ "writer" \in tasks[s])
        <4>1. outbox' = [outbox EXCEPT ![s] = outbox[s]] \/ outbox' = outbox
          BY <1>7, <3>2 DEF Forward
        <4>. QED
          BY <4>1
      <3>. QED
        BY <3>1, <3>2
    <2>4. tasks' \in [Sessions -> SUBSET Tasks]
      <3>1. tasks' = tasks \/ tasks' = [tasks EXCEPT ![s] = tasks[s] \ {"injector"}]
        BY <1>7 DEF Forward
      <3>2. tasks \in [Sessions -> SUBSET Tasks] /\ tasks[s] \ {"injector"} \in SUBSET Tasks
        OBVIOUS
      <3>. HIDE DEF SocketsOK, ListsOK, InboxOK, HandlersOK
      <3>. QED
        BY <3>1, <3>2
    <2>. QED
      BY <2>1, <2>2, <2>3, <2>4
  <1>8. CASE Write(s)
    <2>1. UNCHANGED <<sessions, inbox, stage, client, upstream, recorded>>
      BY <1>8 DEF Write
    <2>2. CASE outbox[s] # <<>> /\ upstream[s]
      <3>1. /\ Tail(outbox[s]) \in Seq(Injections \union {Close})
            /\ Head(outbox[s]) \in Injections \union {Close}
        BY <2>2, QueueParts
      <3>2. /\ outbox' = [outbox EXCEPT ![s] = Tail(outbox[s])] /\ tasks' = tasks
            /\ sent' = [sent EXCEPT ![s] = sent[s] \union ({Head(outbox[s])} \ {Close})]
        BY <1>8, <2>2 DEF Write
      <3>3. outbox' \in [Sessions -> Seq(Injections \union {Close})]
        BY <3>1, <3>2
      <3>4. sent' \in [Sessions -> SUBSET Injections]
        BY <3>1, <3>2
      <3>. QED
        BY <2>1, <3>2, <3>3, <3>4
    <2>3. CASE ~(outbox[s] # <<>> /\ upstream[s])
      <3>1. <<>> \in Seq(Injections \union {Close})
        OBVIOUS
      <3>2. /\ outbox' = [outbox EXCEPT ![s] = <<>>] /\ sent' = sent
            /\ tasks' = [tasks EXCEPT ![s] = tasks[s] \ {"writer"}]
        BY <1>8, <2>3 DEF Write
      <3>3. outbox' \in [Sessions -> Seq(Injections \union {Close})]
        BY <3>1, <3>2
      <3>. QED
        BY <2>1, <3>2, <3>3
    <2>. QED
      BY <2>2, <2>3
  <1>9. CASE Join(s)
    BY <1>9 DEF Join, Stages
  <1>10. CASE Leave(s)
    <2>1. ListsOK'
      BY <1>10 DEF Leave
    <2>2. InboxOK'
      <3>1. <<>> \in Seq(Injections)
        OBVIOUS
      <3>. QED
        BY <1>10, <3>1 DEF Leave
    <2>3. HandlersOK'
      BY <1>10 DEF Leave, Stages
    <2>. QED
      BY <2>1, <2>2, <2>3
  <1>11. CASE LeaveEmpty(s)
    BY <1>11 DEF LeaveEmpty, Without, Stages
  <1>. QED
    BY <1>1, <1>2, <1>3, <1>4, <1>5, <1>6, <1>7, <1>8, <1>9, <1>10, <1>11
    DEF Serve, Handle

-----------------------------------------------------------------------------
(* Theorems.                                                               *)

\* A session leaves the store alone.
LEMMA ServeKeeps ==
  ASSUME StoreOK, Capacity, Fates, NEW s \in Sessions, Serve(s)
  PROVE  StoreKept
  <1>1. UNCHANGED <<now, store, call, delivered>>
    BY DEF Serve, Handle, Open, Connect, ConnectFails, ClientCloses, UpstreamSends,
           UpstreamCloses, Forward, Write, Join, Leave, LeaveEmpty
  <1>2. now' \in 0 .. MaxTime
    BY <1>1 DEF StoreOK
  <1>. QED
    BY <1>1, <1>2, CalmStore DEF StoreKept, store

LEMMA LiveOpens == Init => LiveInv
  <1>. SUFFICES ASSUME Init PROVE LiveInv
    OBVIOUS
  <1>. USE DEF Init
  <1>1. DOMAIN entries = {} /\ DOMAIN sessions = {}
    OBVIOUS
  <1>2. StoreOK
    <2>1. Idle \in Calls /\ 0 \in 0 .. MaxTime
      BY LiveAssumption DEF Idle, Calls, Steps
    <2>. QED
      BY <1>1, <2>1 DEF StoreOK, EntriesOK
  <1>3. SocketsOK
    BY <1>1 DEF SocketsOK, ListsOK, InboxOK, HandlersOK, Stages
  <1>4. Capacity
    BY <1>1, FS_EmptySet, LiveAssumption DEF Capacity, Bounded
  <1>5. Fates
    BY <1>1 DEF Fates, Fate, Queued, Idle, Accepted
  <1>. QED
    BY <1>2, <1>3, <1>4, <1>5 DEF LiveInv

LEMMA LiveStep == LiveInv /\ [Next]_vars => LiveInv'
  <1>. SUFFICES ASSUME LiveInv, [Next]_vars PROVE LiveInv'
    OBVIOUS
  <1>. USE DEF LiveInv
  <1>1. CASE Tick
    <2>1. /\ UNCHANGED <<entries, taken, dropped, call, delivered>>
          /\ UNCHANGED <<sessions, inbox, sockets>>
          /\ now' \in 0 .. MaxTime
      BY <1>1, LiveAssumption DEF Tick, StoreOK, store
    <2>2. SocketsOK'
      BY <2>1 DEF SocketsOK, ListsOK, InboxOK, HandlersOK, sockets
    <2>. QED
      BY <2>1, <2>2, CalmStore
  <1>2. CASE StoreStep /\ UNCHANGED <<now, sessions, call, sockets, inbox, delivered>>
    <2>1. SocketsOK'
      BY <1>2 DEF SocketsOK, ListsOK, InboxOK, HandlersOK, sockets
    <2>. QED
      BY <1>2, <2>1, StoreStepKeeps DEF StoreKept
  <1>3. ASSUME NEW i \in Injections, Inject(i) PROVE LiveInv'
    BY <1>3, InjectKeeps, InjectSockets DEF StoreKept
  <1>4. ASSUME NEW s \in Sessions, Serve(s) PROVE LiveInv'
    BY <1>4, ServeKeeps, ServeSockets DEF StoreKept
  <1>5. CASE UNCHANGED vars
    <2>1. /\ UNCHANGED <<entries, taken, dropped, call, delivered>>
          /\ UNCHANGED <<sessions, inbox, sockets>>
          /\ now' \in 0 .. MaxTime
      BY <1>5 DEF vars, StoreOK, sockets
    <2>2. SocketsOK'
      BY <2>1 DEF SocketsOK, ListsOK, InboxOK, HandlersOK, sockets
    <2>. QED
      BY <2>1, <2>2, CalmStore
  <1>. QED
    BY <1>1, <1>2, <1>3, <1>4, <1>5 DEF Next

\* The invariant of the store and its sessions.
THEOREM LiveInvariance == Spec => []LiveInv
  BY LiveOpens, LiveStep, PTL DEF Spec

\* The store, the calls and the four tasks of a session have the types their
\* handlers give them (ConversationStore, WsSessionManager, voice_ws).
THEOREM LiveTypeCorrect == Spec => []TypeOK
  <1>1. LiveInv => TypeOK
    <2>1. StoreOK => \A i \in Injections : call[i].step \in Steps
      <3>1. \A c \in Calls : c.step \in Steps
        BY DEF Calls, Steps
      <3>. QED
        BY <3>1 DEF StoreOK
    <2>. QED
      BY <2>1 DEF LiveInv, StoreOK, EntriesOK, SocketsOK, ListsOK, InboxOK, HandlersOK, TypeOK
  <1>. QED
    BY <1>1, LiveInvariance, PTL

\* Whatever requests, operators, the cleanup task, evictions and sessions do in
\* between, a message that was accepted is queued, or was taken by one HTTP
\* request, or was given to sessions, or was dropped with its conversation: one
\* of these, and only one (inject_handler, add_injections, take_injections,
\* maybe_evict).
THEOREM EveryMessageHasOneFate == Spec => []OneFate
  <1>1. ASSUME LiveInv, NEW i \in Injections
        PROVE  LET fates == <<Queued(i), taken[i] > 0, delivered[i] # {}, i \in dropped>> IN
               /\ taken[i] <= 1
               /\ Cardinality({n \in 1 .. 4 : fates[n]}) =
                    IF call[i].step \in {"count", "choose", "evict", "done"} THEN 1 ELSE 0
    <2>. DEFINE fates == <<Queued(i), taken[i] > 0, delivered[i] # {}, i \in dropped>>
                is == {n \in 1 .. 4 : fates[n]}
    <2>. SUFFICES /\ taken[i] <= 1
                  /\ Cardinality(is) = IF call[i].step \in Accepted THEN 1 ELSE 0
      BY DEF Accepted
    <2>a. /\ fates[1] = Queued(i) /\ fates[2] = (taken[i] > 0)
          /\ fates[3] = (delivered[i] # {}) /\ fates[4] = (i \in dropped)
      OBVIOUS
    <2>. HIDE DEF fates
    <2>b. /\ \A n : n \in 1 .. 4 <=> n = 1 \/ n = 2 \/ n = 3 \/ n = 4
          /\ ~(0 > 0) /\ 1 > 0
      OBVIOUS
    <2>1. Fate(i)
      BY <1>1 DEF LiveInv, Fates
    <2>2. taken[i] <= 1
      BY <2>1 DEF Fate
    <2>3. CASE call[i].step \in Accepted
      <3>1. PICK k \in 1 .. 4 : is = {k}
        <4>1. CASE Queued(i) /\ taken[i] = 0 /\ delivered[i] = {} /\ i \notin dropped
          <5>1. is = {1}
            BY <2>a, <2>b, <4>1
          <5>. QED
            BY <2>b, <5>1
        <4>2. CASE ~Queued(i) /\ taken[i] = 1 /\ delivered[i] = {} /\ i \notin dropped
          <5>1. is = {2}
            BY <2>a, <2>b, <4>2
          <5>. QED
            BY <2>b, <5>1
        <4>3. CASE ~Queued(i) /\ taken[i] = 0 /\ delivered[i] # {} /\ i \notin dropped
          <5>1. is = {3}
            BY <2>a, <2>b, <4>3
          <5>. QED
            BY <2>b, <5>1
        <4>4. CASE ~Queued(i) /\ taken[i] = 0 /\ delivered[i] = {} /\ i \in dropped
          <5>1. is = {4}
            BY <2>a, <2>b, <4>4
          <5>. QED
            BY <2>b, <5>1
        <4>. HIDE DEF is
        <4>. QED
          BY <2>1, <2>3, <4>1, <4>2, <4>3, <4>4 DEF Fate
      <3>2. Cardinality(is) = 1
        BY <3>1, FS_Singleton
      <3>. HIDE DEF is
      <3>. QED
        BY <2>2, <2>3, <3>2
    <2>4. CASE call[i].step \notin Accepted
      <3>1. is = {}
        <4>1. ~Queued(i) /\ taken[i] = 0 /\ delivered[i] = {} /\ i \notin dropped
          BY <2>1, <2>4 DEF Fate
        <4>. QED
          BY <2>a, <2>b, <4>1
      <3>2. Cardinality(is) = 0
        BY <3>1, FS_EmptySet
      <3>. HIDE DEF is
      <3>. QED
        BY <2>2, <2>4, <3>2
    <2>. QED
      BY <2>3, <2>4
  <1>2. LiveInv => OneFate
    BY <1>1 DEF OneFate
  <1>. QED
    BY <1>2, LiveInvariance, PTL

\* Overlapping calls may each evict what another still counts, but the last to
\* finish leaves no more conversations than configured (maybe_evict).
THEOREM StoreStaysWithinCapacity == Spec => []QuietWithinCapacity
  <1>1. LiveInv => QuietWithinCapacity
    <2>. SUFFICES ASSUME LiveInv, ~CaptureAll,
                    \A i \in Injections : call[i].step \in {"idle", "unlist", "add", "done"}
         PROVE  Cardinality(DOMAIN entries) <= MaxConversations
      BY DEF QuietWithinCapacity
    <2>1. Counting = {}
      BY DEF Counting
    <2>2. Bounded
      BY <2>1 DEF LiveInv, Capacity
    <2>. QED
      BY <2>2 DEF Bounded
  <1>. QED
    BY <1>1, LiveInvariance, PTL
=============================================================================
