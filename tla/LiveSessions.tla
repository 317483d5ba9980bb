---------------------------- MODULE LiveSessions ----------------------------
(***************************************************************************)
(* Injections into conversations.  A message posted for a conversation     *)
(* goes to the WebSocket sessions that are open on it, or waits in the     *)
(* conversation store for the next HTTP request.  The store forgets        *)
(* conversations by age and by number.  A session is four tasks that end   *)
(* each other by dropping the ends of their channels.                      *)
(***************************************************************************)
EXTENDS Integers, Sequences, FiniteSets

CONSTANTS
  Conversations,
  Injections, To,       \* POST /inject calls, and their conversations
  Sessions, On, Kind,   \* WebSockets, their conversations and handlers
  MaxConversations, Ttl, CaptureAll, \* [state] of the configuration
  MaxTime               \* bound on the clock

Kinds == {"voice", "realtime"}

ASSUME LiveAssumption ==
  /\ To \in [Injections -> Conversations]
  /\ On \in [Sessions -> Conversations] /\ Kind \in [Sessions -> Kinds]
  /\ MaxConversations \in Nat \ {0} /\ Ttl \in Nat
  /\ CaptureAll \in BOOLEAN /\ MaxTime \in Nat

VARIABLES
  now,
  entries,   \* ConversationStore: conversation -> queued, last_accessed
  sessions,  \* WsSessionManager: conversation -> sessions, where it has a list
  call,      \* injection -> where its call stands
  stage,     \* session -> where its handler stands
  tasks,     \* session -> its tasks that still run
  inbox,     \* session -> injection_rx
  outbox,    \* session -> upstream_rx
  client,    \* session -> whether the client is connected
  upstream,  \* session -> whether upstream is connected
  recorded,  \* session -> whether its usage was recorded
  taken,     \* history: injection -> the HTTP requests that took it
  delivered, \* history: injection -> the sessions it was given to
  sent,      \* history: session -> the injections upstream got through it
  dropped    \* history: injections cleared, expired or evicted

vars == <<now, entries, sessions, call, stage, tasks, inbox, outbox, client,
          upstream, recorded, taken, delivered, sent,
          dropped>>
store   == <<entries, taken, dropped>>
sockets == <<stage, tasks, outbox, client, upstream, recorded, sent>>

Close == "close"
Tasks == {"writer", "reader", "forwarder", "injector"}
Idle  == [step |-> "idle"]
At(step) == [step |-> step]

Init ==
  /\ now = 0
  /\ entries = <<>> /\ sessions = <<>>
  /\ call = [i \in Injections |-> Idle]
  /\ stage = [s \in Sessions |-> "idle"]
  /\ tasks = [s \in Sessions |-> {}]
  /\ inbox = [s \in Sessions |-> <<>>]
  /\ outbox = [s \in Sessions |-> <<>>]
  /\ client = [s \in Sessions |-> FALSE]
  /\ upstream = [s \in Sessions |-> FALSE]
  /\ recorded = [s \in Sessions |-> FALSE]
  /\ taken = [i \in Injections |-> 0]
  /\ delivered = [i \in Injections |-> {}]
  /\ sent = [s \in Sessions |-> {}]
  /\ dropped = {}

Goto(i, c) == call' = [call EXCEPT ![i] = c]
Put(f, x, y) == [z \in DOMAIN f \union {x} |-> IF z = x THEN y ELSE f[z]]
Without(f, S) == [z \in DOMAIN f \ S |-> f[z]]
Items(q) == {q[n] : n \in DOMAIN q}
Queued(i) == To[i] \in DOMAIN entries /\ i \in Items(entries[To[i]].queued)

---------------------------------------------------------------------------
(* The conversation store.                                                 *)

\* The entries of S leave the store, with what waits in them.
Forget(S) ==
  /\ entries' = Without(entries, S)
  /\ dropped' = dropped \union {i \in Injections : To[i] \in S /\ Queued(i)}
  /\ UNCHANGED taken

\* Fault: the queue is read and not taken.
RequestReads(c) ==
  /\ c \in DOMAIN entries
  /\ entries' = Put(entries, c, [entries[c] EXCEPT !.at = now])
  /\ taken' = [i \in Injections |-> taken[i] + IF Queued(i) THEN 1 ELSE 0]
  /\ UNCHANGED dropped
\* A request to upstream: with capture_all it creates its conversation, and
\* then takes what is queued there.
Request(c) ==
  LET known == c \in DOMAIN entries
      queue == IF known THEN entries[c].queued ELSE <<>> IN
  /\ known \/ CaptureAll
  /\ entries' = Put(entries, c, [queued |-> <<>>, at |-> now])
  /\ taken' = [i \in Injections |-> taken[i] + IF i \in Items(queue) THEN 1 ELSE 0]
  /\ UNCHANGED dropped

\* clear, by an operator or a plugin.
Clear(c) == c \in DOMAIN entries /\ Forget({c})

\* The cleanup task.
Cleanup ==
  LET expired == {c \in DOMAIN entries : now - entries[c].at > Ttl} IN
  expired # {} /\ Forget(expired)

StoreStep == \/ \E c \in Conversations : Request(c) \/ Clear(c)
             \/ Cleanup

\* add_injections: the queue is extended; then the count is checked.
Add(i) ==
  LET c == To[i]  old == IF c \in DOMAIN entries THEN entries[c].queued ELSE <<>> IN
  /\ call[i].step = "add"
  /\ entries' = Put(entries, c, [queued |-> Append(old, i), at |-> now])
  /\ Goto(i, At("count"))
  /\ UNCHANGED <<now, sessions, sockets, inbox, taken, delivered, dropped>>

\* Fault: one conversation too many is let pass.
CountLate(i) ==
  LET excess == Cardinality(DOMAIN entries) - MaxConversations IN
  /\ call[i].step = "count"
  /\ Goto(i, IF excess > 1 THEN [step |-> "choose", excess |-> excess]
             ELSE At("done"))
  /\ UNCHANGED <<now, store, sessions, sockets, inbox, delivered>>
\* maybe_evict: how many are too many,
Count(i) ==
  LET excess == Cardinality(DOMAIN entries) - MaxConversations IN
  /\ call[i].step = "count"
  /\ Goto(i, IF excess > 0 THEN [step |-> "choose", excess |-> excess]
             ELSE At("done"))
  /\ UNCHANGED <<now, store, sessions, sockets, inbox, delivered>>

\* then which are the oldest (ties in any order),
Choose(i) ==
  /\ call[i].step = "choose"
  /\ \E S \in SUBSET DOMAIN entries :
       /\ Cardinality(S) =
            IF call[i].excess < Cardinality(DOMAIN entries)
            THEN call[i].excess ELSE Cardinality(DOMAIN entries)
       /\ \A c \in S, d \in DOMAIN entries \ S : entries[c].at <= entries[d].at
       /\ Goto(i, [step |-> "evict", chosen |-> S])
  /\ UNCHANGED <<now, store, sessions, sockets, inbox, delivered>>

\* then their removal, whatever became of them meanwhile.
Evict(i) ==
  /\ call[i].step = "evict"
  /\ IF call[i].chosen = {}
     THEN Goto(i, At("done")) /\ UNCHANGED store
     ELSE \E c \in call[i].chosen :
            /\ Forget({c})
            /\ Goto(i, [call[i] EXCEPT !.chosen = @ \ {c}])
  /\ UNCHANGED <<now, sessions, sockets, inbox, delivered>>

---------------------------------------------------------------------------
(* The session manager.                                                    *)

\* Somebody still holds the receiving end of a session's channel.
Receiving(s) == \/ stage[s] \in {"connecting", "refused"}
                \/ "injector" \in tasks[s]

\* The sending end is in the manager's list and nowhere else.
Listed(s) == On[s] \in DOMAIN sessions /\ s \in sessions[On[s]]

\* Fault: a list counts as delivery, whoever is on it.
DeliverToList(i) ==
  LET c == To[i] IN
  /\ call[i].step = "idle"
  /\ IF c \in DOMAIN sessions
     THEN LET heard == {s \in sessions[c] : Receiving(s)} IN
          /\ inbox' = [s \in Sessions |->
                         IF s \in heard THEN Append(inbox[s], i) ELSE inbox[s]]
          /\ delivered' = [delivered EXCEPT ![i] = heard]
          /\ Goto(i, At("done"))
     ELSE Goto(i, At("add")) /\ UNCHANGED <<inbox, delivered>>
  /\ UNCHANGED <<now, store, sockets, sessions>>
\* inject_handler: to every session that still receives; the others leave
\* the list.  Without any, the message goes to the store.
Deliver(i) ==
  LET c == To[i]
      heard == IF c \in DOMAIN sessions
               THEN {s \in sessions[c] : Receiving(s)} ELSE {} IN
  /\ call[i].step = "idle"
  /\ inbox' = [s \in Sessions |-> IF s \in heard THEN Append(inbox[s], i) ELSE inbox[s]]
  /\ delivered' = [delivered EXCEPT ![i] = heard]
  /\ sessions' = IF c \in DOMAIN sessions THEN Put(sessions, c, heard) ELSE sessions
  /\ Goto(i, IF heard # {} THEN At("done")
             ELSE IF c \in DOMAIN sessions THEN At("unlist") ELSE At("add"))
  /\ UNCHANGED <<now, store, sockets>>

\* The list was empty when its lock was released; it is removed as it is.
Unlist(i) ==
  /\ call[i].step = "unlist"
  /\ sessions' = Without(sessions, {To[i]})
  /\ Goto(i, At("add"))
  /\ UNCHANGED <<now, store, sockets, inbox, delivered>>

Inject(i) == Deliver(i) \/ Unlist(i) \/ Add(i) \/ Count(i) \/ Choose(i) \/ Evict(i)

---------------------------------------------------------------------------
(* One WebSocket.                                                          *)

Set(f, s, x) == f' = [f EXCEPT ![s] = x]
End(s, task) == tasks' = [tasks EXCEPT ![s] = @ \ {task}]

Open(s) ==
  /\ stage[s] = "idle"
  /\ sessions' = Put(sessions, On[s],
       {s} \union IF On[s] \in DOMAIN sessions THEN sessions[On[s]] ELSE {})
  /\ Set(stage, s, "connecting") /\ Set(client, s, TRUE)
  /\ UNCHANGED <<now, store, call, tasks, inbox, outbox, upstream, recorded,
                 delivered, sent>>

\* Upstream accepts: the tasks start.  Native speech has no injections, its
\* injector returns at once.
Connect(s) ==
  /\ stage[s] = "connecting"
  /\ Set(stage, s, "running") /\ Set(upstream, s, TRUE)
  /\ Set(tasks, s, Tasks \ IF Kind[s] = "voice" THEN {"injector"} ELSE {})
  /\ Set(inbox, s, IF Kind[s] = "voice" THEN <<>> ELSE inbox[s])
  /\ UNCHANGED <<now, store, sessions, call, outbox, client, recorded, delivered,
                 sent>>

\* Upstream refuses: the handler closes the client and returns, which drops
\* its guard and then its receiver.
ConnectFails(s) ==
  /\ stage[s] = "connecting"
  /\ Set(stage, s, "refused") /\ Set(client, s, FALSE)
  /\ UNCHANGED <<now, store, sessions, call, tasks, inbox, outbox, upstream,
                 recorded, delivered, sent>>

\* The client says goodbye, which is forwarded, or is just gone.
ClientCloses(s) ==
  /\ client[s] /\ stage[s] = "running"
  /\ Set(client, s, FALSE)
  /\ End(s, "reader")
  /\ \/ outbox' = [outbox EXCEPT ![s] = Append(@, Close)]
     \/ UNCHANGED outbox
  /\ UNCHANGED <<now, store, sessions, call, stage, inbox, upstream, recorded,
                 delivered, sent>>

\* Upstream sends something: the forwarder ends when it cannot pass it on.
UpstreamSends(s) ==
  /\ upstream[s] /\ "forwarder" \in tasks[s] /\ ~client[s]
  /\ End(s, "forwarder")
  /\ UNCHANGED <<now, store, sessions, call, stage, inbox, outbox, client,
                 upstream, recorded, delivered, sent>>

UpstreamCloses(s) ==
  /\ upstream[s]
  /\ Set(upstream, s, FALSE)
  /\ End(s, "forwarder")
  /\ UNCHANGED <<now, store, sessions, call, stage, inbox, outbox, client,
                 recorded, delivered, sent>>

\* The injector passes a message on, or ends when its channel is closed.
Forward(s) ==
  /\ "injector" \in tasks[s]
  /\ IF inbox[s] # <<>>
     THEN /\ outbox' = [outbox EXCEPT ![s] =
               IF "writer" \in tasks[s] THEN Append(@, Head(inbox[s])) ELSE @]
          /\ inbox' = [inbox EXCEPT ![s] = Tail(@)]
          /\ UNCHANGED tasks
     ELSE /\ ~Listed(s)
          /\ End(s, "injector")
          /\ UNCHANGED <<inbox, outbox>>
  /\ UNCHANGED <<now, store, sessions, call, stage, client, upstream, recorded,
                 delivered, sent>>

\* Fault: the writer leaves with its first empty queue.
WriteUntilEmpty(s) ==
  /\ "writer" \in tasks[s]
  /\ IF outbox[s] # <<>> /\ upstream[s]
     THEN /\ outbox' = [outbox EXCEPT ![s] = Tail(@)]
          /\ Set(sent, s, sent[s] \union ({Head(outbox[s])} \ {Close}))
          /\ UNCHANGED tasks
     ELSE End(s, "writer") /\ Set(outbox, s, <<>>) /\ UNCHANGED sent
  /\ UNCHANGED <<now, store, sessions, call, stage, inbox, client, upstream,
                 recorded, delivered>>
\* Fault: the handler keeps a sender of its own.
WriteForEver(s) ==
  /\ "writer" \in tasks[s] /\ outbox[s] # <<>>
  /\ IF upstream[s]
     THEN /\ outbox' = [outbox EXCEPT ![s] = Tail(@)]
          /\ Set(sent, s, sent[s] \union ({Head(outbox[s])} \ {Close}))
          /\ UNCHANGED tasks
     ELSE End(s, "writer") /\ Set(outbox, s, <<>>) /\ UNCHANGED sent
  /\ UNCHANGED <<now, store, sessions, call, stage, inbox, client, upstream,
                 recorded, delivered>>
\* The writer ends when upstream is gone, or when no task is left that could
\* send to it.
Write(s) ==
  /\ "writer" \in tasks[s]
  /\ IF outbox[s] # <<>> /\ upstream[s]
     THEN /\ outbox' = [outbox EXCEPT ![s] = Tail(@)]
          /\ Set(sent, s, sent[s] \union ({Head(outbox[s])} \ {Close}))
          /\ UNCHANGED tasks
     ELSE /\ outbox[s] # <<>> \/ tasks[s] \intersect {"reader", "injector"} = {}
          /\ End(s, "writer") /\ Set(outbox, s, <<>>) /\ UNCHANGED sent
  /\ UNCHANGED <<now, store, sessions, call, stage, inbox, client, upstream,
                 recorded, delivered>>

\* All tasks ended: the usage is recorded and the handler returns.
Join(s) ==
  /\ stage[s] = "running" /\ tasks[s] = {}
  /\ Set(recorded, s, Kind[s] = "realtime")
  /\ Set(stage, s, "leaving")
  /\ UNCHANGED <<now, store, sessions, call, tasks, inbox, outbox, client,
                 upstream, delivered, sent>>

\* The guard: out of the list, and in a second step an empty list goes.
Leave(s) ==
  /\ stage[s] \in {"refused", "leaving"}
  /\ sessions' = IF On[s] \in DOMAIN sessions
                 THEN [sessions EXCEPT ![On[s]] = @ \ {s}] ELSE sessions
  /\ Set(stage, s, IF On[s] \in DOMAIN sessions /\ sessions'[On[s]] = {}
                   THEN "unlisting" ELSE "closed")
  /\ Set(inbox, s, <<>>)
  /\ UNCHANGED <<now, store, call, tasks, outbox, client, upstream, recorded,
                 delivered, sent>>

LeaveEmpty(s) ==
  /\ stage[s] = "unlisting"
  /\ sessions' = Without(sessions, {On[s]})
  /\ Set(stage, s, "closed")
  /\ UNCHANGED <<now, store, call, tasks, inbox, outbox, client, upstream,
                 recorded, delivered, sent>>

Handle(s) == Forward(s) \/ Write(s) \/ Join(s) \/ Leave(s) \/ LeaveEmpty(s)

---------------------------------------------------------------------------

Tick ==
  /\ now < MaxTime /\ now' = now + 1
  /\ UNCHANGED <<store, sessions, call, sockets, inbox, delivered>>

Serve(s) == \/ Open(s) \/ Connect(s) \/ ConnectFails(s) \/ ClientCloses(s)
            \/ UpstreamSends(s) \/ UpstreamCloses(s) \/ Handle(s)

Next == \/ Tick
        \/ StoreStep /\ UNCHANGED <<now, sessions, call, sockets, inbox, delivered>>
        \/ \E i \in Injections : Inject(i)
        \/ \E s \in Sessions : Serve(s)

\* The tasks run; upstream answers a connection attempt, and does not keep
\* the connection of a client that is gone silent for ever.
Fairness == \A s \in Sessions :
  /\ WF_vars(Handle(s)) /\ WF_vars(Connect(s) \/ ConnectFails(s))
  /\ WF_vars(~client[s] /\ (UpstreamSends(s) \/ UpstreamCloses(s)))

Spec == Init /\ [][Next]_vars /\ Fairness

---------------------------------------------------------------------------
(* Properties. *)

Steps  == {"idle", "unlist", "add", "count", "choose", "evict", "done"}
Stages == {"idle", "connecting", "running", "refused", "leaving", "unlisting",
           "closed"}

\* A session's list, channels and tasks stay those its handler made.
TypeOK ==
  /\ now \in 0 .. MaxTime
  /\ DOMAIN entries \subseteq Conversations
  /\ \A c \in DOMAIN entries :
       entries[c] \in [queued : Seq(Injections), at : 0 .. MaxTime]
  /\ DOMAIN sessions \subseteq Conversations
  /\ \A c \in DOMAIN sessions : sessions[c] \subseteq {s \in Sessions : On[s] = c}
  /\ \A i \in Injections : call[i].step \in Steps
  /\ stage \in [Sessions -> Stages] /\ tasks \in [Sessions -> SUBSET Tasks]
  /\ inbox \in [Sessions -> Seq(Injections)]
  /\ outbox \in [Sessions -> Seq(Injections \union {Close})]
  /\ client \in [Sessions -> BOOLEAN] /\ upstream \in [Sessions -> BOOLEAN]
  /\ recorded \in [Sessions -> BOOLEAN]
  /\ taken \in [Injections -> Nat]
  /\ delivered \in [Injections -> SUBSET Sessions]
  /\ sent \in [Sessions -> SUBSET Injections]
  /\ dropped \subseteq Injections

\* A message has one fate once it was accepted (deliver_injections,
\* add_injections, take_injections): it is queued, or was taken by one HTTP
\* request, or was given to sessions, or went with its conversation when
\* that was cleared, expired or evicted; never two of these, and never none.
OneFate == \A i \in Injections :
  LET fates == <<Queued(i), taken[i] > 0, delivered[i] # {}, i \in dropped>> IN
  /\ taken[i] <= 1
  /\ Cardinality({n \in 1 .. 4 : fates[n]}) =
       IF call[i].step \in {"count", "choose", "evict", "done"} THEN 1 ELSE 0

\* Whatever calls overlap, the last of them leaves no more conversations
\* than configured (maybe_evict).  Not so with capture_all.
QuietWithinCapacity ==
  (~CaptureAll /\ \A i \in Injections : call[i].step \in {"idle", "unlist", "add", "done"})
    => Cardinality(DOMAIN entries) <= MaxConversations

\* A speech session whose client is gone ends: its tasks end each other and
\* the guard takes it out of the list (voice_ws, WsSessionGuard).
SpeechEnds == <>[](\A s \in Sessions :
  Kind[s] = "voice" /\ stage[s] # "idle" /\ ~client[s] => stage[s] = "closed")

\* What was delivered to a realtime session that goes on reaches upstream
\* (the injector and the writer of ws_proxy_handler).  A speech session that
\* is still connecting takes a message and drops it.
GivenIsSent == <>[](\A s \in Sessions, i \in Injections :
  Kind[s] = "realtime" /\ s \in delivered[i] /\ stage[s] = "running" /\ upstream[s]
    => i \in sent[s])

\* "Record Realtime session usage now that the session has ended" (the end
\* of ws_proxy_handler).  The code does not keep this: once the client is
\* gone the injector waits for a sender that only Leave drops, so Join never
\* comes.
RealtimeUsageRecorded == \A s \in Sessions :
  Kind[s] = "realtime" => (stage[s] = "running" /\ ~client[s] ~> recorded[s])
=============================================================================
