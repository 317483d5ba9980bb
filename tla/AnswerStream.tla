---------------------------- MODULE AnswerStream ----------------------------
(***************************************************************************)
(* One answer on its way from upstream to the client.  Upstream's message  *)
(* arrives in chunks that end anywhere, inside a line too.  A request is   *)
(* answered on one of four paths: "pi" keeps bytes until an event is       *)
(* whole; "translated" turns each chunk into OpenAI's format on its own;   *)
(* "passed" forwards each chunk and looks for usage in it; "whole"         *)
(* collects a body that is not streamed.  In the end the virtual key is    *)
(* debited.                                                                *)
(***************************************************************************)
EXTENDS UpstreamMessage

CONSTANTS Messages, Paths

ASSUME AnswerAssumption ==
  /\ Paths \subseteq {"pi", "translated", "passed", "whole"}
  /\ \A m \in Messages : FollowsProtocol(m)
ASSUME CountAssumption == \A m \in Messages : CountsUp(m)

VARIABLES
  message, path,
  priced,    \* whether the model has a price for cached tokens
  pos,       \* how much of the message has arrived
  stage,     \* "open", or how the answer ended
  torn,      \* history: a chunk ended where its reader loses something
  parser,    \* StreamState, without the message it collects
  tracker,   \* UsageTracker
  machine,   \* Machine of the Pi interface, with its Wire
  got,       \* history: what the client was sent
  bills      \* history: what was recorded for the key

request == <<message, path, priced>>
answerVars == <<request, pos, stage, torn, parser, tracker, machine, got, bills>>

AnswerInit ==
  /\ message \in Messages /\ path \in Paths /\ priced \in BOOLEAN
  /\ path = "whole" => Error \notin ToSet(message)
  /\ pos = 0 /\ stage = "open" /\ torn = FALSE
  /\ parser = [type |-> "", blocks |-> 0, reason |-> "none",
               input |-> 0, output |-> 0]
  /\ tracker = NoTokens
  /\ machine = [blocks |-> <<>>, counted |-> FALSE, counts |-> NoTokens,
                reason |-> "none", terminal |-> FALSE, started |-> FALSE,
                queue |-> <<>>, done |-> FALSE, observed |-> NoTokens]
  /\ got = <<>> /\ bills = <<>>

---------------------------------------------------------------------------
(* Bytes.  Of an event may have arrived: nothing, a part of "event: ", a   *)
(* part of its type, the whole line, a part of "data: ", a part of the     *)
(* JSON; these are the places 0 to 5.  (A cut right before the first byte  *)
(* of the JSON is left out.)                                               *)

Places == 6
Total == Places * Len(message)
Place(to) == to % Places
Arrived(to) == Upto(message, to \div Places)

\* What a reader of lines makes of the bytes of e between two places.
EventLine(e, a, b) ==
  IF a > 0 \/ b < 2 THEN <<>>
  ELSE <<[line |-> "event", type |-> IF b > 2 THEN e.type ELSE "torn"]>>
DataLine(e, a, b) ==
  IF a > 3 \/ b < 5 THEN <<>>
  ELSE IF b = 5 THEN <<[line |-> "broken"]>>
  ELSE <<[line |-> "data", event |-> e]>>

Within(n, at) ==
  LET d == at - Places * (n - 1)
  IN IF d < 0 THEN 0 ELSE IF d > Places THEN Places ELSE d

Lines(to) ==
  FlattenSeq([n \in DOMAIN message |->
    EventLine(message[n], Within(n, pos), Within(n, to)) \o
    DataLine(message[n], Within(n, pos), Within(n, to))])

---------------------------------------------------------------------------
(* Translation of one chunk.  An event is handled as the type that was     *)
(* named last, which need not be its own.                                  *)

Say(s, item) == [s EXCEPT !.out = Append(@, item)]
Index(e) == IF "block" \in DOMAIN e THEN e.block ELSE 1
AtLeast(x, y) == IF x < y THEN y ELSE x

OnMessageStart(s, e) ==
  Say([s EXCEPT !.input =
         IF e.type = "message_start" THEN Merge(NoTokens, e.usage).input ELSE @],
      [type |-> "start"])

\* Blocks up to the index exist from now on.
OnBlockStart(s, e) ==
  LET t == [s EXCEPT !.blocks = AtLeast(@, Index(e))]
  IN IF e.type = "content_block_start" /\ e.kind = "tool"
     THEN Say(t, [type |-> "tool", block |-> e.block]) ELSE t

OnDelta(s, e) ==
  IF e.type = "content_block_delta" /\ e.block <= s.blocks
  THEN Say(s, [type |-> "delta", block |-> e.block, piece |-> e.piece]) ELSE s

OnMessageDelta(s, e) ==
  IF e.type # "message_delta" THEN s
  ELSE LET t == [s EXCEPT !.reason = IF e.reason = "none" THEN @ ELSE e.reason]
           output == Merge(NoTokens, e.usage).output
       IN IF DOMAIN e.usage = {} THEN t
          ELSE Say([t EXCEPT !.output = output],
                   [type |-> "usage", input |-> t.input, output |-> output])

OnMessageStop(s) == Say(s, [type |-> "done", reason |-> s.reason])

\* The end of a block is not sent to an OpenAI client.
Handle(s, e) ==
  CASE s.type = "message_start"       -> OnMessageStart(s, e)
    [] s.type = "content_block_start" -> OnBlockStart(s, e)
    [] s.type = "content_block_delta" -> OnDelta(s, e)
    [] s.type = "message_delta"       -> OnMessageDelta(s, e)
    [] s.type = "message_stop"        -> OnMessageStop(s)
    [] s.type = "error"               -> Say(s, [type |-> "error"])
    [] OTHER -> s

\* JSON that does not parse ends the chunk.
TranslateLine(s, l) ==
  CASE ~s.ok -> s
    [] s.ok /\ l.line = "event"  -> [s EXCEPT !.type = l.type]
    [] s.ok /\ l.line = "broken" -> [s EXCEPT !.ok = FALSE]
    [] s.ok /\ l.line = "data"   -> Handle(s, l.event)

\* The tracker takes the counts of every usage event, so it ends with those of
\* the last; cached tokens are not among those of a stream.
Tracked(t, items) ==
  LET told == {n \in DOMAIN items : items[n].type = "usage"}
      last == items[Max(told)]
  IN IF told = {} THEN t
     ELSE [input |-> last.input, output |-> last.output, cached |-> 0]

TranslateChunk(to) ==
  LET s == FoldLeft(TranslateLine,
                    [f \in DOMAIN parser \union {"out", "ok"} |->
                       CASE f = "out" -> <<>> [] f = "ok" -> TRUE
                         [] OTHER -> parser[f]], Lines(to))
  IN /\ path = "translated"
     /\ parser' = [f \in DOMAIN parser |-> s[f]]
     /\ got' = IF s.ok THEN got \o s.out ELSE Append(got, [type |-> "raw"])
     /\ tracker' = IF s.ok THEN Tracked(tracker, s.out) ELSE tracker
     /\ torn' = (torn \/ Place(to) \notin {0, 3})
     /\ UNCHANGED machine

---------------------------------------------------------------------------
(* The two paths that leave the body as it is.                             *)

Extract(t, l) ==
  IF l.line = "data" /\ "usage" \in DOMAIN l.event
  THEN Merge(t, l.event.usage) ELSE t

PassChunk(to) ==
  /\ path = "passed"
  /\ tracker' = FoldLeft(Extract, tracker, Lines(to))
  /\ torn' = (torn \/ Place(to) \in {4, 5})
  /\ UNCHANGED <<parser, machine, got>>

CollectChunk(to) ==
  /\ path = "whole"
  /\ UNCHANGED <<torn, parser, tracker, machine, got>>

---------------------------------------------------------------------------
(* The Pi interface: one event into the Wire.                              *)

Refused(w) == [wire |-> w, out |-> <<>>, ok |-> FALSE]
Taken(w, out) == [wire |-> w, out |-> out, ok |-> TRUE]
Started(w) == [w EXCEPT !.started = TRUE]
Start(w) == IF w.started THEN <<>> ELSE <<[type |-> "start"]>>
Counted(w, usage) ==
  [w EXCEPT !.counted = TRUE, !.counts = Merge(@, usage)]
Closed(w, b) == [w EXCEPT !.blocks[b].ended = TRUE]
Whole(block) == block.kind # "tool" \/ block.whole

ParseStart(w, e) ==
  IF {"input", "output"} \subseteq DOMAIN e.usage
  THEN Taken(Counted(Started(w), e.usage), Start(w)) ELSE Refused(Started(w))

ParseBlock(w, e) ==
  IF e.block \notin DOMAIN w.blocks
  THEN Taken([Started(w) EXCEPT !.blocks =
                Append(@, [kind |-> e.kind, whole |-> TRUE, ended |-> FALSE])],
             Append(Start(w), [type |-> "open", block |-> e.block]))
  ELSE IF w.blocks[e.block].kind = e.kind THEN Taken(w, <<>>) ELSE Refused(w)

ParseDelta(w, e) ==
  IF e.block \in DOMAIN w.blocks /\ ~w.blocks[e.block].ended /\ e.text # "excess"
  THEN Taken([w EXCEPT !.blocks[e.block].whole = e.whole],
             <<[type |-> "delta", block |-> e.block, piece |-> e.piece]>>)
  ELSE Refused(w)

\* Ending a block twice is harmless; a tool call must have a JSON object.
ParseStop(w, e) ==
  IF e.block \notin DOMAIN w.blocks THEN Refused(w)
  ELSE IF w.blocks[e.block].ended THEN Taken(w, <<>>)
  ELSE IF Whole(w.blocks[e.block])
  THEN Taken(Closed(w, e.block), <<[type |-> "close", block |-> e.block]>>)
  ELSE Refused(Closed(w, e.block))

ParseMessageDelta(w, e) ==
  LET v == IF DOMAIN e.usage = {} THEN w ELSE Counted(w, e.usage)
  IN IF e.reason = "odd" THEN Refused(v)
     ELSE Taken([v EXCEPT !.reason = IF e.reason = "none" THEN @ ELSE e.reason], <<>>)

Parse(w, e) ==
  CASE e.type = "message_start"       -> ParseStart(w, e)
    [] e.type = "content_block_start" -> ParseBlock(w, e)
    [] e.type = "content_block_delta" -> ParseDelta(w, e)
    [] e.type = "content_block_stop"  -> ParseStop(w, e)
    [] e.type = "message_delta"       -> ParseMessageDelta(w, e)
    [] e.type = "message_stop"        -> Taken([w EXCEPT !.terminal = TRUE], <<>>)
    [] e.type = "ping"                -> Taken(w, <<>>)
    [] OTHER -> Refused(w)

\* Cached tokens without a price make the usage unusable.
Usable(w) == w.counted /\ (w.counts.cached = 0 \/ priced)

\* Fault: the first counts are kept.
ObserveFirst(w) ==
  IF Usable(w) /\ w.observed = NoTokens THEN [w EXCEPT !.observed = w.counts] ELSE w
Observe(w) == IF Usable(w) THEN [w EXCEPT !.observed = w.counts] ELSE w

Failed(w) ==
  [Observe(w) EXCEPT !.queue = Append(@, [type |-> "error"]), !.done = TRUE]

Open(w) == {b \in DOMAIN w.blocks : ~w.blocks[b].ended}
Ends(w) ==
  FlattenSeq([b \in DOMAIN w.blocks |->
    IF b \in Open(w) THEN <<[type |-> "close", block |-> b]>> ELSE <<>>])
HasTools(w) == \E b \in DOMAIN w.blocks : w.blocks[b].kind = "tool"

Finished(w) ==
  IF /\ w.terminal /\ w.reason # "none"
     /\ (w.reason = "toolUse") <=> HasTools(w)
     /\ \A b \in Open(w) : Whole(w.blocks[b])
     /\ Usable(w)
  THEN [Observe(w) EXCEPT
          !.queue = @ \o Start(w) \o Ends(w)
                      \o <<[type |-> "done", reason |-> w.reason, usage |-> w.counts]>>,
          !.done = TRUE]
  ELSE Failed(w)

\* Fault: the frames behind one that was refused are read.
ReadOn(w, e) ==
  LET r == Parse(w, e)
      v == Observe([r.wire EXCEPT !.queue = @ \o r.out])
  IN IF ~r.ok THEN Failed(r.wire)
     ELSE IF v.terminal /\ v.counted THEN Finished(v) ELSE v

\* One frame of a chunk; what follows the end of the message is not read.
Read(w, e) ==
  LET r == Parse(w, e)
      v == Observe([r.wire EXCEPT !.queue = @ \o r.out])
  IN IF w.done THEN w
     ELSE IF ~r.ok THEN Failed(r.wire)
     ELSE IF v.terminal /\ v.counted THEN Finished(v) ELSE v

\* Fault: what an earlier chunk brought of an event is forgotten.
FramesUnbuffered(to) ==
  SubSeq(message, (pos + Places - 1) \div Places + 1, to \div Places)

\* The events that become whole with this chunk.
Frames(to) == SubSeq(message, pos \div Places + 1, to \div Places)
Undecodable(frames) ==
  \E e \in ToSet(frames) : e.type = "content_block_delta" /\ e.text = "binary"

\* The Machine asks upstream only when it has nothing left to send.
Asks == path = "pi" /\ machine.queue = <<>> /\ ~machine.done

PiChunk(to) ==
  /\ Asks
  /\ machine' = IF Undecodable(Frames(to)) THEN Failed(machine)
                ELSE FoldLeft(Read, machine, Frames(to))
  /\ UNCHANGED <<torn, parser, tracker, got>>

---------------------------------------------------------------------------
(* The answer.                                                             *)

\* What a tracker is recorded as: cached tokens alone do not count.  The Ledger
\* of the Pi path has no such rule.
Debited(t) == IF t.input = 0 /\ t.output = 0 THEN NoTokens ELSE t
Debit(t) == bills' = Append(bills, t)
End(how) == stage' = how

Chunk ==
  /\ stage = "open"
  /\ \E to \in pos + 1 .. Total :
       /\ pos' = to
       /\ TranslateChunk(to) \/ PassChunk(to) \/ CollectChunk(to) \/ PiChunk(to)
  /\ UNCHANGED <<request, stage, bills>>

\* The client gets what the Machine has queued, an event at a time.
PiSend ==
  /\ stage = "open" /\ machine.queue # <<>>
  /\ got' = Append(got, Head(machine.queue))
  /\ machine' = [machine EXCEPT !.queue = Tail(@)]
  /\ UNCHANGED <<request, pos, stage, torn, parser, tracker, bills>>

\* The Machine is dropped with its Ledger, which records what was observed.
PiEnd ==
  /\ stage = "open" /\ machine.done /\ machine.queue = <<>>
  /\ End("ended") /\ Debit(machine.observed)
  /\ UNCHANGED <<request, pos, torn, parser, tracker, machine, got>>

\* Upstream closes, perhaps in the middle.
PiUpstreamEnds ==
  /\ stage = "open" /\ Asks
  /\ machine' = IF Place(pos) # 0 THEN Failed(machine) ELSE Finished(machine)
  /\ UNCHANGED <<request, pos, stage, torn, parser, tracker, got, bills>>
PiUpstreamFails ==
  /\ stage = "open" /\ Asks
  /\ machine' = Failed(machine)
  /\ UNCHANGED <<request, pos, stage, torn, parser, tracker, got, bills>>

StreamEnds ==
  /\ stage = "open" /\ path \in {"translated", "passed"}
  /\ End("ended") /\ Debit(Debited(tracker))
  /\ UNCHANGED <<request, pos, torn, parser, tracker, machine, got>>

\* A body that is complete is translated, answered and recorded at once.
WholeEnds ==
  /\ stage = "open" /\ path = "whole"
  /\ IF pos = Total
     THEN /\ End("ended") /\ got' = <<[type |-> "answer"]>>
          /\ Debit(Debited([Reported(message) EXCEPT !.cached = 0]))
     ELSE End("failed") /\ UNCHANGED <<got, bills>>
  /\ UNCHANGED <<request, pos, torn, parser, tracker, machine>>

\* The body breaks off with upstream, or the handler answers 502.
UpstreamFails ==
  /\ stage = "open" /\ path # "pi" /\ End("failed")
  /\ UNCHANGED <<request, pos, torn, parser, tracker, machine, got, bills>>

\* The client leaves: everything is dropped, and only the Ledger records.
Leave ==
  /\ stage = "open" /\ End("left")
  /\ IF path = "pi" THEN Debit(machine.observed) ELSE UNCHANGED bills
  /\ UNCHANGED <<request, pos, torn, parser, tracker, machine, got>>

AnswerNext ==
  \/ Chunk \/ PiSend \/ PiEnd \/ PiUpstreamEnds \/ PiUpstreamFails
  \/ StreamEnds \/ WholeEnds \/ UpstreamFails \/ Leave
AnswerSpec == AnswerInit /\ [][AnswerNext]_answerVars

---------------------------------------------------------------------------
(* Properties.                                                             *)

\* A client of the Pi interface is told the message in order, from its
\* beginning, and then either its end, if all of it was told, or an error,
\* and nothing after that: however the bytes were cut (Framer), wherever the
\* conversion gave up (Machine::fail) and whenever upstream broke off.
Telling == INSTANCE PiTelling WITH told <- IF path = "pi" THEN got ELSE <<>>
ImplementsTelling == Telling!TellingSpec

\* What the OpenAI client should have been sent of m.
Translation(m) ==
  LET upto(n) == Reported(Upto(m, n))
      item(n) ==
        CASE m[n].type = "message_start" -> <<[type |-> "start"]>>
          [] m[n].type = "content_block_start" /\ m[n].kind = "tool" ->
               <<[type |-> "tool", block |-> m[n].block]>>
          [] m[n].type = "content_block_delta" ->
               <<[type |-> "delta", block |-> m[n].block, piece |-> m[n].piece]>>
          [] m[n].type = "message_delta" /\ DOMAIN m[n].usage # {} ->
               <<[type |-> "usage", input |-> upto(n).input, output |-> upto(n).output]>>
          [] m[n].type = "message_stop" ->
               <<[type |-> "done", reason |-> Reason(Upto(m, n))]>>
          [] m[n].type = "error" -> <<[type |-> "error"]>>
          [] OTHER -> <<>>
  IN FlattenSeq([n \in DOMAIN m |-> item(n)])

\* How the network cuts the body does not show.  On the Pi path everything
\* that has arrived is told or queued unless the answer is over.  A
\* translated chunk is read on its own: the client gets exactly the
\* translation as long as no chunk ended inside a line, and pieces of text
\* are lost, but never doubled or reordered, otherwise.
ChunksDoNotShow ==
  /\ path = "pi" /\ ~machine.done => got \o machine.queue = Story(Arrived(pos))
  /\ path = "translated" /\ ~torn => got = Translation(Arrived(pos))
  /\ path = "translated" =>
       \A j, k \in DOMAIN got :
         j < k /\ got[j].type = "delta" /\ got[k].type = "delta"
           => got[j].piece < got[k].piece

\* What the readers that forward as they go can have seen of m's usage.
Seen(m) ==
  IF path # "translated" THEN Reported(m)
  ELSE IF \E e \in ToSet(m) : e.type = "message_delta" /\ DOMAIN e.usage # {}
  THEN [Reported(m) EXCEPT !.cached = 0] ELSE NoTokens

AtMost(t, u) == \A f \in DOMAIN t : t[f] <= u[f]
Says(type) == \E n \in DOMAIN got : got[n].type = type

\* The key is debited at most once, never for more than upstream reported,
\* and on the Pi path exactly once however the answer ends (Ledger::drop):
\* for all that was reported if the client saw the end, and for what had
\* arrived if it left or upstream broke off before, were it cached tokens
\* alone.  The other paths debit when the stream is read to its end
\* (with_terminal_usage_record), or the body is translated, and then for all
\* that they saw if no line was torn; cached tokens alone are not debited there.
BilledAsReported ==
  /\ Len(bills) <= 1
  /\ \A n \in DOMAIN bills : AtMost(bills[n], Reported(Arrived(pos)))
  /\ path = "pi" =>
       /\ stage # "open" => Len(bills) = 1
       /\ bills # <<>> /\ Says("done") => bills[1] = Reported(message)
       /\ bills # <<>> /\ ~machine.done =>
            bills[1] = IF Reported(Arrived(pos)).cached = 0 \/ priced
                       THEN Reported(Arrived(pos)) ELSE NoTokens
  /\ path # "pi" =>
       /\ (stage = "ended") <=> (Len(bills) = 1)
       /\ stage = "ended" /\ path = "whole" =>
            bills[1] = [Reported(message) EXCEPT !.cached = 0]
       /\ stage = "ended" /\ path # "whole" /\ ~torn =>
            bills[1] = Debited(Seen(Arrived(pos)))
=============================================================================
