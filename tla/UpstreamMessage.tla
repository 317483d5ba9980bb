--------------------------- MODULE UpstreamMessage ---------------------------
(***************************************************************************)
(* The events of one streamed Anthropic message, as the gateway's readers  *)
(* look at them, and what they mean whatever way they travel.  Blocks are  *)
(* numbered from 1 in the order in which they are opened, pieces of text   *)
(* in the order in which they are sent.                                    *)
(***************************************************************************)
EXTENDS Integers, Sequences, SequencesExt

NoTokens == [input |-> 0, output |-> 0, cached |-> 0]

\* Usage names the counts an event carries.
MessageStart(usage) == [type |-> "message_start", usage |-> usage]
BlockStart(b, kind) == [type |-> "content_block_start", block |-> b, kind |-> kind]
\* whole: the block's text is a JSON object after this piece.  text: "fine",
\* "binary" (not UTF-8) or "excess" (beyond what the Pi reader accepts).
Delta(b, piece, whole, text) ==
  [type |-> "content_block_delta", block |-> b, piece |-> piece,
   whole |-> whole, text |-> text]
BlockStop(b) == [type |-> "content_block_stop", block |-> b]
MessageDelta(reason, usage) ==
  [type |-> "message_delta", reason |-> reason, usage |-> usage]
MessageStop == [type |-> "message_stop"]
Ping  == [type |-> "ping"]
Error == [type |-> "error"]

Blocks == Nat \ {0}
Kinds == {"text", "tool"}
\* "odd" is a reason that the Pi reader does not know, "none" is null.
EndReasons == {"none", "odd", "stop", "toolUse"}
IsEvent(e) ==
  \/ \E D \in SUBSET DOMAIN NoTokens :
       e \in [type : {"message_start"}, usage : [D -> Nat]]
               \union [type : {"message_delta"}, reason : EndReasons, usage : [D -> Nat]]
  \/ e \in [type : {"content_block_start"}, block : Blocks, kind : Kinds]
  \/ e \in [type : {"content_block_delta"}, block : Blocks, piece : Nat,
            whole : BOOLEAN, text : {"fine", "binary", "excess"}]
  \/ e \in [type : {"content_block_stop"}, block : Blocks]
  \/ e \in {MessageStop, Ping, Error}

Upto(m, n) == SubSeq(m, 1, n)
Opened(m) == {m[n].block : n \in {k \in DOMAIN m : m[k].type = "content_block_start"}}

\* A message begins with its start and ends with its stop, if it comes to that;
\* its blocks are opened in the order of their numbers, a delta belongs to a
\* block that was opened, and a block is stopped once.
FollowsProtocol(m) ==
  /\ m \in Seq(ToSet(m))
  /\ \A n \in DOMAIN m :
       /\ IsEvent(m[n])
       /\ (m[n].type = "message_start") <=> (n = 1)
       /\ m[n].type = "message_stop" => n = Len(m)
       /\ m[n].type = "content_block_start" =>
            Opened(Upto(m, n - 1)) = 1 .. m[n].block - 1
       /\ m[n].type = "content_block_delta" => m[n].block \in Opened(Upto(m, n - 1))
  /\ \A j, k \in DOMAIN m : m[j].type = "content_block_stop" /\ m[k] = m[j] => j = k

\* The pieces of text are numbered.  A message is counted when it starts, and
\* what it has put out may be counted again, which is never less than before.
CountsUp(m) ==
  \A j, k \in DOMAIN m : j < k =>
    /\ m[j].type = "content_block_delta" /\ m[k].type = "content_block_delta"
         => m[j].piece < m[k].piece
    /\ m[k].type = "message_delta" => DOMAIN m[k].usage \subseteq {"output"}
    /\ "usage" \in DOMAIN m[j] /\ "usage" \in DOMAIN m[k]
       /\ "output" \in DOMAIN m[j].usage /\ "output" \in DOMAIN m[k].usage
         => m[j].usage["output"] <= m[k].usage["output"]

\* The counts of u in the place of those of t.
Merge(t, u) == [f \in DOMAIN t |-> IF f \in DOMAIN u THEN u[f] ELSE t[f]]

\* What the events of m report: of every count the last.
Reporting(m, f) ==
  {n \in DOMAIN m : "usage" \in DOMAIN m[n] /\ f \in DOMAIN m[n].usage}
Reported(m) ==
  [f \in DOMAIN NoTokens |->
     IF Reporting(m, f) = {} THEN 0 ELSE m[Max(Reporting(m, f))].usage[f]]

---------------------------------------------------------------------------
(* What a Pi client is to be told.                                         *)

Told(e) ==
  CASE e.type = "message_start"       -> <<[type |-> "start"]>>
    [] e.type = "content_block_start" -> <<[type |-> "open", block |-> e.block]>>
    [] e.type = "content_block_delta" ->
         <<[type |-> "delta", block |-> e.block, piece |-> e.piece]>>
    [] e.type = "content_block_stop"  -> <<[type |-> "close", block |-> e.block]>>
    [] OTHER -> <<>>

Story(m) == FlattenSeq([n \in DOMAIN m |-> Told(m[n])])

\* The ends of the blocks that m opens and does not close.
Closings(m) ==
  FlattenSeq([n \in DOMAIN m |->
    IF m[n].type = "content_block_start" /\ BlockStop(m[n].block) \notin ToSet(m)
    THEN <<[type |-> "close", block |-> m[n].block]>> ELSE <<>>])

\* Why m ended: the last reason it gives.
Reasons(m) ==
  {n \in DOMAIN m : m[n].type = "message_delta" /\ m[n].reason # "none"}
Reason(m) == IF Reasons(m) = {} THEN "none" ELSE m[Max(Reasons(m))].reason
Tools(m) == \E e \in ToSet(m) : e.type = "content_block_start" /\ e.kind = "tool"

\* A message that came to a proper end.
Proper(m) ==
  /\ MessageStop \in ToSet(m) /\ Reason(m) # "none"
  /\ (Reason(m) = "toolUse") <=> Tools(m)

Meaning(m) ==
  Story(m) \o
  (IF Proper(m)
   THEN Closings(m) \o <<[type |-> "done", reason |-> Reason(m), usage |-> Reported(m)]>>
   ELSE <<>>)
=============================================================================
