---------------------------- MODULE MCAnswerStream ----------------------------
EXTENDS AnswerStream

InputAndOutput == [input |-> 5, output |-> 1]
WithCached     == [input |-> 5, output |-> 1, cached |-> 2]
CachedOnly     == [input |-> 0, output |-> 0, cached |-> 2]
Final          == [output |-> 4]

Text == <<BlockStart(1, "text"), Delta(1, 1, FALSE, "fine"), BlockStop(1)>>
Long == <<BlockStart(1, "text"), Delta(1, 1, FALSE, "fine"), Delta(1, 2, FALSE, "fine"),
          BlockStop(1)>>
Tool(whole) == <<BlockStart(1, "tool"), Delta(1, 1, whole, "fine")>>
Both == <<BlockStart(1, "text"), Delta(1, 1, FALSE, "fine"),
          BlockStart(2, "tool"), BlockStop(2)>>
Marred(text) == <<BlockStart(1, "text"), Delta(1, 1, FALSE, text)>>

Ended(u, body, reason) ==
  <<MessageStart(u)>> \o body \o <<MessageDelta(reason, Final), MessageStop>>

MessagesDef ==
  {Ended(InputAndOutput, Long, "stop"), Ended(InputAndOutput, Text, "odd"),
   Ended(WithCached, Text, "stop"), Ended(Final, Text, "stop"),
   Ended(InputAndOutput, <<Ping>>, "toolUse"),
   Ended(InputAndOutput, Both, "toolUse"),
   <<MessageStart(WithCached)>> \o Text \o <<MessageDelta("stop", <<>>), MessageStop>>,
   <<MessageStart(CachedOnly)>> \o Text \o <<MessageDelta("stop", <<>>), MessageStop>>,
   <<MessageStart(InputAndOutput)>> \o Text \o <<MessageStop>>,
   <<MessageStart(InputAndOutput), BlockStart(1, "text"), Error>>} \union
  {Ended(InputAndOutput, Tool(w), "toolUse") : w \in BOOLEAN} \union
  {Ended(InputAndOutput, Marred(t), "stop") : t \in {"binary", "excess"}}
=============================================================================
