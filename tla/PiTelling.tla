----------------------------- MODULE PiTelling -----------------------------
(***************************************************************************)
(* What a client of the Pi interface may rely on: it is told the message   *)
(* in order and from its beginning, and either all of it with its end or   *)
(* that something went wrong, and nothing after that.                      *)
(***************************************************************************)
EXTENDS UpstreamMessage

CONSTANT Messages
VARIABLES message, told
tellingVars == <<message, told>>

Over == told # <<>> /\ Last(told).type \in {"done", "error"}

Tell ==
  /\ ~Over /\ Len(told) < Len(Meaning(message))
  /\ told' = Append(told, Meaning(message)[Len(told) + 1])
  /\ UNCHANGED message

Fail ==
  /\ ~Over
  /\ told' = Append(told, [type |-> "error"])
  /\ UNCHANGED message

TellingInit == message \in Messages /\ told = <<>>
TellingSpec == TellingInit /\ [][Tell \/ Fail]_tellingVars
=============================================================================
