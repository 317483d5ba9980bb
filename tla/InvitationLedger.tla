-------------------------- MODULE InvitationLedger --------------------------
(***************************************************************************)
(* What device enrollment promises, without the database, the transaction  *)
(* or the clock: an invitation is a one-shot ticket.  It is opened once    *)
(* with the authority its administrator approved; from open it either      *)
(* becomes void or is redeemed by exactly one caller, who is granted the   *)
(* approved authority; both outcomes are final.                            *)
(***************************************************************************)

CONSTANTS
  Tokens,   \* invitation tokens
  Calls,    \* redemption attempts; each one would mint a credential of its own
  Auths     \* authority an administrator can approve

VARIABLES
  ticket,   \* [Tokens -> {"unissued", "open", "void", "redeemed"}]
  approved, \* [Tokens -> SUBSET Auths]: the approved authority, once opened
  granted   \* set of <<call, token, authority>>: the credentials in existence

vars == <<ticket, approved, granted>>

Init ==
  /\ ticket   = [t \in Tokens |-> "unissued"]
  /\ approved = [t \in Tokens |-> {}]
  /\ granted  = {}

Open(t, a) ==
  /\ ticket[t] = "unissued"
  /\ ticket'   = [ticket EXCEPT ![t] = "open"]
  /\ approved' = [approved EXCEPT ![t] = {a}]
  /\ UNCHANGED granted

Void(t) ==
  /\ ticket[t] = "open"
  /\ ticket' = [ticket EXCEPT ![t] = "void"]
  /\ UNCHANGED <<approved, granted>>

Redeem(c, t) ==
  /\ ticket[t] = "open"
  /\ ticket' = [ticket EXCEPT ![t] = "redeemed"]
  /\ \E a \in approved[t] : granted' = granted \cup {<<c, t, a>>}
  /\ UNCHANGED approved

Next ==
  \E t \in Tokens :
    \/ \E a \in Auths : Open(t, a)
    \/ Void(t)
    \/ \E c \in Calls : Redeem(c, t)

Spec == Init /\ [][Next]_vars
=============================================================================
