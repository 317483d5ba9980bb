----------------------------- MODULE Enrollment -----------------------------
(***************************************************************************)
(* Device enrollment: an administrator invites a device against a scope    *)
(* template (an existing virtual key), the device redeems the invitation   *)
(* token once for a key of its own.                                        *)
(*                                                                         *)
(* State lives in SQLite.  A transaction whose first statement is a write  *)
(* takes the database's write lock and holds it to COMMIT or ROLLBACK, so  *)
(* other writers wait; readers do not.  The await points of the handlers   *)
(* separate the actions below.                                             *)
(***************************************************************************)
EXTENDS Integers, FiniteSets

CONSTANTS
  Tokens,         \* invitation tokens (a fresh one per invitation)
  Calls,          \* redeem_device calls; each generates a fresh key
  Templates,      \* virtual keys used as scope templates
  Auths,          \* what snapshot() serialises and an update can change
  TemplateExpiry, \* [Templates -> Nat]: expires_at, 0 for NULL
  ValidAfter,     \* [Templates -> Nat]: valid_after, 0 for NULL
  Capped,         \* templates with a rate limit, a budget or a window
  InviteTtls,     \* invitation_ttl_seconds of the requests
  DeviceTtls,     \* device_ttl_seconds of the requests
  MaxTime,        \* bound on the clock
  NoCall          \* "the write lock is free"

ASSUME EnrollmentAssumption ==
  /\ TemplateExpiry \in [Templates -> Nat]
  /\ ValidAfter \in [Templates -> Nat]
  /\ Capped \subseteq Templates
  /\ InviteTtls \subseteq Nat \ {0}
  /\ DeviceTtls \subseteq Nat \ {0}
  /\ MaxTime \in Nat
  /\ NoCall \notin Calls

VARIABLES
  now,        \* the wall clock, in seconds
  template,   \* rows of virtual_keys that are templates
  invitation, \* rows of device_enrollment_v1, by token
  draft,      \* invite_device calls between their SELECT and their INSERT
  call,       \* redeem_device calls: how far each has got
  claim,      \* the token each call past its first UPDATE holds
  device,     \* rows of virtual_keys that redemptions inserted, by call
  cache,      \* device keys in the process's cache and human-id index
  evicting,   \* disable_key calls between their UPDATE and cache.remove
  writer,     \* the call whose transaction holds the write lock
  revoked     \* history: tokens whose revocation was acknowledged

vars == <<now, template, invitation, draft, call, claim, device, cache,
          evicting, writer, revoked>>

InvitationRow == [template: Templates, auth: Auths, expires: Nat, ttl: Nat,
                  consumed: BOOLEAN]
TemplateRow   == [auth: Auths, disabled: BOOLEAN]
DeviceRow     == [token: Tokens, template: Templates, auth: Auths,
                  created: Nat, expires: Nat, disabled: BOOLEAN]
Stage         == {"idle", "claimed", "committed", "delivered", "failed",
                  "lost"}

\* f with x mapped to v, added to the domain if need be.
Put(f, x, v) == [y \in DOMAIN f \cup {x} |-> IF y = x THEN v ELSE f[y]]
Drop(f, x)   == [y \in DOMAIN f \ {x} |-> f[y]]

Eligible(k) ==
  /\ ~template[k].disabled
  /\ TemplateExpiry[k] = 0 \/ TemplateExpiry[k] > now
  /\ ValidAfter[k] <= now
  /\ k \notin Capped

\* Fault: the later of the two.
IssuedExpiryLatest(k, ttl) ==
  IF TemplateExpiry[k] > now + ttl THEN TemplateExpiry[k] ELSE now + ttl

\* The expiry of a key issued now: the requested ttl, clipped by the template.
IssuedExpiry(k, ttl) ==
  IF TemplateExpiry[k] # 0 /\ TemplateExpiry[k] < now + ttl
  THEN TemplateExpiry[k]
  ELSE now + ttl

Init ==
  /\ now = 0
  /\ template \in [Templates -> [auth: Auths, disabled: {FALSE}]]
  /\ invitation = [t \in {} |-> {}]
  /\ draft = [t \in {} |-> {}]
  /\ call = [c \in Calls |-> "idle"]
  /\ claim = [c \in {} |-> {}]
  /\ device = [c \in {} |-> {}]
  /\ cache = {}
  /\ evicting = {}
  /\ writer = NoCall
  /\ revoked = {}

Tick ==
  /\ now < MaxTime
  /\ now' = now + 1
  /\ UNCHANGED <<template, invitation, draft, call, claim, device, cache, evicting,
                 writer, revoked>>

-----------------------------------------------------------------------------
(* The administrator: invite_device reads the template, then inserts.      *)

InviteRead(t, k, ittl, dttl) ==
  /\ t \notin DOMAIN invitation
  /\ t \notin DOMAIN draft
  /\ Eligible(k)
  /\ draft' = Put(draft, t, [template |-> k, auth |-> template[k].auth,
                             expires |-> now + ittl, ttl |-> dttl,
                             consumed |-> FALSE])
  /\ UNCHANGED <<now, template, invitation, call, claim, device, cache, evicting,
                 writer, revoked>>

InviteInsert(t) ==
  /\ t \in DOMAIN draft
  /\ writer = NoCall
  /\ invitation' = Put(invitation, t, draft[t])
  /\ draft' = Drop(draft, t)
  /\ UNCHANGED <<now, template, call, claim, device, cache, evicting, writer, revoked>>

InviteFails(t) ==
  /\ t \in DOMAIN draft
  /\ draft' = Drop(draft, t)
  /\ UNCHANGED <<now, template, invitation, call, claim, device, cache, evicting,
                 writer, revoked>>

\* Fault: a revocation that slips past an open transaction.
RevokeUnserialized(t) ==
  /\ t \in DOMAIN invitation
  /\ invitation' = [invitation EXCEPT ![t].consumed = TRUE]
  /\ revoked' = revoked \cup {t}
  /\ UNCHANGED <<now, template, draft, call, claim, device, cache, evicting,
                 writer>>

\* An UPDATE that matches no row is acknowledged too and changes nothing.
Revoke(t) ==
  /\ t \in DOMAIN invitation
  /\ writer = NoCall
  /\ invitation' = [invitation EXCEPT ![t].consumed = TRUE]
  /\ revoked' = revoked \cup {t}
  /\ UNCHANGED <<now, template, draft, call, claim, device, cache, evicting, writer>>

\* update_owner and update_oauth_user: both columns are in the snapshot.
ChangeTemplate(k, a) ==
  /\ writer = NoCall
  /\ a # template[k].auth
  /\ template' = [template EXCEPT ![k].auth = a]
  /\ UNCHANGED <<now, invitation, draft, call, claim, device, cache, evicting, writer,
                 revoked>>

DisableTemplate(k) ==
  /\ writer = NoCall
  /\ ~template[k].disabled
  /\ template' = [template EXCEPT ![k].disabled = TRUE]
  /\ UNCHANGED <<now, invitation, draft, call, claim, device, cache, evicting, writer,
                 revoked>>

\* disable_key on an issued device key: the row first, the cache afterwards.
DisableDevice(c) ==
  /\ writer = NoCall
  /\ c \in DOMAIN device
  /\ ~device[c].disabled
  /\ device' = [device EXCEPT ![c].disabled = TRUE]
  /\ evicting' = evicting \cup {c}
  /\ UNCHANGED <<now, template, invitation, draft, call, claim, cache, writer, revoked>>

Evict(c) ==
  /\ c \in evicting
  /\ cache' = cache \ {c}
  /\ evicting' = evicting \ {c}
  /\ UNCHANGED <<now, template, invitation, draft, call, claim, device, writer, revoked>>

-----------------------------------------------------------------------------
(* The device: redeem_device, one transaction and then the publication.    *)

\* Fault: the UPDATE forgets "AND consumed=0".
RedeemableTwice(t) == t \in DOMAIN invitation /\ invitation[t].expires > now

\* The WHERE clause of the first UPDATE.
Redeemable(t) ==
  /\ t \in DOMAIN invitation
  /\ ~invitation[t].consumed
  /\ invitation[t].expires > now

\* Fault: a read opens the transaction, so two calls get past it.
ClaimByReading(c, t) ==
  /\ call[c] = "idle"
  /\ Redeemable(t)
  /\ writer' = c
  /\ call' = [call EXCEPT ![c] = "claimed"]
  /\ claim' = Put(claim, c, t)
  /\ UNCHANGED <<now, template, invitation, draft, device, cache, evicting,
                 revoked>>

\* BEGIN and the first UPDATE.  The claim is seen by others at COMMIT only.
Claim(c, t) ==
  /\ call[c] = "idle"
  /\ writer = NoCall
  /\ Redeemable(t)
  /\ writer' = c
  /\ call' = [call EXCEPT ![c] = "claimed"]
  /\ claim' = Put(claim, c, t)
  /\ UNCHANGED <<now, template, invitation, draft, device, cache, evicting,
                 revoked>>

\* Template re-read and compared, key row inserted, COMMIT.
Issue(c) ==
  LET t == claim[c]
      i == invitation[t]
  IN  /\ call[c] = "claimed"
      /\ Eligible(i.template)
      /\ template[i.template].auth = i.auth
      /\ invitation' = [invitation EXCEPT ![t].consumed = TRUE]
      /\ device' = Put(device, c, [token |-> t, template |-> i.template,
                                   auth |-> template[i.template].auth,
                                   created |-> now,
                                   expires |-> IssuedExpiry(i.template, i.ttl),
                                   disabled |-> FALSE])
      /\ call' = [call EXCEPT ![c] = "committed"]
      /\ writer' = NoCall
      /\ UNCHANGED <<now, template, draft, claim, cache, evicting, revoked>>

\* Fault: the claim is committed on its own, before the template is checked.
RollbackKeepsClaim(c) ==
  /\ call[c] = "claimed"
  /\ invitation' = [invitation EXCEPT ![claim[c]].consumed = TRUE]
  /\ call' = [call EXCEPT ![c] = "failed"]
  /\ writer' = NoCall
  /\ UNCHANGED <<now, template, draft, claim, device, cache, evicting, revoked>>

\* Every early return after BEGIN: an ineligible or changed template, or a
\* failed statement.  Dropping the transaction undoes the claim.
Rollback(c) ==
  /\ call[c] = "claimed"
  /\ call' = [call EXCEPT ![c] = "failed"]
  /\ writer' = NoCall
  /\ UNCHANGED <<now, template, invitation, draft, claim, device, cache, evicting,
                 revoked>>

\* Index and cache insertion, no await in between, then the answer.
Publish(c) ==
  /\ call[c] = "committed"
  /\ cache' = cache \cup {c}
  /\ call' = [call EXCEPT ![c] = "delivered"]
  /\ UNCHANGED <<now, template, invitation, draft, claim, device, evicting, writer,
                 revoked>>

-----------------------------------------------------------------------------

\* The process dies and restarts: open transactions roll back, calls in
\* flight get no answer, the cache is reloaded from the enabled rows.
Restart ==
  /\ call' = [c \in Calls |->
                CASE call[c] = "claimed"   -> "failed"
                  [] call[c] = "committed" -> "lost"
                  [] OTHER                 -> call[c]]
  /\ writer' = NoCall
  /\ draft' = [t \in {} |-> {}]
  /\ evicting' = {}
  /\ cache' = {c \in DOMAIN device : ~device[c].disabled}
  /\ UNCHANGED <<now, template, invitation, claim, device, revoked>>

Next ==
  \/ Tick
  \/ \E t \in Tokens, k \in Templates, i \in InviteTtls, d \in DeviceTtls :
       InviteRead(t, k, i, d)
  \/ \E t \in Tokens : InviteInsert(t) \/ InviteFails(t) \/ Revoke(t)
  \/ \E k \in Templates, a \in Auths : ChangeTemplate(k, a)
  \/ \E k \in Templates : DisableTemplate(k)
  \/ \E c \in Calls : DisableDevice(c) \/ Evict(c)
  \/ \E c \in Calls, t \in Tokens : Claim(c, t)
  \/ \E c \in Calls : Issue(c) \/ Rollback(c) \/ Publish(c)
  \/ Restart

Spec == Init /\ [][Next]_vars

-----------------------------------------------------------------------------
(* Properties.                                                             *)

\* Every variable has its type.
TypeOK ==
  /\ now \in Nat
  /\ template \in [Templates -> TemplateRow]
  /\ DOMAIN invitation \subseteq Tokens
  /\ invitation \in [DOMAIN invitation -> InvitationRow]
  /\ DOMAIN draft \subseteq Tokens
  /\ draft \in [DOMAIN draft -> InvitationRow]
  /\ call \in [Calls -> Stage]
  /\ DOMAIN claim \subseteq Calls
  /\ claim \in [DOMAIN claim -> Tokens]
  /\ DOMAIN device \subseteq Calls
  /\ device \in [DOMAIN device -> DeviceRow]
  /\ cache \subseteq Calls
  /\ evicting \subseteq Calls
  /\ writer \in Calls \cup {NoCall}
  /\ revoked \subseteq Tokens

\* However many callers race on a token, over restarts and rolled-back
\* attempts, it yields at most one key (redeem_device; README "once").
OneKeyPerInvitation ==
  \A c, d \in DOMAIN device : device[c].token = device[d].token => c = d

\* An issued key carries exactly what the administrator approved when the
\* invitation was made, although the template may have been rebound or disabled
\* while the invitation was outstanding.  Its life, counted from the redemption
\* and not from the invitation, ends with the approved device_ttl or with the
\* template, whichever is first (expires_at in redeem_device).
NeverBeyondApproval ==
  \A c \in DOMAIN device :
    LET d == device[c]
    IN  /\ d.token \in DOMAIN invitation
        /\ d.template = invitation[d.token].template
        /\ d.auth = invitation[d.token].auth
        /\ d.expires <= d.created + invitation[d.token].ttl
        /\ TemplateExpiry[d.template] # 0 => d.expires <= TemplateExpiry[d.template]
        /\ d.expires \in {d.created + invitation[d.token].ttl, TemplateExpiry[d.template]}

\* An invitation is spent by its one key or by a revocation, by nothing else:
\* a redemption that fails, or dies, between its claim and its COMMIT leaves
\* the invitation redeemable.
SpentOnlyByKeyOrRevocation ==
  \A t \in DOMAIN invitation :
    invitation[t].consumed =>
      t \in revoked \/ \E c \in DOMAIN device : device[c].token = t

\* Once a revocation is acknowledged no step issues a key for that token, not
\* even a redemption that had read the invitation before.
RevokedYieldsNoKey ==
  [][\A c \in DOMAIN device' \ DOMAIN device : device'[c].token \notin revoked]_vars

\* Enrollment implements the ledger of one-shot tickets.
Ticket(t) ==
  CASE t \notin DOMAIN invitation                      -> "unissued"
    [] t \in DOMAIN invitation /\ ~invitation[t].consumed -> "open"
    [] OTHER -> IF \E c \in DOMAIN device : device[c].token = t
                THEN "redeemed" ELSE "void"

Ledger == INSTANCE InvitationLedger WITH
  ticket   <- [t \in Tokens |-> Ticket(t)],
  approved <- [t \in Tokens |->
                 IF t \in DOMAIN invitation THEN {invitation[t].auth} ELSE {}],
  granted  <- {<<c, device[c].token, device[c].auth>> : c \in DOMAIN device}

ImplementsLedger == Ledger!Spec
=============================================================================
