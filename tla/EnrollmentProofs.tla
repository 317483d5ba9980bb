-------------------------- MODULE EnrollmentProofs --------------------------
(***************************************************************************)
(* Theorems about Enrollment, for any sets of tokens, calls, templates and *)
(* authorities and any bound on the clock.                                 *)
(***************************************************************************)
EXTENDS Enrollment, TLAPS

\* A partial function from S to R is still one after Put adds an entry.
LEMMA PutType ==
  ASSUME NEW S, NEW R, NEW f, DOMAIN f \subseteq S, f \in [DOMAIN f -> R],
         NEW x \in S, NEW v \in R
  PROVE  /\ DOMAIN Put(f, x, v) \subseteq S
         /\ Put(f, x, v) \in [DOMAIN Put(f, x, v) -> R]
  BY DEF Put

\* The same after one entry is taken out.
LEMMA DropType ==
  ASSUME NEW S, NEW R, NEW f, DOMAIN f \subseteq S, f \in [DOMAIN f -> R], NEW x
  PROVE  /\ DOMAIN Drop(f, x) \subseteq S
         /\ Drop(f, x) \in [DOMAIN Drop(f, x) -> R]
  BY DEF Drop

\* The expiry of an issued key is a time: the earlier of the template's, if it
\* has one, and the approved one.
LEMMA IssuedExpiryFacts ==
  ASSUME now \in Nat, NEW k \in Templates, NEW ttl \in Nat
  PROVE  /\ IssuedExpiry(k, ttl) \in Nat
         /\ IssuedExpiry(k, ttl) <= now + ttl
         /\ TemplateExpiry[k] # 0 => IssuedExpiry(k, ttl) <= TemplateExpiry[k]
         /\ IssuedExpiry(k, ttl) \in {now + ttl, TemplateExpiry[k]}
  <1>1. TemplateExpiry[k] \in Nat
    BY EnrollmentAssumption
  <1>. QED
    BY <1>1 DEF IssuedExpiry

(***************************************************************************)
(* The inductive invariant.  The claims are what makes a transaction safe: *)
(* while a call is past its first UPDATE it holds the write lock, so the   *)
(* row it claimed is still unspent when it commits.                        *)
(***************************************************************************)
ClaimsHoldTheLock ==
  \A c \in Calls : call[c] = "claimed" =>
    /\ writer = c
    /\ c \in DOMAIN claim
    /\ claim[c] \in DOMAIN invitation
    /\ ~invitation[claim[c]].consumed

KeysAreSpentInvitations ==
  \A c \in DOMAIN device :
    /\ call[c] \in {"committed", "delivered", "lost"}
    /\ device[c].token \in DOMAIN invitation
    /\ invitation[device[c].token].consumed

RevokedAreSpent ==
  \A t \in revoked : t \in DOMAIN invitation /\ invitation[t].consumed

\* A token is random, hence new to the table when its row is inserted.
DraftsAreFresh ==
  DOMAIN draft \cap DOMAIN invitation = {}

IInv ==
  /\ TypeOK
  /\ DraftsAreFresh
  /\ ClaimsHoldTheLock
  /\ KeysAreSpentInvitations
  /\ RevokedAreSpent
  /\ NeverBeyondApproval
  /\ OneKeyPerInvitation

\* An empty ledger satisfies the invariant.
LEMMA InitIInv == Init => IInv
  <1>. SUFFICES ASSUME Init PROVE IInv
    OBVIOUS
  <1>. USE DEF Init
  <1>1. TypeOK
    BY EnrollmentAssumption DEF TypeOK, TemplateRow, Stage
  <1>2. DraftsAreFresh /\ ClaimsHoldTheLock /\ KeysAreSpentInvitations
        /\ RevokedAreSpent
    BY DEF DraftsAreFresh, ClaimsHoldTheLock, KeysAreSpentInvitations, RevokedAreSpent
  <1>3. NeverBeyondApproval /\ OneKeyPerInvitation
    BY DEF NeverBeyondApproval, OneKeyPerInvitation
  <1>. QED
    BY <1>1, <1>2, <1>3 DEF IInv

\* Every step keeps every variable in its type.
LEMMA TypeStep == IInv /\ [Next]_vars => TypeOK'
  <1>. SUFFICES ASSUME IInv, [Next]_vars PROVE TypeOK'
    OBVIOUS
  <1>. USE EnrollmentAssumption DEF IInv, TypeOK
  <1>1. CASE Tick
    BY <1>1 DEF Tick
  <1>2. ASSUME NEW t \in Tokens, NEW k \in Templates, NEW i \in InviteTtls,
               NEW d \in DeviceTtls, InviteRead(t, k, i, d)
        PROVE  TypeOK'
    <2>. DEFINE row == [template |-> k, auth |-> template[k].auth,
                        expires |-> now + i, ttl |-> d, consumed |-> FALSE]
    <2>1. row \in InvitationRow
      BY DEF InvitationRow, TemplateRow
    <2>2. draft' = Put(draft, t, row)
      BY <1>2 DEF InviteRead
    <2>. HIDE DEF row
    <2>3. DOMAIN draft' \subseteq Tokens /\ draft' \in [DOMAIN draft' -> InvitationRow]
      BY <2>1, <2>2, PutType
    <2>. QED
      BY <1>2, <2>3 DEF InviteRead
  <1>3. ASSUME NEW t \in Tokens, InviteInsert(t) PROVE TypeOK'
    <2>1. draft[t] \in InvitationRow
      BY <1>3 DEF InviteInsert
    <2>2. DOMAIN invitation' \subseteq Tokens
          /\ invitation' \in [DOMAIN invitation' -> InvitationRow]
      BY <1>3, <2>1, PutType DEF InviteInsert
    <2>3. DOMAIN draft' \subseteq Tokens /\ draft' \in [DOMAIN draft' -> InvitationRow]
      BY <1>3, DropType DEF InviteInsert
    <2>. QED
      BY <1>3, <2>2, <2>3 DEF InviteInsert
  <1>4. ASSUME NEW t \in Tokens, InviteFails(t) PROVE TypeOK'
    <2>1. DOMAIN draft' \subseteq Tokens /\ draft' \in [DOMAIN draft' -> InvitationRow]
      BY <1>4, DropType DEF InviteFails
    <2>. QED
      BY <1>4, <2>1 DEF InviteFails
  <1>5. ASSUME NEW t \in Tokens, Revoke(t) PROVE TypeOK'
    <2>1. /\ invitation' = [invitation EXCEPT ![t].consumed = TRUE]
          /\ invitation \in [DOMAIN invitation -> InvitationRow]
          /\ DOMAIN invitation \subseteq Tokens /\ t \in DOMAIN invitation
      BY <1>5 DEF Revoke
    <2>2. /\ DOMAIN invitation' \subseteq Tokens
          /\ invitation' \in [DOMAIN invitation' -> InvitationRow]
      BY ONLY <2>1 DEF InvitationRow
    <2>. QED
      BY <1>5, <2>2 DEF Revoke
  <1>6. ASSUME NEW k \in Templates, NEW a \in Auths, ChangeTemplate(k, a)
        PROVE  TypeOK'
    BY <1>6 DEF ChangeTemplate, TemplateRow
  <1>7. ASSUME NEW k \in Templates, DisableTemplate(k) PROVE TypeOK'
    BY <1>7 DEF DisableTemplate, TemplateRow
  <1>8. ASSUME NEW c \in Calls, DisableDevice(c) PROVE TypeOK'
    BY <1>8 DEF DisableDevice, DeviceRow
  <1>9. ASSUME NEW c \in Calls, Evict(c) PROVE TypeOK'
    BY <1>9 DEF Evict
  <1>10. ASSUME NEW c \in Calls, NEW t \in Tokens, Claim(c, t) PROVE TypeOK'
    <2>1. DOMAIN claim' \subseteq Calls /\ claim' \in [DOMAIN claim' -> Tokens]
      BY <1>10, PutType DEF Claim
    <2>. QED
      BY <1>10, <2>1 DEF Claim, Stage
  <1>11. ASSUME NEW c \in Calls, Issue(c) PROVE TypeOK'
    <2>. DEFINE t == claim[c]
                i == invitation[t]
                row == [token |-> t, template |-> i.template,
                        auth |-> template[i.template].auth,
                        created |-> now,
                        expires |-> IssuedExpiry(i.template, i.ttl),
                        disabled |-> FALSE]
    <2>1. t \in Tokens /\ t \in DOMAIN invitation /\ i \in InvitationRow
      BY <1>11 DEF Issue, ClaimsHoldTheLock
    <2>2. row \in DeviceRow
      BY <2>1, IssuedExpiryFacts DEF DeviceRow, InvitationRow, TemplateRow
    <2>3. device' = Put(device, c, row)
      BY <1>11 DEF Issue
    <2>. HIDE DEF row
    <2>4. DOMAIN device' \subseteq Calls /\ device' \in [DOMAIN device' -> DeviceRow]
      BY <2>2, <2>3, PutType
    <2>5. DOMAIN invitation' \subseteq Tokens
          /\ invitation' \in [DOMAIN invitation' -> InvitationRow]
      BY <1>11, <2>1 DEF Issue, InvitationRow
    <2>. QED
      BY <1>11, <2>4, <2>5 DEF Issue, Stage
  <1>12. ASSUME NEW c \in Calls, Rollback(c) PROVE TypeOK'
    BY <1>12 DEF Rollback, Stage
  <1>13. ASSUME NEW c \in Calls, Publish(c) PROVE TypeOK'
    BY <1>13 DEF Publish, Stage
  <1>14. CASE Restart
    BY <1>14 DEF Restart, Stage
  <1>15. CASE UNCHANGED vars
    BY <1>15 DEF vars
  <1>. QED
    BY <1>1, <1>2, <1>3, <1>4, <1>5, <1>6, <1>7, <1>8, <1>9, <1>10, <1>11,
       <1>12, <1>13, <1>14, <1>15 DEF Next

\* Every other conjunct is preserved by every step.
LEMMA InvStep == IInv /\ [Next]_vars => IInv'
  <1>. SUFFICES ASSUME IInv, [Next]_vars PROVE IInv'
    OBVIOUS
  <1>0. TypeOK'
    BY TypeStep
  <1>. DEFINE Rest == /\ DraftsAreFresh
                      /\ ClaimsHoldTheLock
                      /\ KeysAreSpentInvitations
                      /\ RevokedAreSpent
                      /\ NeverBeyondApproval
                      /\ OneKeyPerInvitation
  <1>. USE EnrollmentAssumption
       DEF IInv, TypeOK, DraftsAreFresh, ClaimsHoldTheLock, KeysAreSpentInvitations,
           RevokedAreSpent, NeverBeyondApproval, OneKeyPerInvitation
  <1>1. CASE Tick
    BY <1>1 DEF Tick
  <1>2. ASSUME NEW t \in Tokens, NEW k \in Templates, NEW i \in InviteTtls,
               NEW d \in DeviceTtls, InviteRead(t, k, i, d)
        PROVE  Rest'
    BY <1>2 DEF InviteRead, Put
  <1>3. ASSUME NEW t \in Tokens, InviteInsert(t) PROVE Rest'
    <2>1. \A u \in DOMAIN invitation : invitation'[u] = invitation[u]
      BY <1>3 DEF InviteInsert, Put
    <2>2. DOMAIN invitation \subseteq DOMAIN invitation'
      BY <1>3 DEF InviteInsert, Put
    <2>3. DraftsAreFresh'
      BY <1>3 DEF InviteInsert, Put, Drop
    <2>. QED
      BY <1>3, <2>1, <2>2, <2>3 DEF InviteInsert
  <1>4. ASSUME NEW t \in Tokens, InviteFails(t) PROVE Rest'
    BY <1>4 DEF InviteFails, Drop
  <1>5. ASSUME NEW t \in Tokens, Revoke(t) PROVE Rest'
    <2>1. \A c \in Calls : call[c] # "claimed"
      BY <1>5 DEF Revoke
    <2>2. DOMAIN invitation' = DOMAIN invitation
          /\ \A u \in DOMAIN invitation :
               /\ invitation'[u].template = invitation[u].template
               /\ invitation'[u].auth = invitation[u].auth
               /\ invitation'[u].ttl = invitation[u].ttl
               /\ invitation[u].consumed => invitation'[u].consumed
          /\ invitation'[t].consumed
      BY <1>5 DEF Revoke, InvitationRow
    <2>3. UNCHANGED <<call, device>> /\ revoked' = revoked \cup {t}
      BY <1>5 DEF Revoke
    <2>4. ClaimsHoldTheLock'
      BY <2>1, <2>3
    <2>5. KeysAreSpentInvitations' /\ RevokedAreSpent'
      BY <2>2, <2>3, <1>5 DEF Revoke
    <2>6. NeverBeyondApproval' /\ OneKeyPerInvitation'
      BY ONLY <2>2, <2>3, NeverBeyondApproval, OneKeyPerInvitation
         DEF NeverBeyondApproval, OneKeyPerInvitation
    <2>7. DraftsAreFresh'
      BY <2>2, <1>5 DEF Revoke
    <2>. QED
      BY <2>4, <2>5, <2>6, <2>7
  <1>6. ASSUME NEW k \in Templates, NEW a \in Auths, ChangeTemplate(k, a)
        PROVE  Rest'
    BY <1>6 DEF ChangeTemplate
  <1>7. ASSUME NEW k \in Templates, DisableTemplate(k) PROVE Rest'
    BY <1>7 DEF DisableTemplate
  <1>8. ASSUME NEW c \in Calls, DisableDevice(c) PROVE Rest'
    <2>1. DOMAIN device' = DOMAIN device
          /\ \A d \in DOMAIN device :
               /\ device'[d].token = device[d].token
               /\ device'[d].template = device[d].template
               /\ device'[d].auth = device[d].auth
               /\ device'[d].created = device[d].created
               /\ device'[d].expires = device[d].expires
      BY <1>8 DEF DisableDevice, DeviceRow
    <2>. QED
      BY <1>8, <2>1 DEF DisableDevice
  <1>9. ASSUME NEW c \in Calls, Evict(c) PROVE Rest'
    BY <1>9 DEF Evict
  <1>10. ASSUME NEW c \in Calls, NEW t \in Tokens, Claim(c, t) PROVE Rest'
    <2>1. c \in DOMAIN claim' /\ claim'[c] = t
      BY <1>10 DEF Claim, Put
    <2>2. \A d \in Calls : call'[d] = "claimed" => d = c
      BY <1>10 DEF Claim
    <2>3. c \notin DOMAIN device
      BY <1>10 DEF Claim
    <2>. QED
      BY <1>10, <2>1, <2>2, <2>3 DEF Claim, Redeemable
  <1>11. ASSUME NEW c \in Calls, Issue(c) PROVE Rest'
    <2>. DEFINE t == claim[c]
                i == invitation[t]
    <2>1. /\ t \in Tokens /\ t \in DOMAIN invitation /\ i \in InvitationRow
          /\ ~i.consumed /\ writer = c
      BY <1>11 DEF Issue
    <2>2. c \notin DOMAIN device
      BY <1>11 DEF Issue
    <2>3. DOMAIN device' = DOMAIN device \cup {c}
          /\ \A d \in DOMAIN device : device'[d] = device[d]
      BY <1>11, <2>2 DEF Issue, Put
    <2>4. /\ device'[c].token = t
          /\ device'[c].template = i.template
          /\ device'[c].auth = i.auth
          /\ device'[c].created = now
          /\ device'[c].expires = IssuedExpiry(i.template, i.ttl)
      BY <1>11 DEF Issue, Put
    <2>5. DOMAIN invitation' = DOMAIN invitation
          /\ \A u \in DOMAIN invitation :
               /\ invitation'[u].template = invitation[u].template
               /\ invitation'[u].auth = invitation[u].auth
               /\ invitation'[u].ttl = invitation[u].ttl
               /\ invitation[u].consumed => invitation'[u].consumed
          /\ invitation'[t].consumed
      BY <1>11, <2>1 DEF Issue, InvitationRow
    <2>6. call' = [call EXCEPT ![c] = "committed"] /\ revoked' = revoked
      BY <1>11 DEF Issue
    <2>7. ClaimsHoldTheLock'
      BY <2>1, <2>6
    <2>8. KeysAreSpentInvitations' /\ RevokedAreSpent'
      BY <2>1, <2>3, <2>4, <2>5, <2>6
    <2>9. /\ IssuedExpiry(i.template, i.ttl) <= now + i.ttl
          /\ (TemplateExpiry[i.template] # 0 =>
                IssuedExpiry(i.template, i.ttl) <= TemplateExpiry[i.template])
          /\ IssuedExpiry(i.template, i.ttl) \in {now + i.ttl, TemplateExpiry[i.template]}
      BY <2>1, IssuedExpiryFacts DEF InvitationRow
    <2>10. NeverBeyondApproval'
      <3>. SUFFICES ASSUME NEW d \in DOMAIN device'
                    PROVE  (/\ device[d].token \in DOMAIN invitation
                            /\ device[d].template = invitation[device[d].token].template
                            /\ device[d].auth = invitation[device[d].token].auth
                            /\ device[d].expires <=
                                 device[d].created + invitation[device[d].token].ttl
                            /\ device[d].expires \in
                                 {device[d].created + invitation[device[d].token].ttl,
                                  TemplateExpiry[device[d].template]}
                            /\ TemplateExpiry[device[d].template] # 0 =>
                                 device[d].expires <= TemplateExpiry[device[d].template])'
        OBVIOUS
      <3>1. CASE d = c
        BY <3>1, <2>1, <2>4, <2>5, <2>9
      <3>2. CASE d \in DOMAIN device
        BY <3>2, <2>3, <2>5
      <3>. QED
        BY <3>1, <3>2, <2>3
    <2>11. OneKeyPerInvitation'
      <3>1. \A d \in DOMAIN device : device[d].token # t
        BY <2>1
      <3>. QED
        BY <3>1, <2>3, <2>4
    <2>12. DraftsAreFresh'
      BY <2>5, <1>11 DEF Issue
    <2>. QED
      BY <2>7, <2>8, <2>10, <2>11, <2>12
  <1>12. ASSUME NEW c \in Calls, Rollback(c) PROVE Rest'
    BY <1>12 DEF Rollback
  <1>13. ASSUME NEW c \in Calls, Publish(c) PROVE Rest'
    BY <1>13 DEF Publish
  <1>14. ASSUME Restart PROVE Rest'
    <2>1. \A d \in Calls : call'[d] # "claimed"
      BY <1>14 DEF Restart, Stage
    <2>2. \A d \in Calls : call[d] \in {"committed", "delivered", "lost"} =>
                           call'[d] \in {"committed", "delivered", "lost"}
      BY <1>14 DEF Restart, Stage
    <2>3. UNCHANGED <<invitation, device, revoked>> /\ DOMAIN draft' = {}
      BY <1>14 DEF Restart
    <2>4. DraftsAreFresh' /\ ClaimsHoldTheLock' /\ RevokedAreSpent'
      BY <2>1, <2>3
    <2>5. KeysAreSpentInvitations'
      <3>1. DOMAIN device \subseteq Calls
        OBVIOUS
      <3>. QED
        BY ONLY <3>1, <2>2, <2>3, KeysAreSpentInvitations
           DEF KeysAreSpentInvitations
    <2>6. NeverBeyondApproval' /\ OneKeyPerInvitation'
      BY ONLY <2>3, NeverBeyondApproval, OneKeyPerInvitation
         DEF NeverBeyondApproval, OneKeyPerInvitation
    <2>. QED
      BY <2>4, <2>5, <2>6
  <1>15. CASE UNCHANGED vars
    BY <1>15 DEF vars
  <1>. QED
    BY <1>0, <1>1, <1>2, <1>3, <1>4, <1>5, <1>6, <1>7, <1>8, <1>9, <1>10,
       <1>11, <1>12, <1>13, <1>14, <1>15 DEF Next

-----------------------------------------------------------------------------
(* The results.                                                            *)

\* The inductive invariant holds throughout.
THEOREM Invariance == Spec => []IInv
  <1>1. Init => IInv
    BY InitIInv
  <1>2. IInv /\ [Next]_vars => IInv'
    BY InvStep
  <1>. QED
    BY <1>1, <1>2, PTL DEF Spec

\* Every variable of redeem_device and its neighbours keeps its type.
THEOREM TypeCorrect == Spec => []TypeOK
  BY Invariance, PTL DEF IInv

\* However many callers, restarts and rollbacks: one key per invitation.
THEOREM OneKey == Spec => []OneKeyPerInvitation
  BY Invariance, PTL DEF IInv

\* A key carries what was approved and ends at the earlier of the approved
\* device_ttl, counted from the redemption, and its template's expiry.
THEOREM WithinApproval == Spec => []NeverBeyondApproval
  BY Invariance, PTL DEF IInv

\* No key is issued for a token whose revocation was acknowledged: such a
\* token is spent, and a redemption in progress holds an unspent one.
THEOREM RevocationIsFinal == Spec => RevokedYieldsNoKey
  <1>. DEFINE A == \A c \in DOMAIN device' \ DOMAIN device :
                     device'[c].token \notin revoked
  <1>1. ASSUME IInv, [Next]_vars PROVE [A]_vars
    <2>. USE <1>1
    <2>1. ASSUME NEW c \in Calls, Issue(c) PROVE A
      <3>1. claim[c] \notin revoked
        BY <2>1 DEF Issue, IInv, ClaimsHoldTheLock, RevokedAreSpent
      <3>2. \A d \in DOMAIN device' \ DOMAIN device : device'[d].token = claim[c]
        BY <2>1 DEF Issue, Put
      <3>. QED
        BY <3>1, <3>2
    <2>2. ASSUME DOMAIN device' = DOMAIN device PROVE A
      BY <2>2
    <2>3. ASSUME Next, \A c \in Calls : ~Issue(c)
          PROVE  DOMAIN device' = DOMAIN device
      BY <2>3 DEF Next, Tick, InviteRead, InviteInsert, InviteFails, Revoke,
                  ChangeTemplate, DisableTemplate, DisableDevice, Evict, Claim,
                  Rollback, Publish, Restart
    <2>. QED
      BY <2>1, <2>2, <2>3
  <1>. QED
    BY <1>1, Invariance, PTL DEF Spec, RevokedYieldsNoKey
-----------------------------------------------------------------------------
(* Spent invitations, and the ledger of one-shot tickets.                  *)

\* A row is inserted unspent.
DraftsAreUnspent == \A t \in DOMAIN draft : ~draft[t].consumed

SpentInv == DraftsAreUnspent /\ SpentOnlyByKeyOrRevocation

\* What a step does to the drafts and to the invitations, unless it is one of
\* the four that insert, revoke, issue or draft.
LEMMA Bystanders ==
  ASSUME IInv, [Next]_vars,
         \A t \in Tokens : ~InviteInsert(t) /\ ~Revoke(t),
         \A c \in Calls : ~Issue(c)
  PROVE  /\ UNCHANGED <<invitation, revoked>>
         /\ DOMAIN device' = DOMAIN device
         /\ \A c \in DOMAIN device : /\ device'[c].token = device[c].token
                                     /\ device'[c].auth = device[c].auth
  <1>1. CASE \E c \in Calls : DisableDevice(c)
    BY <1>1 DEF DisableDevice, IInv, TypeOK, DeviceRow
  <1>2. CASE UNCHANGED <<invitation, revoked, device>>
    BY <1>2
  <1>3. CASE \/ Tick \/ Restart \/ UNCHANGED vars
             \/ \E t \in Tokens : InviteFails(t)
             \/ \E t \in Tokens, k \in Templates, i \in InviteTtls, d \in DeviceTtls :
                  InviteRead(t, k, i, d)
             \/ \E k \in Templates, a \in Auths : ChangeTemplate(k, a)
             \/ \E k \in Templates : DisableTemplate(k)
             \/ \E c \in Calls, t \in Tokens : Claim(c, t)
             \/ \E c \in Calls : Evict(c) \/ Rollback(c) \/ Publish(c)
    <2>1. UNCHANGED <<invitation, revoked, device>>
      BY <1>3 DEF vars, Tick, Restart, InviteFails, InviteRead, ChangeTemplate,
                  DisableTemplate, Evict, Claim, Rollback, Publish
    <2>. QED
      BY <2>1
  <1>. QED
    BY <1>1, <1>3 DEF Next

\* Drafts stay unspent.
LEMMA DraftStep ==
  ASSUME DraftsAreUnspent, [Next]_vars
  PROVE  DraftsAreUnspent'
  <1>1. ASSUME NEW t \in Tokens, NEW k \in Templates, NEW i \in InviteTtls,
               NEW d \in DeviceTtls, InviteRead(t, k, i, d)
        PROVE  DraftsAreUnspent'
    BY <1>1 DEF DraftsAreUnspent, InviteRead, Put
  <1>2. ASSUME NEW t \in Tokens, InviteInsert(t) \/ InviteFails(t)
        PROVE  DraftsAreUnspent'
    BY <1>2 DEF DraftsAreUnspent, InviteInsert, InviteFails, Drop
  <1>3. CASE Restart
    BY <1>3 DEF DraftsAreUnspent, Restart
  <1>4. CASE UNCHANGED draft
    BY <1>4 DEF DraftsAreUnspent
  <1>5. CASE \/ Tick \/ UNCHANGED vars
             \/ \E t \in Tokens : Revoke(t)
             \/ \E k \in Templates, a \in Auths : ChangeTemplate(k, a)
             \/ \E k \in Templates : DisableTemplate(k)
             \/ \E c \in Calls, t \in Tokens : Claim(c, t)
             \/ \E c \in Calls : DisableDevice(c) \/ Evict(c) \/ Issue(c) \/ Rollback(c)
                                 \/ Publish(c)
    BY <1>4, <1>5 DEF vars, Tick, Revoke, ChangeTemplate, DisableTemplate, Claim,
                      DisableDevice, Evict, Issue, Rollback, Publish
  <1>. QED
    BY <1>1, <1>2, <1>3, <1>5 DEF Next

\* What a COMMIT does to the two tables.
LEMMA IssueFacts ==
  ASSUME IInv, NEW c \in Calls, Issue(c)
  PROVE  /\ claim[c] \in DOMAIN invitation /\ claim[c] \in Tokens
         /\ ~invitation[claim[c]].consumed
         /\ c \notin DOMAIN device
         /\ DOMAIN invitation' = DOMAIN invitation
         /\ \A u \in DOMAIN invitation :
              /\ invitation'[u].auth = invitation[u].auth
              /\ invitation'[u].consumed = (invitation[u].consumed \/ u = claim[c])
         /\ DOMAIN device' = DOMAIN device \union {c}
         /\ \A d \in DOMAIN device : device'[d] = device[d]
         /\ device'[c].token = claim[c]
         /\ device'[c].auth = invitation[claim[c]].auth
  <1>. USE DEF IInv
  <1>1. /\ claim[c] \in DOMAIN invitation /\ claim[c] \in Tokens
        /\ ~invitation[claim[c]].consumed /\ c \notin DOMAIN device
    BY DEF Issue, TypeOK, ClaimsHoldTheLock, KeysAreSpentInvitations
  <1>2. /\ DOMAIN device' = DOMAIN device \union {c}
        /\ \A d \in DOMAIN device : device'[d] = device[d]
        /\ device'[c].token = claim[c]
        /\ device'[c].auth = invitation[claim[c]].auth
    BY <1>1 DEF Issue, Put
  <1>3. /\ invitation' = [invitation EXCEPT ![claim[c]].consumed = TRUE]
        /\ \A u \in DOMAIN invitation : invitation[u] \in InvitationRow
    BY DEF Issue, TypeOK
  <1>. QED
    BY <1>1, <1>2, <1>3 DEF InvitationRow

\* What a revocation does to the invitations.
LEMMA RevokeFacts ==
  ASSUME IInv, NEW t \in Tokens, Revoke(t)
  PROVE  /\ t \in DOMAIN invitation /\ revoked' = revoked \union {t}
         /\ device' = device
         /\ DOMAIN invitation' = DOMAIN invitation
         /\ \A u \in DOMAIN invitation :
              /\ invitation'[u].auth = invitation[u].auth
              /\ invitation'[u].consumed = (invitation[u].consumed \/ u = t)
  <1>1. /\ invitation' = [invitation EXCEPT ![t].consumed = TRUE]
        /\ \A u \in DOMAIN invitation : invitation[u] \in InvitationRow
    BY DEF IInv, Revoke, TypeOK
  <1>2. \A u \in DOMAIN invitation :
          /\ invitation'[u].auth = invitation[u].auth
          /\ invitation'[u].consumed = (invitation[u].consumed \/ u = t)
    BY ONLY <1>1 DEF InvitationRow
  <1>3. t \in DOMAIN invitation /\ revoked' = revoked \union {t} /\ device' = device
    BY DEF Revoke
  <1>. QED
    BY ONLY <1>1, <1>2, <1>3

\* What an INSERT does to them.
LEMMA InsertFacts ==
  ASSUME IInv, DraftsAreUnspent, NEW t \in Tokens, InviteInsert(t)
  PROVE  /\ t \notin DOMAIN invitation
         /\ DOMAIN invitation' = DOMAIN invitation \union {t}
         /\ \A u \in DOMAIN invitation : invitation'[u] = invitation[u]
         /\ ~invitation'[t].consumed /\ invitation'[t].auth \in Auths
         /\ UNCHANGED <<device, revoked>>
  <1>1. t \in DOMAIN draft /\ t \notin DOMAIN invitation /\ ~draft[t].consumed
        /\ draft[t] \in InvitationRow
    BY DEF IInv, TypeOK, DraftsAreFresh, DraftsAreUnspent, InviteInsert
  <1>2. invitation' = Put(invitation, t, draft[t]) /\ UNCHANGED <<device, revoked>>
    BY DEF InviteInsert
  <1>. QED
    BY <1>1, <1>2 DEF Put, InvitationRow

\* A spent row has its key or its revocation, after every step too.
LEMMA SpentStep ==
  ASSUME IInv, SpentInv, [Next]_vars
  PROVE  SpentInv'
  <1>. USE DEF SpentInv
  <1>1. ASSUME NEW t \in Tokens, InviteInsert(t) PROVE SpentOnlyByKeyOrRevocation'
    BY <1>1, InsertFacts DEF SpentOnlyByKeyOrRevocation
  <1>2. ASSUME NEW t \in Tokens, Revoke(t) PROVE SpentOnlyByKeyOrRevocation'
    <2>1. /\ revoked' = revoked \union {t} /\ device' = device
          /\ DOMAIN invitation' = DOMAIN invitation
          /\ \A u \in DOMAIN invitation :
               invitation'[u].consumed = (invitation[u].consumed \/ u = t)
      BY <1>2, RevokeFacts
    <2>. QED
      BY ONLY <2>1, SpentOnlyByKeyOrRevocation DEF SpentOnlyByKeyOrRevocation
  <1>3. ASSUME NEW c \in Calls, Issue(c) PROVE SpentOnlyByKeyOrRevocation'
    <2>1. revoked' = revoked
      BY <1>3 DEF Issue
    <2>. SUFFICES ASSUME NEW u \in DOMAIN invitation, invitation'[u].consumed
                  PROVE  u \in revoked \/ \E d \in DOMAIN device' : device'[d].token = u
      BY <1>3, <2>1, IssueFacts DEF SpentOnlyByKeyOrRevocation
    <2>2. CASE u = claim[c]
      <3>1. c \in DOMAIN device' /\ device'[c].token = claim[c]
        BY <1>3, IssueFacts
      <3>. QED
        BY ONLY <2>2, <3>1
    <2>3. CASE invitation[u].consumed
      <3>1. u \in revoked \/ \E d \in DOMAIN device : device[d].token = u
        BY <2>3 DEF SpentOnlyByKeyOrRevocation
      <3>2. \A d \in DOMAIN device : d \in DOMAIN device' /\ device'[d] = device[d]
        BY <1>3, IssueFacts
      <3>. QED
        BY ONLY <2>1, <3>1, <3>2
    <2>. QED
      BY <1>3, <2>2, <2>3, IssueFacts
  <1>4. ASSUME \A t \in Tokens : ~InviteInsert(t) /\ ~Revoke(t),
               \A c \in Calls : ~Issue(c)
        PROVE  SpentOnlyByKeyOrRevocation'
    BY <1>4, Bystanders DEF SpentOnlyByKeyOrRevocation
  <1>. QED
    BY <1>1, <1>2, <1>3, <1>4, DraftStep

\* It holds throughout.
LEMMA SpentInvariance == Spec => [](IInv /\ SpentInv)
  <1>1. Init => SpentInv
    BY DEF Init, SpentInv, DraftsAreUnspent, SpentOnlyByKeyOrRevocation
  <1>2. IInv /\ SpentInv /\ [Next]_vars => SpentInv'
    BY SpentStep
  <1>. QED
    BY <1>1, <1>2, Invariance, PTL DEF Spec

\* A redemption that fails, is rolled back or dies does not burn its
\* invitation (redeem_device's transaction): what is spent has its key, or was
\* revoked.
THEOREM NothingElseSpends == Spec => []SpentOnlyByKeyOrRevocation
  BY SpentInvariance, PTL DEF SpentInv

\* Where a token's ticket stands, from its row and the keys that refer to it.
LEMMA TicketFacts ==
  ASSUME IInv, NEW t \in Tokens
  PROVE  /\ t \notin DOMAIN invitation => Ticket(t) = "unissued"
         /\ t \in DOMAIN invitation /\ ~invitation[t].consumed => Ticket(t) = "open"
         /\ t \in DOMAIN invitation /\ invitation[t].consumed =>
              Ticket(t) = IF \E c \in DOMAIN device : device[c].token = t
                          THEN "redeemed" ELSE "void"
  BY DEF Ticket

\* The same, after a step.
LEMMA TicketFactsAfter ==
  ASSUME IInv', NEW t \in Tokens
  PROVE  /\ t \notin DOMAIN invitation' => Ticket(t)' = "unissued"
         /\ t \in DOMAIN invitation' /\ ~invitation'[t].consumed => Ticket(t)' = "open"
         /\ t \in DOMAIN invitation' /\ invitation'[t].consumed =>
              Ticket(t)' = IF \E c \in DOMAIN device' : device'[c].token = t
                           THEN "redeemed" ELSE "void"
  BY DEF Ticket

\* What the ledger sees of the tables: tickets, approvals, credentials.
Tickets   == [t \in Tokens |-> Ticket(t)]
Approvals == [t \in Tokens |->
                IF t \in DOMAIN invitation THEN {invitation[t].auth} ELSE {}]
Grants    == {<<c, device[c].token, device[c].auth>> : c \in DOMAIN device}

\* The first state is an empty ledger.
LEMMA LedgerInit == Init => Ledger!Init
  <1>. SUFFICES ASSUME Init PROVE Ledger!Init
    OBVIOUS
  <1>1. DOMAIN invitation = {} /\ DOMAIN device = {}
    BY DEF Init
  <1>2. \A t \in Tokens : Ticket(t) = "unissued"
    BY <1>1 DEF Ticket
  <1>. QED
    BY <1>1, <1>2 DEF Ledger!Init

\* A step that keeps the rows' tokens, authorities and consumption is none of
\* the ledger's.
LEMMA LedgerStutter ==
  ASSUME UNCHANGED invitation, DOMAIN device' = DOMAIN device,
         \A c \in DOMAIN device : /\ device'[c].token = device[c].token
                                  /\ device'[c].auth = device[c].auth
  PROVE  UNCHANGED Ledger!vars
  <1>1. \A t \in Tokens : Ticket(t)' = Ticket(t)
    BY DEF Ticket
  <1>2. UNCHANGED Tickets /\ UNCHANGED Approvals /\ UNCHANGED Grants
    BY <1>1 DEF Tickets, Approvals, Grants
  <1>. QED
    BY <1>2 DEF Ledger!vars, Tickets, Approvals, Grants

\* An INSERT opens a ticket.
LEMMA InsertOpens ==
  ASSUME IInv, IInv', SpentInv, NEW t \in Tokens, InviteInsert(t)
  PROVE  \E a \in Auths : Ledger!Open(t, a)
  <1>. DEFINE a == invitation'[t].auth
  <1>1. /\ t \notin DOMAIN invitation /\ DOMAIN invitation' = DOMAIN invitation \union {t}
        /\ \A u \in DOMAIN invitation : invitation'[u] = invitation[u]
        /\ ~invitation'[t].consumed /\ a \in Auths /\ UNCHANGED device
    BY InsertFacts DEF SpentInv
  <1>2. Ticket(t) = "unissued" /\ Ticket(t)' = "open"
    BY <1>1, TicketFacts, TicketFactsAfter
  <1>3. \A u \in Tokens \ {t} : Ticket(u)' = Ticket(u)
    BY <1>1 DEF Ticket
  <1>4. Tickets' = [Tickets EXCEPT ![t] = "open"]
    BY <1>2, <1>3 DEF Tickets
  <1>5. Approvals' = [Approvals EXCEPT ![t] = {a}]
    BY <1>1 DEF Approvals
  <1>6. Grants' = Grants /\ Tickets[t] = "unissued"
    BY <1>1, <1>2 DEF Grants, Tickets
  <1>. QED
    BY <1>1, <1>4, <1>5, <1>6 DEF Ledger!Open, Tickets, Approvals, Grants

\* A revocation voids an open ticket; one that matches no row does nothing.
LEMMA RevokeVoids ==
  ASSUME IInv, IInv', NEW t \in Tokens, Revoke(t)
  PROVE  Ledger!Void(t) \/ UNCHANGED Ledger!vars
  <1>1. /\ t \in DOMAIN invitation /\ UNCHANGED device
        /\ DOMAIN invitation' = DOMAIN invitation
        /\ \A u \in DOMAIN invitation :
             /\ invitation'[u].auth = invitation[u].auth
             /\ invitation'[u].consumed = (invitation[u].consumed \/ u = t)
        /\ invitation[t].consumed \in BOOLEAN
    BY RevokeFacts DEF IInv, TypeOK, InvitationRow
  <1>2. Approvals' = Approvals /\ Grants' = Grants
    BY <1>1 DEF Approvals, Grants
  <1>3. \A u \in Tokens \ {t} : Ticket(u)' = Ticket(u)
    <2>. SUFFICES ASSUME NEW u \in Tokens \ {t} PROVE Ticket(u)' = Ticket(u)
      OBVIOUS
    <2>1. u \in DOMAIN invitation => invitation[u].consumed \in BOOLEAN
      BY DEF IInv, TypeOK, InvitationRow
    <2>2. (u \in DOMAIN invitation' <=> u \in DOMAIN invitation)
          /\ (u \in DOMAIN invitation => (invitation'[u].consumed <=> invitation[u].consumed))
      BY <1>1, <2>1
    <2>. QED
      BY <1>1, <2>2 DEF Ticket
  <1>4. CASE invitation[t].consumed
    <2>1. Ticket(t)' = Ticket(t)
      BY <1>1, <1>4 DEF Ticket
    <2>2. Tickets' = Tickets
      BY <1>3, <2>1 DEF Tickets
    <2>. QED
      BY <1>2, <2>2 DEF Ledger!vars, Tickets, Approvals, Grants
  <1>5. CASE ~invitation[t].consumed
    <2>1. \A c \in DOMAIN device : device[c].token # t
      BY <1>5 DEF IInv, KeysAreSpentInvitations
    <2>2. Ticket(t) = "open" /\ Ticket(t)' = "void"
      BY <1>1, <1>5, <2>1, TicketFacts, TicketFactsAfter
    <2>3. Tickets' = [Tickets EXCEPT ![t] = "void"] /\ Tickets[t] = "open"
      BY <1>3, <2>2 DEF Tickets
    <2>. QED
      BY <1>2, <2>3 DEF Ledger!Void, Tickets, Approvals, Grants
  <1>. QED
    BY <1>1, <1>4, <1>5

\* A COMMIT redeems the ticket of its claim.
LEMMA IssueRedeems ==
  ASSUME IInv, IInv', NEW c \in Calls, Issue(c)
  PROVE  \E t \in Tokens : Ledger!Redeem(c, t)
  <1>0. PICK t : t = claim[c]
    OBVIOUS
  <1>a. PICK a : a = invitation[t].auth
    OBVIOUS
  <1>1. /\ t \in DOMAIN invitation /\ t \in Tokens /\ ~invitation[t].consumed
        /\ c \notin DOMAIN device /\ DOMAIN invitation' = DOMAIN invitation
        /\ \A u \in DOMAIN invitation :
             /\ invitation'[u].auth = invitation[u].auth
             /\ invitation'[u].consumed = (invitation[u].consumed \/ u = t)
        /\ DOMAIN device' = DOMAIN device \union {c}
        /\ \A d \in DOMAIN device : device'[d] = device[d]
        /\ device'[c].token = t /\ device'[c].auth = a
    BY <1>0, <1>a, IssueFacts
  <1>2. Ticket(t) = "open" /\ Ticket(t)' = "redeemed"
    <2>1. invitation'[t].consumed
      BY <1>1
    <2>. QED
      BY <1>1, <2>1, TicketFacts, TicketFactsAfter
  <1>3. \A u \in Tokens \ {t} : Ticket(u)' = Ticket(u)
    <2>. SUFFICES ASSUME NEW u \in Tokens \ {t} PROVE Ticket(u)' = Ticket(u)
      OBVIOUS
    <2>1. u \in DOMAIN invitation => invitation[u].consumed \in BOOLEAN
      BY DEF IInv, TypeOK, InvitationRow
    <2>2. (u \in DOMAIN invitation' <=> u \in DOMAIN invitation)
          /\ (u \in DOMAIN invitation => (invitation'[u].consumed <=> invitation[u].consumed))
      BY <1>1, <2>1
    <2>3. (\E d \in DOMAIN device' : device'[d].token = u)
            <=> (\E d \in DOMAIN device : device[d].token = u)
      BY <1>1
    <2>. QED
      BY <2>2, <2>3 DEF Ticket
  <1>4. Tickets' = [Tickets EXCEPT ![t] = "redeemed"] /\ Tickets[t] = "open"
    <2>1. t \in Tokens
      BY <1>1
    <2>. QED
      BY ONLY <2>1, <1>2, <1>3 DEF Tickets
  <1>5. Approvals' = Approvals
    BY <1>1 DEF Approvals
  <1>6. Approvals[t] = {a}
    BY <1>1, <1>a DEF Approvals
  <1>7. Grants' = Grants \union {<<c, t, a>>}
    BY <1>1 DEF Grants
  <1>8. Ledger!Redeem(c, t)
    BY <1>4, <1>5, <1>6, <1>7 DEF Ledger!Redeem, Tickets, Approvals, Grants
  <1>. QED
    BY <1>1, <1>8

\* Every step of enrollment is a step of the ledger or none.
LEMMA LedgerStep ==
  ASSUME IInv, IInv', SpentInv, [Next]_vars
  PROVE  [Ledger!Next]_(Ledger!vars)
  <1>1. ASSUME NEW t \in Tokens, InviteInsert(t) PROVE Ledger!Next
    BY <1>1, InsertOpens DEF Ledger!Next
  <1>2. ASSUME NEW t \in Tokens, Revoke(t) PROVE [Ledger!Next]_(Ledger!vars)
    BY <1>2, RevokeVoids DEF Ledger!Next
  <1>3. ASSUME NEW c \in Calls, Issue(c) PROVE Ledger!Next
    BY <1>3, IssueRedeems DEF Ledger!Next
  <1>4. ASSUME \A t \in Tokens : ~InviteInsert(t) /\ ~Revoke(t),
               \A c \in Calls : ~Issue(c)
        PROVE  UNCHANGED Ledger!vars
    BY <1>4, Bystanders, LedgerStutter
  <1>. QED
    BY <1>1, <1>2, <1>3, <1>4

\* Enrollment is the ledger of one-shot tickets: whatever the statements of
\* redeem_device, invite_device and the revocation do to the tables and
\* whenever the process dies, each step opens, voids or redeems one ticket, or
\* leaves them all alone.
THEOREM EnrollmentIsALedger == Spec => ImplementsLedger
  <1>1. Init => Ledger!Init
    BY LedgerInit
  <1>2. IInv /\ IInv' /\ SpentInv /\ [Next]_vars => [Ledger!Next]_(Ledger!vars)
    BY LedgerStep
  <1>. QED
    BY <1>1, <1>2, SpentInvariance, PTL DEF Spec, ImplementsLedger, Ledger!Spec
=============================================================================
