------------------------------ MODULE MCPools ------------------------------
(* Pools on small instances.                                               *)
EXTENDS Pools, TLC

CONSTANTS local, remote, glm, kimi, r1, r2, r3, s1, s2

\* A probed runtime's wildcard, then one model of a provider without a probe,
\* and a member that the wildcard offers too.
MCMembers == <<[provider |-> local, model |-> AnyModel],
               [provider |-> remote, model |-> glm],
               [provider |-> local, model |-> glm]>>
MCListing == <<glm, kimi>>
MCConfigured == local :> {glm, kimi} @@ remote :> {glm}
MCPermitted == [r \in Requests |-> Routes]
MCAfter == [r \in Requests |-> IF r = r3 THEN {r1} ELSE {}]
MCSession == [r \in Requests |-> IF r = r2 THEN s2 ELSE s1]
=============================================================================
