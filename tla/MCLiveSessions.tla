--------------------------- MODULE MCLiveSessions ---------------------------
(* LiveSessions on small instances.                                        *)
EXTENDS LiveSessions

CONSTANTS c1, c2, i1, i2, v, w

\* Two messages for different conversations, and a speech session and a
\* realtime session on the first.
MCTo   == [i \in Injections |-> IF i = i1 THEN c1 ELSE c2]
MCOn   == [s \in Sessions |-> c1]
MCKind == [s \in Sessions |-> IF s = v THEN "voice" ELSE "realtime"]
=============================================================================
