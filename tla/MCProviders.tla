---------------------------- MODULE MCProviders ----------------------------
(* Providers on small instances.                                           *)
EXTENDS Providers

CONSTANTS n1, a1, a2, w1, w2

\* One name.  The file declares it in one of two ways, in one that validate
\* refuses, or not at all; the gateway starts with the first or the last.
MCFiles == [Names -> Specs \union {Absent}]
MCInvalid == [Names -> {3}]
MCBoots == [Names -> {Absent, 1}]
=============================================================================
