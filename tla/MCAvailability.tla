--------------------------- MODULE MCAvailability ---------------------------
(* Availability on small instances: its configurations give the constants  *)
(* their values.                                                           *)
EXTENDS Availability, TLC

\* Callers and models may be exchanged; only for the runs without liveness.
Symmetry == Permutations(Callers) \union Permutations(Models)
=============================================================================
