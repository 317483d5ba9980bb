----------------------------- MODULE MCKeyUsage -----------------------------
(* KeyUsage on a small instance: one key with a daily budget.              *)
EXTENDS KeyUsage, TLC

CONSTANT k1

MCBudget == k1 :> 2
MCWindow == k1 :> "daily"
=============================================================================
