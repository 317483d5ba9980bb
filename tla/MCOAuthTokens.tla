--------------------------- MODULE MCOAuthTokens ---------------------------
(* OAuthTokens on small instances.                                         *)
EXTENDS OAuthTokens, TLC

CONSTANTS claude, codex, home, work, r1, r2, r3, login, delete

MCKind == claude :> "anthropic" @@ codex :> "openai-codex"
\* Two or three requests on one account, of either provider, or on two.
MCWanted == r1 :> {<<claude, home>>} @@ r2 :> {<<claude, home>>, <<codex, home>>}
              @@ r3 :> {<<claude, work>>, <<codex, home>>}
MCFor == [p \in {login, delete} |-> claude]

Before(a, owned) == [grant |-> a, refresh |-> 1,
                     expires |-> 1, owned |-> owned]
\* Claude's default account is ours or borrowed, its other one ours or absent.
MCInitially == [a \in Accounts |->
  CASE a = <<claude, home>> -> {Before(a, TRUE), Before(a, FALSE)}
    [] a = <<claude, work>> -> {Before(a, TRUE), NoCred}
    [] a = <<codex, home>>  -> {Before(a, TRUE)}
    [] OTHER -> {NoCred}]
=============================================================================
