----------------------------- MODULE MCAccounts -----------------------------
(* Small instances of Accounts for TLC.                                      *)
EXTENDS Accounts, TLC

CONSTANTS a1, a2, m1, m2

\* Two accounts that share a number, or one of them with none.
OneNumber == {(a1 :> m1) @@ (a2 :> m1), (a1 :> m1) @@ (a2 :> NoMobile)}
Ids == Permutations(Session) \cup Permutations(Code)
=============================================================================
