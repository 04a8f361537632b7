----------------------------- MODULE MCPayments -----------------------------
(* Small instances of Payments for TLC: which attempt pays which order, and  *)
(* which workers and attempts are interchangeable.                           *)
EXTENDS Payments, TLC

CONSTANTS o1, o2, a1, a2

OneAttempt  == a1 :> o1
TwoAttempts == (a1 :> o1) @@ (a2 :> o1)
TwoInvoices == (a1 :> o1) @@ (a2 :> o2)

WorkersAlike == Permutations(Worker)

\* The two attempts of TwoAttempts, with any workers.
AttemptsAlike == WorkersAlike \cup Permutations(Attempt) \cup
                 {v @@ b : v \in WorkersAlike, b \in Permutations(Attempt)}

=============================================================================
