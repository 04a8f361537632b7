----------------------------- MODULE MCMessages -----------------------------
(* Small instances of Messages for TLC.                                      *)
EXTENDS Messages, TLC

CONSTANTS r1, r2, customer, b1

\* Two requests for one account in one lane.
LanesOf == (r1 :> customer) @@ (r2 :> customer)
Bindings == (r1 :> b1) @@ (r2 :> b1)
=============================================================================
