------------------------------ MODULE Purchase ------------------------------
(***************************************************************************)
(* What paying promises the customer and the shop, without attempts, jobs  *)
(* or provider calls: an invoice opens alone, ends or is paid, is paid only*)
(* with captured money, stays paid, and the product is delivered once.     *)
(***************************************************************************)
CONSTANT Order
VARIABLES invoice,   \* the customer's view of each invoice
          captured   \* whether the bank took money for it

Standing == {"unpaid", "paid", "delivered"}

Init ==
  /\ invoice = [o \in Order |-> "none"]
  /\ captured = [o \in Order |-> FALSE]

\* A new or ended invoice opens when no other one stands.
Open(o) ==
  /\ invoice[o] \in {"none", "ended"}
  /\ \A p \in Order : invoice[p] \notin Standing
  /\ invoice' = [invoice EXCEPT ![o] = "unpaid"]
  /\ UNCHANGED captured

End(o) ==
  /\ invoice[o] = "unpaid"
  /\ invoice' = [invoice EXCEPT ![o] = "ended"]
  /\ UNCHANGED captured

\* The bank takes the money on its own clock, even of an ended invoice.
Capture(o) ==
  /\ invoice[o] # "none"
  /\ captured' = [captured EXCEPT ![o] = TRUE]
  /\ UNCHANGED invoice

\* A late capture also pays an invoice that had ended.
Pay(o) ==
  /\ invoice[o] \in {"unpaid", "ended"} /\ captured[o]
  /\ invoice' = [invoice EXCEPT ![o] = "paid"]
  /\ UNCHANGED captured

Deliver(o) ==
  /\ invoice[o] = "paid"
  /\ \A p \in Order : invoice[p] # "delivered"
  /\ invoice' = [invoice EXCEPT ![o] = "delivered"]
  /\ UNCHANGED captured

Next == \E o \in Order : Open(o) \/ End(o) \/ Capture(o) \/ Pay(o) \/ Deliver(o)

Spec == Init /\ [][Next]_<<invoice, captured>>
=============================================================================
