------------------------------- MODULE Tenure -------------------------------
(***************************************************************************)
(* What a granted product promises, without rows, licenses or locks: each  *)
(* grant is given once to one free device, may move to another free device,*)
(* and once it ended is in force nowhere for good.                         *)
(***************************************************************************)
CONSTANTS Device, Grant
VARIABLES held,   \* the devices a grant is in force on, never two
          given   \* the grants that were ever given

Free(d) == \A g \in Grant : d \notin held[g]

Init == held = [g \in Grant |-> {}] /\ given = {}

Give(g, d) ==
  /\ g \notin given /\ Free(d)
  /\ given' = given \cup {g}
  /\ held' = [held EXCEPT ![g] = {d}]

Carry(g, d, t) ==
  /\ held[g] = {d} /\ Free(t)
  /\ held' = [held EXCEPT ![g] = {t}]
  /\ UNCHANGED given

\* Everything that is in force on a device ends.
End(d) ==
  /\ held' = [g \in Grant |-> held[g] \ {d}]
  /\ UNCHANGED given

Next == \/ \E g \in Grant, d \in Device : Give(g, d) \/ \E t \in Device : Carry(g, d, t)
        \/ \E d \in Device : End(d)

Spec == Init /\ [][Next]_<<held, given>>
=============================================================================
