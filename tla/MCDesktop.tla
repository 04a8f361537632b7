----------------------------- MODULE MCDesktop -----------------------------
(* Small instances of Desktop for TLC: the processes run on one device.      *)
EXTENDS Desktop, TLC

CONSTANTS d1, d2

OnFirst == [p \in Proc |-> d1]

Alike == Permutations(Ent) \cup Permutations(Proc) \cup
         {v @@ w : v \in Permutations(Ent), w \in Permutations(Proc)}

=============================================================================
