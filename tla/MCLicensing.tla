---------------------------- MODULE MCLicensing ----------------------------
(* Small instances of Licensing for TLC: rows and devices are alike.         *)
EXTENDS Licensing, TLC

Alike == Permutations(Ent) \cup Permutations(Device) \cup
         {v @@ w : v \in Permutations(Ent), w \in Permutations(Device)}

=============================================================================
