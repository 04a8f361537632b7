---------------------------- MODULE MCPromotions ----------------------------
(* Small instances of Promotions for TLC.                                    *)
EXTENDS Promotions, TLC

Alike == Permutations(Promo)
=============================================================================
