------------------------------ MODULE MCTrials ------------------------------
(* Small instances of Trials for TLC.                                        *)
EXTENDS Trials, TLC

Alike == Permutations(Process) \cup Permutations(Request)
=============================================================================
