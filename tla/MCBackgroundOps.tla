-------------------------- MODULE MCBackgroundOps --------------------------
(***************************************************************************)
(* Instances of BackgroundOps for TLC.                                     *)
(***************************************************************************)
EXTENDS BackgroundOps, TLC

CONSTANTS t1, t2, t3

LongevityOnly == {Longevity}
OsdOnly == {"osd_operations"}
CloneOnly == {Clone}

ThreadSymmetry == Permutations(Slots)
=============================================================================
