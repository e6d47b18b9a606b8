------------------------------- MODULE MCRound -------------------------------
(***************************************************************************)
(* Instances of Round for TLC.                                             *)
(***************************************************************************)
EXTENDS Round

CONSTANTS p1, p2, p3, w1
=============================================================================
