------------------------------ MODULE MCRRTTree ------------------------------
(* Instances of RRTTree for TLC. *)
EXTENDS RRTTree

\* Two curves of different length, and one of length 0 between two nodes at one place.
ThreeLengths == {0, 1, 3}
===============================================================================
