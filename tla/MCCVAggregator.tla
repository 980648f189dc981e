---------------------------- MODULE MCCVAggregator ----------------------------
(* Instances of CVAggregator for TLC. *)
EXTENDS CVAggregator, TLC

CONSTANTS i1, i2, i3, i4, t1, t2

FourImages == {i1, i2, i3, i4}
===============================================================================
