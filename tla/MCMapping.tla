----------------------------- MODULE MCMapping -----------------------------
(* Mapping on a few pictures, with the chunk size and overlap of            *)
(* ManualLandingTick, smaller ones, and one that firstPass refuses.         *)
EXTENDS Mapping

MCSettings == {[size |-> 5, overlap |-> 2], [size |-> 3, overlap |-> 1],
               [size |-> 2, overlap |-> 2]}
=============================================================================
