-------------------------- MODULE MCMissionSnapshot --------------------------
(* Instances of MissionSnapshot for TLC. *)
EXTENDS MissionSnapshot, TLC

\* Neither handlers nor accepted missions are told apart.
Symmetry == Permutations(Handlers) \cup Permutations(Missions)
===============================================================================
