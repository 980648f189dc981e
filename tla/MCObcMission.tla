----------------------------- MODULE MCObcMission -----------------------------
(* Instances of ObcMission for TLC. *)
EXTENDS ObcMission

CONSTANTS h1, h2

MCHandlers == {h1, h2}

AllPostings == SUBSET Airdrops

\* The operators post every target at once.
FullPostings == {Airdrops}

\* No new aggregator is installed by hand.
MissionOperations == AllOperations \ {"runpipeline"}
===============================================================================
