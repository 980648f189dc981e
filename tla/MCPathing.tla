----------------------------- MODULE MCPathing -----------------------------
(***************************************************************************)
(* Pathing on a small airspace, zones of five shapes (the last has a       *)
(* corner within a side) in every order of their corners, and rectangles   *)
(* around the sizes where a row of pictures is lost.                       *)
(***************************************************************************)
EXTENDS Pathing

MCRegion == << <<0, 0>>, <<8, 0>>, <<8, 8>>, <<0, 8>> >>
MCObstacles == {<< <<4, 4>>, <<6, 3>>, <<6, 6>> >>}
MCInBounds == <<1, 2>>
MCOutside == {<<5, 4>>, <<9, 2>>}

Shapes == {<< <<0, 0>>, <<8, 0>>, <<8, 6>>, <<0, 6>> >>,
           << <<0, 0>>, <<9, 0>>, <<0, 9>> >>,
           << <<0, 4>>, <<4, 0>>, <<8, 4>>, <<4, 8>> >>,
           << <<0, 0>>, <<12, 0>>, <<8, 6>>, <<2, 6>> >>,
           << <<0, 0>>, <<4, 0>>, <<8, 0>>, <<8, 6>> >>}
Turnings(s) == {[i \in DOMAIN s |-> s[((i + k) % Len(s)) + 1]] : k \in 1..Len(s)}
MCZones == UNION {Turnings(s) \union {Reversed(t) : t \in Turnings(s)} : s \in Shapes}
=============================================================================
