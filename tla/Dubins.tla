------------------------------- MODULE Dubins -------------------------------
(***************************************************************************)
(* pathing/dubins.cpp: a turn, a straight (or a middle turn) and a turn    *)
(* that take the plane from one pose to another.                           *)
(*                                                                         *)
(* Angles are twelfths of a turn.  With them every point the code computes *)
(* is an integer combination of the directions 0, 30, 60 and 90 degrees,   *)
(* written <<a, b, c, d>>, and lengths are <<a, b>> for a + b * sqrt(3):   *)
(* all is exact.  The radius is 3, which keeps the lengths integral.       *)
(***************************************************************************)
EXTENDS Integers

Radius == 3

(* ---- vectors ------------------------------------------------------------ *)

Zero == <<0, 0, 0, 0>>
Plus(v, w)  == [i \in 1..4 |-> v[i] + w[i]]
Minus(v, w) == [i \in 1..4 |-> v[i] - w[i]]
Times(n, v) == [i \in 1..4 |-> n * v[i]]

\* cos and sin: the direction of an angle.
Forward == <<<<1, 0, 0, 0>>, <<0, 1, 0, 0>>, <<0, 0, 1, 0>>,
             <<0, 0, 0, 1>>, <<-1, 0, 1, 0>>, <<0, -1, 0, 1>>>>
Toward(angle) ==
  LET k == angle % 12 IN IF k < 6 THEN Forward[k + 1] ELSE Times(-1, Forward[k - 5])

\* A length along a direction; sqrt(3) times it is the sum of its two neighbours.
Along(length, angle) ==
  Plus(Times(length[1], Toward(angle)),
       Times(length[2], Plus(Toward(angle - 1), Toward(angle + 1))))

\* The lengths that occur, and norm() and atan2() of a vector of such a length.
KnownLengths == {<<a, 0>> : a \in 0..12} \union {<<0, b>> : b \in 1..6}
Polar ==
  [v \in {Along(d, k) : d \in KnownLengths, k \in 0..11} |->
     CHOOSE p \in KnownLengths \X (0..11) : v = Along(p[1], p[2])]
Norm(v) == Polar[v][1]
Bearing(v) == IF v = Zero THEN 0 ELSE Polar[v][2]

(* ---- turns -------------------------------------------------------------- *)

Left == 1
Right == -1

\* The double result of mod may miss the end of a turn by a rounding error only.
Mod(angle) == angle % 12

FindCenter(pose, side) == Plus(pose.at, Along(<<Radius, 0>>, pose.psi + 3 * side))

\* Where a turn of that side has come after `arc` (negative: before it came).
CircleArc(psi, side, center, arc) ==
  Plus(center, Along(<<Radius, 0>>, psi + (arc - 3) * side))

(* ---- options -------------------------------------------------------------- *)
(* beta0 and beta2 are the angles turned, to side0 and side2; `middle` is the  *)
(* angle of the middle turn of the options that have no straight.              *)

Straight(s0, b0, s2, b2, length) ==
  [feasible |-> TRUE, side0 |-> s0, beta0 |-> b0, side2 |-> s2, beta2 |-> b2,
   hasStraight |-> TRUE, straight |-> length, middle |-> 0]
Curved(s0, b0, s2, b2, middle) ==
  [Straight(s0, b0, s2, b2, <<0, 0>>) EXCEPT !.hasStraight = FALSE, !.middle = middle]
\* An infinite length: never the shortest option.
Infeasible == [Straight(Right, 0, Right, 0, <<0, 0>>) EXCEPT !.feasible = FALSE]

\* Both turns to one side: the straight is parallel to the line of the centres.
SameSide(start, end, side) ==
  LET across == Minus(FindCenter(end, side), FindCenter(start, side))
      alpha  == Bearing(across)
  IN  Straight(side, Mod(side * (alpha - start.psi)), side, Mod(side * (end.psi - alpha)),
               Norm(across))
lsl(start, end) == SameSide(start, end, Left)
rsr(start, end) == SameSide(start, end, Right)

\* Turns to different sides: a tangent between the circles, at alpha to the line
\* of the centres: acos(Radius / half), and half the straight by Pythagoras, for
\* the halves of the distance that give an angle of whole twelfths.
Tangents == {[half |-> <<3, 0>>, alpha |-> 0, straight |-> <<0, 0>>],
             [half |-> <<0, 2>>, alpha |-> 1, straight |-> <<0, 2>>],
             [half |-> <<6, 0>>, alpha |-> 2, straight |-> <<0, 6>>]}
Half(length) == <<length[1] \div 2, length[2] \div 2>>
\* The circles overlap: twice the radius is more than the distance.
Overlap(length) == length \in {<<a, 0>> : a \in 0..5} \union {<<0, b>> : b \in 1..3}

lsr(start, end) ==
  LET across == Minus(FindCenter(end, Right), FindCenter(start, Left))
      psi_0  == Bearing(across)
      t == CHOOSE t \in Tangents : t.half = Half(Norm(across))
  IN  IF Overlap(Norm(across)) THEN Infeasible
      ELSE Straight(Left, Mod(psi_0 - t.alpha - (start.psi - 3)),
                    Right, Mod((6 + psi_0) - t.alpha - (end.psi + 3)), t.straight)

rsl(start, end) ==
  LET across == Minus(FindCenter(end, Left), FindCenter(start, Right))
      psi_0  == Bearing(across)
      t == CHOOSE t \in Tangents : t.half = Half(Norm(across))
  IN  IF Overlap(Norm(across)) THEN Infeasible
      ELSE Straight(Right, Mod((start.psi + 3) - (psi_0 + t.alpha)),
                    Left, Mod((end.psi - 3) - (t.alpha + psi_0 + 6)), t.straight)

\* Three turns: gamma is 2 * asin(distance / (4 * Radius)), `height` what is left of
\* 2 * Radius by Pythagoras.
Triangles == {[across |-> <<6, 0>>,  gamma |-> 2, height |-> <<0, 3>>],
              [across |-> <<0, 6>>,  gamma |-> 4, height |-> <<3, 0>>],
              [across |-> <<12, 0>>, gamma |-> 6, height |-> <<0, 0>>]}
TriangleOf(length) == CHOOSE t \in Triangles : t.across = length

lrl(start, end) ==
  LET across == Minus(FindCenter(end, Left), FindCenter(start, Left))
      psi_0  == Bearing(across)
      gamma  == TriangleOf(Norm(across)).gamma
      theta  == (6 - gamma) \div 2
  IN  Curved(Left, Mod(psi_0 - (start.psi - 3) + theta),
             Left, Mod((end.psi - 3) - (psi_0 + 6) + theta), 12 - gamma)

rlr(start, end) ==
  LET across == Minus(FindCenter(end, Right), FindCenter(start, Right))
      psi_0  == Bearing(across)
      gamma  == TriangleOf(Norm(across)).gamma
      theta  == (6 - gamma) \div 2
  IN  Curved(Right, Mod((start.psi + 3) - psi_0 + theta),
             Right, Mod((psi_0 + 3) - end.psi + theta), 12 - gamma)

(* ---- generatePoints ------------------------------------------------------ *)

\* The ends of the straight.
InitialTerminal(start, o) ==
  IF o.beta0 = 0 THEN start.at
  ELSE CircleArc(start.psi, o.side0, FindCenter(start, o.side0), o.beta0)
FinalTerminalAhead(end, o) ==
  IF o.beta2 = 0 THEN end.at
  ELSE CircleArc(end.psi, o.side2, FindCenter(end, o.side2), o.beta2)
FinalTerminal(end, o) ==
  IF o.beta2 = 0 THEN end.at
  ELSE CircleArc(end.psi, o.side2, FindCenter(end, o.side2), -o.beta2)

\* The points of the turns, one each twelfth: forward from the start, and back
\* from the end.
FirstTurn(start, o) ==
  [arc \in 0..(o.beta0 - 1) |-> CircleArc(start.psi, o.side0, FindCenter(start, o.side0), arc)]
LastTurn(end, o) ==
  [arc \in 1..(o.beta2 - 1) |-> CircleArc(end.psi, o.side2, FindCenter(end, o.side2), -arc)]

\* The middle circle of generatePointsCurve touches both others; its points run
\* against the first turn's side.  Both other turns turn: for an angle of zero the
\* code takes sign(0) for the side and the right circle for the turn's.
MiddleCenter(start, end, o) ==
  LET center_0 == FindCenter(start, o.side0)
      across   == Minus(FindCenter(end, o.side2), center_0)
      aside    == TriangleOf(Norm(across)).height
  IN  Plus(center_0, Plus(Along(Half(Norm(across)), Bearing(across)),
                          Times(o.side0, Along(aside, Bearing(across) + 3))))
MiddleTurn(start, end, o) ==
  LET center_0 == FindCenter(start, o.side0)
      center_1 == MiddleCenter(start, end, o)
      psi_0    == Bearing(Minus(center_1, center_0)) - 6
  IN  [arc \in 0..o.middle |-> Plus(center_1, Along(<<Radius, 0>>, psi_0 - o.side0 * arc))]
=============================================================================
