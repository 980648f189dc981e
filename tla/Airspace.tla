------------------------------ MODULE Airspace ------------------------------
(***************************************************************************)
(* What pathing/environment.cpp decides about points and paths, and the    *)
(* sweeps it lays over the airdrop zone for a plane that flies forward.    *)
(* Coordinates are integers (metres); a point between two metres is given  *)
(* in 1/Fine of a metre.  Arithmetic is exact where the code has doubles.  *)
(***************************************************************************)
EXTENDS Integers, FiniteSets, Sequences

CONSTANTS Interval,  \* ENV_PATH_VALIDATION_STEP_SIZE
          Fine       \* a multiple of every rise and run of a zone's edges

ASSUME IntervalAssumption == Interval \in Nat /\ Interval > 1
ASSUME FineAssumption     == Fine \in Nat \ {0}

X(p) == p[1]
Y(p) == p[2]

Least(S)    == CHOOSE m \in S : \A n \in S : m <= n
Greatest(S) == CHOOSE m \in S : \A n \in S : m >= n

\* The corner before (or after) corner i of a polygon.
Before(polygon, i) == IF i = 1 THEN Len(polygon) ELSE i - 1
After(polygon, i)  == IF i = Len(polygon) THEN 1 ELSE i + 1

(* ---- isPointInBounds ---------------------------------------------------- *)

\* The ray from p to the right crosses the edge ab; the comparison of p.x with
\* the crossing is multiplied out by b.y - a.y.
RayCrosses(a, b, p) ==
  LET rise == Y(b) - Y(a)
      left == (X(p) - X(a)) * rise - (X(b) - X(a)) * (Y(p) - Y(a))
  IN  /\ (Y(a) > Y(p)) # (Y(b) > Y(p))
      /\ IF rise > 0 THEN left < 0 ELSE left > 0

IsPointInPolygon(polygon, p) ==
  Cardinality({i \in DOMAIN polygon :
                 RayCrosses(polygon[i], polygon[Before(polygon, i)], p)}) % 2 = 1

IsPointInBounds(region, obstacles, p) ==
  /\ IsPointInPolygon(region, p)
  /\ \A o \in obstacles : ~IsPointInPolygon(o, p)

(* ---- isPathInBounds ----------------------------------------------------- *)

\* The points of a path of n points (the first is 0) that the walk from the
\* centre tests: k steps away, then every Interval, to the right and the left.
Center(n) == n \div 2
Walk(n, k) == {Center(n) + k + Interval * j : j \in 0..n}
                \union {Center(n) - k - Interval * j : j \in 0..n}
TestedFewer(n) ==
  {Center(n)} \union ((UNION {Walk(n, k) : k \in 1..(Interval - 2)}) \intersect (0..(n - 1)))
Tested(n) ==
  {Center(n)} \union ((UNION {Walk(n, k) : k \in 1..(Interval - 1)}) \intersect (0..(n - 1)))

IsPathInBounds(region, obstacles, path) ==
  \A i \in Tested(Len(path)) : IsPointInBounds(region, obstacles, path[i + 1])

(* ---- getAirdropWaypoints ------------------------------------------------ *)

\* findBounds
XMin(zone) == Least({X(zone[i]) : i \in DOMAIN zone})
XMax(zone) == Greatest({X(zone[i]) : i \in DOMAIN zone})
YMin(zone) == Least({Y(zone[i]) : i \in DOMAIN zone})
YMax(zone) == Greatest({Y(zone[i]) : i \in DOMAIN zone})

\* The coordinates of the scan lines; horizontal lines run from the top down.
ScanLines(zone, radius, vertical) ==
  LET start == IF vertical THEN XMin(zone) + radius ELSE -(YMax(zone) - radius)
      stop  == IF vertical THEN XMax(zone) - radius ELSE -(YMin(zone) + radius)
      lines == IF start > stop THEN 0 ELSE (stop - start) \div (2 * radius) + 1
  IN  [k \in 1..lines |-> start + 2 * radius * (k - 1)]

\* The edge pq meets the line at x = at (axis 1) or y = at (axis 2), its ends included;
\* and the other coordinate of the meeting.
EdgeMeets(p, q, at, axis) == at \in q[axis]..p[axis] \/ at \in p[axis]..q[axis]
MeetsAt(p, q, at, axis) ==
  LET along == 3 - axis
      run   == q[axis] - p[axis]
      rise  == (q[along] - p[along]) * (at - p[axis]) * Fine
  IN  Fine * p[along] + IF run > 0 THEN rise \div run ELSE (-rise) \div (-run)

\* findIntersections: where the line meets the first two of the edges it meets.
\* Its caller looks at no others.
Met(zone, at, axis) == {i \in DOMAIN zone : EdgeMeets(zone[i], zone[After(zone, i)], at, axis)}
Meetings(zone, at, axis) ==
  LET met      == Met(zone, at, axis)
      first    == Least(met)
      second   == Least(met \ {first})
      Place(i) == MeetsAt(zone[i], zone[After(zone, i)], at, axis)
  IN  <<Place(first), Place(second)>>

\* A mutant: the ends as they are found.
EndsAsFound(zone, line, vertical) ==
  LET found == IF vertical THEN Meetings(zone, line, 1) ELSE Meetings(zone, -line, 2)
  IN  IF vertical THEN << <<line * Fine, found[1]>>, <<line * Fine, found[2]>> >>
                  ELSE << <<found[1], -line * Fine>>, <<found[2], -line * Fine>> >>

\* getAirdropEndpoints: the two ends of a scan line, the first two meetings taken
\* for them, top down or left to right.
Ends(zone, line, vertical) ==
  LET found == IF vertical THEN Meetings(zone, line, 1) ELSE Meetings(zone, -line, 2)
      low   == Least({found[1], found[2]})
      high  == Greatest({found[1], found[2]})
  IN  IF vertical THEN << <<line * Fine, high>>, <<line * Fine, low>> >>
                  ELSE << <<low, -line * Fine>>, <<high, -line * Fine>> >>

\* Headings in twelfths of a turn: along the line, then back and forth.
FirstHeading(vertical) == IF vertical THEN 9 ELSE 0
Turned(line, oneWay) == ~oneWay /\ line % 2 = 0

AirdropWaypoints(zone, radius, oneWay, vertical) ==
  LET lines == ScanLines(zone, radius, vertical)
  IN  [w \in 1..(2 * Len(lines)) |->
         LET line == (w + 1) \div 2
             ends == Ends(zone, lines[line], vertical)
             second == (w % 2 = 0) # Turned(line, oneWay)
         IN  [at  |-> ends[IF second THEN 2 ELSE 1],
              psi |-> (FirstHeading(vertical) + (IF Turned(line, oneWay) THEN 6 ELSE 0)) % 12]]
=============================================================================
