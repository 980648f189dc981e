------------------------------ MODULE Pathing ------------------------------
(***************************************************************************)
(* The computations of path planning, one call at a time: a path is tested *)
(* against the airspace (isPathInBounds), the airdrop zone is covered by   *)
(* sweeps (getAirdropWaypoints) or hover points (HoverCoveragePathing), and *)
(* a Dubins option is computed between two poses (lsl .. rlr).  The calls  *)
(* share no state; each answer is checked against what the caller needs.   *)
(***************************************************************************)
EXTENDS HoverCoverage, Dubins

CONSTANTS Region, Obstacles,  \* the flight boundary and what to avoid in it
          InBounds, Outside,  \* a point that is in bounds, and points that are not
          MaxPath,            \* bound on the points of a path
          Zones,              \* airdrop zones for the sweeps
          MaxRadius,          \* bound on their scan radius
          Sides,              \* widths and heights of zones for hovering
          Halves              \* halves of the camera's vision

\* The corner k on one side of the edge from corner i on is positive, on the other negative.
Side(zone, i, k) ==
  LET a == zone[i]  b == zone[After(zone, i)]  p == zone[k]
  IN  (X(b) - X(a)) * (Y(p) - Y(a)) - (Y(b) - Y(a)) * (X(p) - X(a))

\* Corners of which none is between the ends of an edge, and that each edge has on one side.
Inside(v, a, b) == (a < v /\ v < b) \/ (b < v /\ v < a)
Convex(zone) ==
  /\ \A i, k \in DOMAIN zone : zone[i] = zone[k] => i = k
  /\ \A i \in DOMAIN zone :
       /\ \/ \A k \in DOMAIN zone : Side(zone, i, k) >= 0
          \/ \A k \in DOMAIN zone : Side(zone, i, k) <= 0
       /\ \A k \in DOMAIN zone : Side(zone, i, k) = 0 =>
            /\ ~Inside(X(zone[k]), X(zone[i]), X(zone[After(zone, i)]))
            /\ ~Inside(Y(zone[k]), Y(zone[i]), Y(zone[After(zone, i)]))

\* Parts of a metre in which an edge meets every line at a whole number of parts.
Resolves(zone) ==
  \A i \in DOMAIN zone, axis \in {1, 2} :
    LET run == zone[After(zone, i)][axis] - zone[i][axis]
    IN  run # 0 => Fine % (IF run > 0 THEN run ELSE -run) = 0

\* The code counts on convex zones (getAirdropEndpoints); that the parts are fine enough
\* is a matter of the model's integers.
ASSUME ZonesAssumption ==
  \A zone \in Zones : /\ zone \in Seq(Int \X Int) /\ Len(zone) >= 3
                      /\ Convex(zone) /\ Resolves(zone)
ASSUME MaxRadiusAssumption == MaxRadius \in Nat
ASSUME MaxPathAssumption == MaxPath \in Nat
ASSUME SidesAssumption   == Sides \subseteq Nat
ASSUME HalvesAssumption  == Halves \subseteq Nat \ {0}

VARIABLES call, answer

callVars == <<call, answer>>
NoCall == [op |-> "none"]

InitCall == call = NoCall /\ answer = {}

\* Paths of a point in bounds with excursions to one that is not.
CheckPath ==
  \E n \in 1..MaxPath, out \in Outside : \E excursions \in SUBSET (1..n) :
    LET path == [i \in 1..n |-> IF i \in excursions THEN out ELSE InBounds]
    IN  /\ call' = [op |-> "path", path |-> path]
        /\ answer' = IsPathInBounds(Region, Obstacles, path)

\* A radius of a metre at least: the loop over the scan lines never ends with none,
\* and without a line generatePath reads past the end of the waypoints.
PlanSweeps ==
  \E zone \in Zones, radius \in 1..MaxRadius, oneWay, vertical \in BOOLEAN :
    /\ Len(ScanLines(zone, radius, vertical)) > 0
    /\ call' = [op |-> "sweeps", zone |-> zone, radius |-> radius, oneWay |-> oneWay,
                vertical |-> vertical]
    /\ answer' = AirdropWaypoints(zone, radius, oneWay, vertical)

\* A rectangle larger than the vision of the camera, as static.hpp assumes.
PlanHover ==
  \E w, h \in Sides, half \in Halves :
    LET zone == << <<0, 0>>, <<w, 0>>, <<w, h>>, <<0, h>> >>
    IN  /\ w > 2 * half /\ h > 2 * half
        /\ call' = [op |-> "hover", zone |-> zone, half |-> half]
        /\ answer' = HoverPoints(zone, half)

\* Poses whose turning circles lie a given distance and direction apart.
Poses(side0, side2, distances) ==
  {[start |-> [at |-> Zero, psi |-> s],
    end |-> [at |-> Plus(FindCenter([at |-> Zero, psi |-> s], side0),
                         Minus(Along(d, b), Along(<<Radius, 0>>, e + 3 * side2))),
             psi |-> e],
    distance |-> d] : s \in 0..11, e \in 0..11, b \in 0..11, d \in distances}

ParallelDistances == {<<0, 0>>, <<1, 0>>, <<0, 1>>, <<7, 0>>}
Overlapping == <<4, 0>>
CrossingDistances == {Overlapping, <<6, 0>>, <<0, 4>>, <<12, 0>>}
TriangleDistances == {t.across : t \in Triangles}

Plan(poses, Option(_, _)) ==
  \E p \in poses :
    /\ call' = [op |-> "dubins", start |-> p.start, end |-> p.end, distance |-> p.distance]
    /\ answer' = Option(p.start, p.end)

PlanLsl == Plan(Poses(Left, Left, ParallelDistances), lsl)
PlanRsr == Plan(Poses(Right, Right, ParallelDistances), rsr)
PlanLsr == Plan(Poses(Left, Right, CrossingDistances), lsr)
PlanRsl == Plan(Poses(Right, Left, CrossingDistances), rsl)
PlanLrl == Plan(Poses(Left, Left, TriangleDistances), lrl)
PlanRlr == Plan(Poses(Right, Right, TriangleDistances), rlr)

Call ==
  /\ call = NoCall
  /\ \/ CheckPath \/ PlanSweeps \/ PlanHover
     \/ PlanLsl \/ PlanRsr \/ PlanLsr \/ PlanRsl \/ PlanLrl \/ PlanRlr

Return ==
  /\ call # NoCall
  /\ call' = NoCall /\ answer' = {}

NextCall == Call \/ Return

CallSpec == InitCall /\ [][NextCall]_callVars

-----------------------------------------------------------------------------
(* ---- isPathInBounds ----------------------------------------------------- *)

\* A path that passes the test leaves the airspace for one point at a time only,
\* never for two in a row, and a path that fails it does leave it.
ExcursionsAreSeen ==
  call.op = "path" =>
    LET In(i) == IsPointInBounds(Region, Obstacles, call.path[i])
    IN  /\ answer => \A i \in 1..(Len(call.path) - 1) : In(i) \/ In(i + 1)
        /\ ~answer => \E i \in DOMAIN call.path : ~In(i)

(* ---- sweeps -------------------------------------------------------------- *)

OnEdge(zone, p) ==
  \E i \in DOMAIN zone :
    LET a == zone[i]  b == zone[After(zone, i)]
    IN  /\ (X(p) - Fine * X(a)) * (Y(b) - Y(a)) = (Y(p) - Fine * Y(a)) * (X(b) - X(a))
        /\ X(p) \in (Fine * X(a))..(Fine * X(b)) \union (Fine * X(b))..(Fine * X(a))
        /\ Y(p) \in (Fine * Y(a))..(Fine * Y(b)) \union (Fine * Y(b))..(Fine * Y(a))

\* The direction of travel between two points of one scan line.
Travel(from, to) ==
  CASE X(to) > X(from) -> 0 [] Y(to) > Y(from) -> 3 [] X(to) < X(from) -> 6 [] OTHER -> 9

\* A corner on a scan line: the line meets two edges in it.
CornerOn(c) ==
  \E i \in DOMAIN c.zone :
    LET lines == ScanLines(c.zone, c.radius, c.vertical)
    IN  \E k \in DOMAIN lines :
          lines[k] = IF c.vertical THEN X(c.zone[i]) ELSE -Y(c.zone[i])

\* Every scan line is flown from one side of the zone to the other, heading along
\* it, the lines side by side from the first side of the zone to within two radii
\* of the last, and, unless one way only, the next line back from where the last
\* one ended.  Lines through a corner of the zone are excepted.
SweepsCoverZone ==
  call.op = "sweeps" /\ ~CornerOn(call) =>
    LET lines == Len(answer) \div 2
        from(k) == answer[2 * k - 1]
        to(k)   == answer[2 * k]
        Across(p) == IF call.vertical THEN X(p) ELSE -Y(p)
        first == IF call.vertical THEN XMin(call.zone) ELSE -YMax(call.zone)
        last  == IF call.vertical THEN XMax(call.zone) ELSE -YMin(call.zone)
    IN  /\ \A k \in 1..lines :
             /\ OnEdge(call.zone, from(k).at) /\ OnEdge(call.zone, to(k).at)
             /\ from(k).at # to(k).at
             /\ Travel(from(k).at, to(k).at) = from(k).psi /\ to(k).psi = from(k).psi
             /\ Across(from(k).at) = Fine * (first + (2 * k - 1) * call.radius)
        /\ last - (first + 2 * lines * call.radius) \in 0..(2 * call.radius - 1)
        /\ \A k \in 1..(lines - 1) :
             from(k + 1).psi = IF call.oneWay THEN from(k).psi ELSE (from(k).psi + 6) % 12

(* ---- hovering ------------------------------------------------------------ *)

\* The pictures show the zone up to a strip at its right and lower side that is
\* narrower than half the vision (the point that would show it may lie outside the
\* zone scaled by 1.2), and from point to point the plane moves by one vision.
HoverCoversZone ==
  call.op = "hover" =>
    LET w == X(call.zone[3])
        h == Y(call.zone[3])
        Seen(x, y) == \E k \in DOMAIN answer :
          /\ X(answer[k]) - call.half <= x /\ x + 1 <= X(answer[k]) + call.half
          /\ Y(answer[k]) - call.half <= y /\ y + 1 <= Y(answer[k]) + call.half
    IN  /\ \A x \in 0..(w - call.half), y \in (call.half - 1)..(h - 1) : Seen(x, y)
        /\ \A k \in 1..(Len(answer) - 1) :
             {X(answer[k + 1]) - X(answer[k]), Y(answer[k + 1]) - Y(answer[k])}
               \in {{0, 2 * call.half}, {0, -2 * call.half}}

(* ---- Dubins options ------------------------------------------------------- *)

\* A plane that turns by an angle, and one that flies straight on.
Turn(pose, side, arc) ==
  LET center == Plus(pose.at, Along(<<Radius, 0>>, pose.psi + 3 * side))
  IN  [at |-> Minus(center, Along(<<Radius, 0>>, pose.psi + side * (arc + 3))),
       psi |-> (pose.psi + side * arc) % 12]
Fly(pose, length) == [pose EXCEPT !.at = Plus(@, Along(length, pose.psi))]

\* Flying the option's turns and straight from the start ends in the goal's pose, and
\* every point generated for it lies where the plane then is; an option is refused
\* only when its circles overlap.
OptionReachesGoal ==
  call.op = "dubins" /\ (answer.feasible \/ call.distance # Overlapping) =>
    LET turned == Turn(call.start, answer.side0, answer.beta0)
        flown  == IF answer.hasStraight THEN Fly(turned, answer.straight)
                                        ELSE Turn(turned, -answer.side0, answer.middle)
        ended  == Turn(flown, answer.side2, answer.beta2)
    IN  /\ answer.feasible /\ ended = call.end
        /\ \A arc \in DOMAIN FirstTurn(call.start, answer) :
             FirstTurn(call.start, answer)[arc] = Turn(call.start, answer.side0, arc).at
        /\ \A arc \in DOMAIN LastTurn(call.end, answer) :
             LastTurn(call.end, answer)[arc]
               = Turn(flown, answer.side2, answer.beta2 - arc).at
        /\ answer.hasStraight =>
             InitialTerminal(call.start, answer) = turned.at /\ FinalTerminal(call.end, answer) = flown.at
        /\ ~answer.hasStraight /\ answer.beta0 > 0 /\ answer.beta2 > 0 =>
             LET middle == MiddleTurn(call.start, call.end, answer)
             IN  \A arc \in DOMAIN middle : middle[arc] = Turn(turned, -answer.side0, arc).at
=============================================================================
