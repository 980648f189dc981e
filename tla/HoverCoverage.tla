--------------------------- MODULE HoverCoverage ---------------------------
(***************************************************************************)
(* HoverCoveragePathing::run of pathing/static.cpp: the points over the    *)
(* airdrop zone where a hovering plane takes a picture each.  The zone is  *)
(* a rectangle <<bottom left, bottom right, top right, top left>>, and     *)
(* `half` is half of camera_vision_m.                                      *)
(***************************************************************************)
EXTENDS Airspace, SequencesExt

SumOf(zone, axis) == zone[1][axis] + zone[2][axis] + zone[3][axis] + zone[4][axis]

\* A mutant: the zone as it is.
UnscaledZone(zone) == [i \in DOMAIN zone |-> <<20 * X(zone[i]), 20 * Y(zone[i])>>]

\* scalePolygon by 1.2 about the mean of the corners, in twentieths of a metre.
ScaledZone(zone) ==
  [i \in DOMAIN zone |-> <<24 * X(zone[i]) - SumOf(zone, 1), 24 * Y(zone[i]) - SumOf(zone, 2)>>]

\* From `from`, in steps, while short of `to`.
Steps(from, to, step) == [k \in 1..((to - from + step - 1) \div step) |-> from + step * (k - 1)]

Row(zone, half, y) ==
  LET xs == Steps(Least({X(zone[4]), X(zone[1])}) + half,
                  Greatest({X(zone[3]), X(zone[2])}) + half, 2 * half)
  IN  FlattenSeq([k \in DOMAIN xs |->
        IF IsPointInPolygon(ScaledZone(zone), <<20 * xs[k], 20 * y>>) THEN << <<xs[k], y>> >>
        ELSE <<>>])

\* A row is flown to the right, the next one back.
Reversed(row) == [k \in DOMAIN row |-> row[Len(row) + 1 - k]]

HoverRows(zone, half) ==
  LET start == Greatest({Y(zone[4]), Y(zone[3])}) - half
      stop  == Least({Y(zone[1]), Y(zone[2])}) - half
      ys    == Steps(-start, -stop, 2 * half)
  IN  [r \in DOMAIN ys |->
         IF r % 2 = 1 THEN Row(zone, half, -ys[r]) ELSE Reversed(Row(zone, half, -ys[r]))]

HoverPoints(zone, half) == FlattenSeq(HoverRows(zone, half))
=============================================================================
