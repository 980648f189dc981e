------------------------------ MODULE Detector ------------------------------
(***************************************************************************)
(* What Pipeline::run of cv/pipeline.cpp computes for one picture: crop,   *)
(* letterbox to the size of the network, boxes of the network's output in  *)
(* the picture, non-maximum suppression, and the place of a box on the     *)
(* ground.  Pixels are left out; a picture is its size and what is in it.  *)
(* Coordinates of boxes before the cast to int are in 1/Unit of a pixel.   *)
(***************************************************************************)
EXTENDS Integers, Sequences, FiniteSets

CONSTANTS InputWidth, InputHeight,   \* the network's input, in pixels
          ImgWidth, ImgHeight,       \* IMG_WIDTH_PX, IMG_HEIGHT_PX of the localizer
          CropPixels,                \* crop_pixels_
          ConfThreshold,             \* confThreshold_, as a natural number
          PixelSize,                 \* ANGLE_OF_VIEW_RATIO / IMG_WIDTH_PX, as <<n, d>>: the
                                     \* metres a pixel shows from a height of one metre
          Degree,                    \* EARTH_RADIUS_M * pi / 180: the metres of a degree
          Directions,                \* <<cos, sin, hyp>>: cosine and sine as fractions
          Unit                       \* even, a multiple of the scales' denominators

ASSUME DetectorAssumption ==
  /\ {InputWidth, InputHeight, ImgWidth, ImgHeight, Unit} \subseteq Nat \ {0}
  /\ CropPixels \in Nat /\ ConfThreshold \in Nat
  /\ PixelSize \in (Nat \ {0}) \X (Nat \ {0}) /\ Degree \in Nat \ {0}
ASSUME DirectionsAssumption ==
  \A dir \in Directions :
    /\ dir \in Int \X Int \X (Nat \ {0})
    /\ dir[1] * dir[1] + dir[2] * dir[2] = dir[3] * dir[3]

Least2(a, b) == IF a < b THEN a ELSE b
Most2(a, b)  == IF a > b THEN a ELSE b
\* std::round of n / d, for n >= 0.
Rounded(n, d) == (2 * n + d) \div (2 * d)

(* ---- Preprocess::cropRight, YOLO::preprocess, letterbox ----------------- *)

CropRight(size) ==
  IF size.cols <= CropPixels THEN size ELSE [size EXCEPT !.cols = @ - CropPixels]

\* The scale, a fraction <<n, d>>, fits the picture into the network's input.
Scale(size) ==
  IF InputWidth * size.rows <= InputHeight * size.cols
    THEN <<InputWidth, size.cols>> ELSE <<InputHeight, size.rows>>
PaddingX(size) == InputWidth - Rounded(size.cols * Scale(size)[1], Scale(size)[2])
PaddingY(size) == InputHeight - Rounded(size.rows * Scale(size)[1], Scale(size)[2])

\* scale_, padLeft_ and padTop_, for taking the letterbox off again ...
Members(size) ==
  [scale |-> Scale(size), padLeft |-> PaddingX(size) \div 2, padTop |-> PaddingY(size) \div 2]
\* ... and where letterbox() really puts the picture: it rounds a half up.
Letterbox(size) == [left |-> Rounded(PaddingX(size), 2), top |-> Rounded(PaddingY(size), 2)]

(* ---- the network (external) --------------------------------------------- *)

\* The anchor that stands for a thing in the picture: its box's middle and size.
Anchor(thing, size) ==
  LET r == Scale(size)
      AsSeen(v) == (v * Unit * r[1]) \div r[2]
  IN  [x |-> AsSeen(thing.x1 + thing.x2) \div 2 + Letterbox(size).left * Unit,
       y |-> AsSeen(thing.y1 + thing.y2) \div 2 + Letterbox(size).top * Unit,
       w |-> AsSeen(thing.x2 - thing.x1), h |-> AsSeen(thing.y2 - thing.y1),
       scores |-> thing.scores]

(* ---- YOLO::detect -------------------------------------------------------- *)

\* The first of the classes with the highest score; none if no score is positive.
BestClass(scores) ==
  CHOOSE c \in DOMAIN scores :
    \A d \in DOMAIN scores : scores[d] <= scores[c] /\ (scores[d] = scores[c] => c <= d)
IsCandidate(anchor) ==
  \E c \in DOMAIN anchor.scores : anchor.scores[c] > 0
    /\ anchor.scores[BestClass(anchor.scores)] >= ConfThreshold

\* A mutant: the padding stays on.
InPictureStillPadded(v, pad, scale, extent) ==
  Most2(0, Least2((v * scale[2]) \div scale[1], (extent - 1) * Unit))

\* Off with the padding, back to the picture's scale, and clamped to the picture.
InPicture(v, pad, scale, extent) ==
  LET back == ((v - pad * Unit) * scale[2]) \div scale[1]
  IN  Most2(0, Least2(back, (extent - 1) * Unit))

DetectionOf(anchor, members, size) ==
  LET OfX(v) == InPicture(v, members.padLeft, members.scale, size.cols)
      OfY(v) == InPicture(v, members.padTop, members.scale, size.rows)
  IN  [x1 |-> OfX(anchor.x - anchor.w \div 2), y1 |-> OfY(anchor.y - anchor.h \div 2),
       x2 |-> OfX(anchor.x + anchor.w \div 2), y2 |-> OfY(anchor.y + anchor.h \div 2),
       confidence |-> anchor.scores[BestClass(anchor.scores)],
       class_id |-> BestClass(anchor.scores)]

(* ---- nmsPerClass --------------------------------------------------------- *)

Area(b) == Most2(0, b.x2 - b.x1) * Most2(0, b.y2 - b.y1)
Intersection(a, b) ==
  Area([x1 |-> Most2(a.x1, b.x1), y1 |-> Most2(a.y1, b.y1),
        x2 |-> Least2(a.x2, b.x2), y2 |-> Least2(a.y2, b.y2)])
\* computeIoU(a, b) > 0.9; without a union it is zero.
Overlap(a, b) ==
  LET inter == Intersection(a, b)
      uni   == Area(a) + Area(b) - inter
  IN  uni > 0 /\ 10 * inter > 9 * uni

\* std::sort may leave equally confident detections in any order.
Rankings(dets) ==
  {p \in [DOMAIN dets -> DOMAIN dets] :
     \A i, j \in DOMAIN dets : i < j =>
       p[i] # p[j] /\ dets[p[i]].confidence >= dets[p[j]].confidence}

\* A mutant: what is suppressed suppresses others.
KeptUnlessOverlapped(ranked) ==
  {i \in DOMAIN ranked : \A j \in 1..(i - 1) :
     ranked[j].class_id = ranked[i].class_id => ~Overlap(ranked[j], ranked[i])}

\* The ranked detections no kept one of their class suppresses.
Kept(ranked) ==
  LET kept[i \in DOMAIN ranked] ==
        \A j \in 1..(i - 1) :
          kept[j] /\ ranked[j].class_id = ranked[i].class_id => ~Overlap(ranked[j], ranked[i])
  IN  {i \in DOMAIN ranked : kept[i]}

(* ---- the target's box and GSDLocalization::localize ----------------------- *)

\* static_cast<int> of the corners.
BoxOf(d) == [x1 |-> d.x1 \div Unit, y1 |-> d.y1 \div Unit,
             x2 |-> d.x2 \div Unit, y2 |-> d.y2 \div Unit]

\* The middle of the box from the middle of the picture, to the right and up.
ToTheRight(box) == (box.x1 + box.x2) \div 2 - ImgWidth \div 2
Upwards(box)    == ImgHeight \div 2 - (box.y1 + box.y2) \div 2

\* What localize knows of the ground is <<x, y, d>>: x / d to the right or to the east,
\* y / d up or to the north.

\* Through polar coordinates by atan(y / x).  On the middle column the angle is
\* compared where it should be assigned, and stays uninitialised: any direction.  On
\* the middle row nothing is added for a point to the left, which is mirrored.
ThroughPolar(x, y) ==
  CASE x = 0           -> {<<Most2(y, -y) * dir[1], Most2(y, -y) * dir[2], dir[3]>> :
                             dir \in Directions}
    [] x < 0 /\ y = 0  -> {<<-x, 0, 1>>}
    [] OTHER           -> {<<x, y, 1>>}

\* A mutant: the heading is added to the angle.
TurnedBack(v, heading) ==
  <<v[1] * heading[1] - v[2] * heading[2], v[2] * heading[1] + v[1] * heading[2],
    v[3] * heading[3]>>

\* The heading, which grows to the right, is taken off the angle, which grows to the left.
Turned(v, heading) ==
  <<v[1] * heading[1] + v[2] * heading[2], v[2] * heading[1] - v[1] * heading[2],
    v[3] * heading[3]>>

\* By GSD, the ground sample distance, which grows with the altitude.
InMetres(v, altitude) ==
  <<v[1] * altitude * PixelSize[1], v[2] * altitude * PixelSize[1], v[3] * PixelSize[2]>>

\* Metres as degrees, which are shorter to the east by the cosine of the latitude.  A
\* coordinate is a fraction.
CalcOffset(v, pose) ==
  [north |-> <<pose.lat * v[3] * Degree + v[2], v[3] * Degree>>,
   east  |-> <<pose.lng * v[3] * Degree * pose.cosLat[1] + v[1] * pose.cosLat[2],
               v[3] * Degree * pose.cosLat[1]>>]

Localize(pose, box) ==
  {CalcOffset(InMetres(Turned(v, pose.heading), pose.altitude), pose) :
     v \in ThroughPolar(ToTheRight(box), Upwards(box))}
=============================================================================
