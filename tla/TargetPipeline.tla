--------------------------- MODULE TargetPipeline ---------------------------
(***************************************************************************)
(* From the autopilot's telemetry to a target's place: MavlinkClient       *)
(* connects, subscribes and keeps the latest values; a picture is tagged   *)
(* with them one getter at a time; the workers of the aggregator run one   *)
(* and the same Pipeline on the pictures, whose letterbox they share.      *)
(*                                                                         *)
(* The plane's way is a sequence of fixes; a value of the telemetry is the *)
(* number of the fix it is of, zero before the first message.              *)
(***************************************************************************)
EXTENDS Detector

CONSTANTS Flight,       \* the poses of the fixes 1, 2, ...
          Streams,      \* the subscriptions that get messages in this instance
          NumParams,    \* mavlink_parameters.param_map.size()
          Sizes,        \* sizes of pictures
          Scenes,       \* what a picture may show: sequences of things
          MaxPictures,  \* bound on the pictures taken
          Workers       \* the aggregator's threads

\* Where the plane may be, in degrees and metres, with the cosine of its latitude.
Poses == [lat : Int, lng : Int, cosLat : (Nat \ {0}) \X (Nat \ {0}), altitude : Int,
          heading : Directions]

ASSUME PipelineAssumption ==
  /\ NumParams \in Nat /\ MaxPictures \in Nat
  /\ Flight \in Seq(Poses)
\* Things are in their picture the right way round, and scores are natural numbers.
ASSUME ScenesAssumption ==
  /\ Sizes \subseteq [cols : Nat \ {0}, rows : Nat \ {0}]
  /\ Scenes \subseteq Seq([x1 : Nat, y1 : Nat, x2 : Nat, y2 : Nat, scores : Seq(Nat)])
  /\ \A scene \in Scenes : \A i \in DOMAIN scene :
       scene[i].x1 <= scene[i].x2 /\ scene[i].y1 <= scene[i].y2
\* A pixel of each picture is a whole number of units of the network, as a float is exact enough.
ASSUME UnitAssumption ==
  \A size \in Sizes : LET r == Scale(CropRight(size)) IN (Unit * r[1]) % r[2] = 0

Fixes == 0..Len(Flight)

\* The subscriptions in the order they are made, and the fields each writes.
Subscriptions == <<"position", "flight_mode", "fixedwing_metrics", "velocity_ned",
                   "armed", "wind", "heading", "attitude_euler">>
FieldsOf(stream) ==
  CASE stream = "position"          -> {"agl", "msl", "lat", "lng"}
    [] stream = "fixedwing_metrics" -> {"airspeed"}
    [] stream = "velocity_ned"      -> {"groundspeed"}
    [] stream = "attitude_euler"    -> {"yaw", "pitch", "roll"}
    [] OTHER                        -> {stream}
Fields == UNION {FieldsOf(Subscriptions[i]) : i \in DOMAIN Subscriptions}

\* A mutant: the latitude and the longitude are read apart.
GettersApart ==
  <<{"lat"}, {"lng"}, {"agl"}, {"airspeed"}, {"heading"}, {"yaw"}, {"pitch"}, {"roll"}>>
\* The getters of queryMavlinkImageTelemetry, each one hold of data_mut.
Getters == <<{"lat", "lng"}, {"agl"}, {"airspeed"}, {"heading"}, {"yaw"}, {"pitch"}, {"roll"}>>
TagFields == UNION {Getters[i] : i \in DOMAIN Getters}

VARIABLES link,      \* where MavlinkClient's constructor is
          todo,      \* parameters or subscriptions it has left
          mav,       \* MissionState::mav is set
          fix,       \* the plane's present fix
          data,      \* MavlinkClient::data: field -> fix it is of
          camera,    \* the thread taking a picture: getters done and their values
          queue,     \* pictures runPipeline was called with, not yet begun
          taken,     \* number of pictures taken
          members,   \* scale_, padLeft_, padTop_ of the one YOLO object
          workers,   \* worker -> its picture and the detections so far
          results    \* what the workers have made of their pictures

client == <<link, todo, mav>>
vars == <<client, fix, data, camera, queue, taken, members, workers, results>>

NotTagging == [done |-> 0, since |-> 0, tag |-> <<>>]
Idle == [busy |-> FALSE]
NoTag == <<>>

Init ==
  /\ link = "connecting" /\ todo = 0 /\ mav = FALSE
  /\ fix = 0 /\ data = [f \in Fields |-> 0]
  /\ camera = NotTagging /\ queue = <<>> /\ taken = 0
  /\ members = [scale |-> <<1, 1>>, padLeft |-> 0, padTop |-> 0]
  /\ workers = [w \in Workers |-> Idle] /\ results = {}

(* ---- MavlinkClient -------------------------------------------------------- *)

Working(from, to, left) ==
  /\ link = from /\ link' = to /\ todo' = left
  /\ UNCHANGED <<mav, fix, data, camera, queue, taken, members, workers, results>>

\* Each loop of the constructor repeats until it succeeds; a failure changes nothing.
ConnectionAdded  == Working("connecting", "heartbeat", 0)
HeartbeatCame    == Working("heartbeat", "params", NumParams)
ParamSet         == todo > 0 /\ Working("params", "params", todo - 1)
RateSet          == todo = 0 /\ Working("params", "subscribing", Len(Subscriptions))
Subscribe        == todo > 0 /\ Working("subscribing", "subscribing", todo - 1)

\* connectMavlink publishes the client when its constructor has returned.
SetMav ==
  /\ link = "subscribing" /\ todo = 0 /\ ~mav
  /\ mav' = TRUE
  /\ UNCHANGED <<link, todo, fix, data, camera, queue, taken, members, workers, results>>

Subscribed ==
  IF link = "subscribing" THEN {Subscriptions[i] : i \in 1..(Len(Subscriptions) - todo)} ELSE {}

PlaneMoves ==
  /\ fix < Len(Flight)
  /\ fix' = fix + 1
  /\ UNCHANGED <<client, data, camera, queue, taken, members, workers, results>>

\* A callback writes its fields in one hold of data_mut.
Message(stream) ==
  /\ stream \in Subscribed /\ fix > 0
  /\ data' = [f \in Fields |-> IF f \in FieldsOf(stream) THEN fix ELSE data[f]]
  /\ UNCHANGED <<client, fix, camera, queue, taken, members, workers, results>>

(* ---- takePicture ----------------------------------------------------------- *)

\* One getter; `since` is the fix when the first of them was called.
Query ==
  /\ mav /\ taken < MaxPictures /\ camera.done < Len(Getters)
  /\ camera' = [done  |-> camera.done + 1,
                since |-> IF camera.done = 0 THEN fix ELSE camera.since,
                tag   |-> [f \in DOMAIN camera.tag \union Getters[camera.done + 1] |->
                             IF f \in DOMAIN camera.tag THEN camera.tag[f] ELSE data[f]]]
  /\ UNCHANGED <<client, fix, data, queue, taken, members, workers, results>>

\* A scene fits into what is left of the picture when its right side is cut off.
Shows(size, scene) ==
  \A i \in DOMAIN scene : scene[i].x2 <= CropRight(size).cols /\ scene[i].y2 <= size.rows

\* The picture is taken after the tag was read, from where the plane is by then, and
\* handed to the aggregator.  Without a client it has no tag.
PictureTaken(size, scene) ==
  /\ taken < MaxPictures /\ Shows(size, scene)
  /\ camera.done = Len(Getters) \/ (camera.done = 0 /\ ~mav)
  /\ taken' = taken + 1
  /\ queue' = Append(queue, [tag |-> camera.tag, since |-> camera.since, at |-> fix,
                             size |-> size, scene |-> scene])
  /\ camera' = NotTagging
  /\ UNCHANGED <<client, fix, data, members, workers, results>>

PictureFailed ==
  /\ camera.done = Len(Getters)
  /\ camera' = NotTagging
  /\ UNCHANGED <<client, fix, data, queue, taken, members, workers, results>>

(* ---- Pipeline::run in a worker ---------------------------------------------- *)

SizeOf(w) == CropRight(workers[w].picture.size)

\* Crops and letterboxes the picture, which overwrites the letterbox of whoever is
\* still detecting; `disturbed` remembers that it was another one.
Preprocess(w) ==
  /\ ~workers[w].busy /\ queue # <<>>
  /\ queue' = Tail(queue)
  /\ members' = Members(CropRight(Head(queue).size))
  /\ workers' = [v \in Workers |->
       CASE v = w -> [busy |-> TRUE, picture |-> Head(queue), dets |-> <<>>, done |-> 0,
                      disturbed |-> FALSE]
         [] v # w /\ workers[v].busy ->
              [workers[v] EXCEPT !.disturbed = @ \/ members' # Members(SizeOf(v))]
         [] OTHER -> workers[v]]
  /\ UNCHANGED <<client, fix, data, camera, taken, results>>

\* The next anchor of the network's output.
Detect(w) ==
  /\ workers[w].busy /\ workers[w].done < Len(workers[w].picture.scene)
  /\ LET anchor == Anchor(workers[w].picture.scene[workers[w].done + 1], SizeOf(w))
         found  == DetectionOf(anchor, members, SizeOf(w))
     IN  workers' = [workers EXCEPT
           ![w].done = @ + 1,
           ![w].dets = IF IsCandidate(anchor) THEN Append(@, found) ELSE @]
  /\ UNCHANGED <<client, fix, data, camera, queue, taken, members, results>>

\* The pose a tag says the plane had.  Before the first message every value is zero, and
\* so are the angles, of cosine one.
NoPose == [lat |-> 0, lng |-> 0, cosLat |-> <<1, 1>>, altitude |-> 0, heading |-> <<1, 0, 1>>]
PoseOf(tag) ==
  LET At(f) == IF tag[f] = 0 THEN NoPose ELSE Flight[tag[f]]
  IN  [lat |-> At("lat").lat, lng |-> At("lng").lng, cosLat |-> At("lat").cosLat,
       altitude |-> At("agl").altitude, heading |-> At("heading").heading]

\* A target's coordinate is the default one in a picture without a tag.
NoCoordinate == [north |-> <<0, 1>>, east |-> <<0, 1>>]
Coordinates(tag, box) ==
  IF tag = NoTag THEN {NoCoordinate} ELSE Localize(PoseOf(tag), box)

\* Suppression, the boxes' places, and the result.
Finish(w) ==
  /\ workers[w].busy /\ workers[w].done = Len(workers[w].picture.scene)
  /\ LET dets == workers[w].dets
         tag  == workers[w].picture.tag
     IN  \E p \in Rankings(dets) :
           LET ranked == [i \in DOMAIN dets |-> dets[p[i]]]
           IN  \E coord \in [Kept(ranked) ->
                               UNION {Coordinates(tag, BoxOf(dets[i])) : i \in DOMAIN dets}] :
                 /\ \A i \in Kept(ranked) : coord[i] \in Coordinates(tag, BoxOf(ranked[i]))
                 /\ results' = results \union
                      {[picture |-> workers[w].picture, dets |-> dets,
                        disturbed |-> workers[w].disturbed,
                        targets |-> {[det |-> ranked[i], bbox |-> BoxOf(ranked[i]),
                                      coord |-> coord[i]] : i \in Kept(ranked)}]}
  /\ workers' = [workers EXCEPT ![w] = Idle]
  /\ UNCHANGED <<client, fix, data, camera, queue, taken, members>>

Next ==
  \/ ConnectionAdded \/ HeartbeatCame \/ ParamSet \/ RateSet \/ Subscribe \/ SetMav
  \/ PlaneMoves
  \/ \E s \in Streams : Message(s)
  \/ Query
  \/ \E size \in Sizes, scene \in Scenes : PictureTaken(size, scene)
  \/ PictureFailed
  \/ \E w \in Workers : Preprocess(w) \/ Detect(w) \/ Finish(w)

Spec == Init /\ [][Next]_vars

-----------------------------------------------------------------------------
TypeOK ==
  /\ link \in {"connecting", "heartbeat", "params", "subscribing"} /\ todo \in Nat
  /\ mav \in BOOLEAN /\ fix \in Fixes /\ data \in [Fields -> Fixes]
  /\ camera.done \in 0..Len(Getters) /\ DOMAIN camera.tag \subseteq TagFields
  /\ taken \in 0..MaxPictures /\ Len(queue) <= taken
  /\ \A w \in Workers : workers[w].busy \in BOOLEAN

Pictures ==
  {queue[i] : i \in DOMAIN queue} \union {r.picture : r \in results}
    \union {workers[w].picture : w \in {v \in Workers : workers[v].busy}}

\* The latitude and the longitude of a picture are of one fix and its altitude is of
\* that or a later one, however messages come in between the getters; nothing in the
\* tag is newer than the picture.
TagIsOfOnePlace ==
  \A p \in Pictures : p.tag # NoTag =>
    /\ p.tag["lat"] = p.tag["lng"] /\ p.tag["lng"] <= p.tag["agl"]
    /\ \A f \in TagFields : p.tag[f] <= p.at

(* ---- boxes ----------------------------------------------------------------- *)

Worth(thing) ==
  \E c \in DOMAIN thing.scores : thing.scores[c] > 0 /\ thing.scores[c] >= ConfThreshold

\* A pixel of the network in pixels of the picture, and one more for the cast to int.
Slack(size) == (Scale(size)[2] + Scale(size)[1] - 1) \div Scale(size)[1] + 1
Near(box, thing, size) ==
  \A c \in {"x1", "y1", "x2", "y2"} : box[c] - thing[c] \in -Slack(size)..Slack(size)

\* The boxes of a result are around the things in its own picture, and nothing worth a
\* detection is without one, although all workers share one letterbox: unless a
\* picture of another size was begun meanwhile.
BoxesAreOfTheirPicture ==
  \A r \in results : ~r.disturbed =>
    LET scene == r.picture.scene
        size  == CropRight(r.picture.size)
        Found(d, i) == Near(BoxOf(d), scene[i], size) /\ Worth(scene[i])
    IN  /\ \A k \in DOMAIN r.dets : \E i \in DOMAIN scene : Found(r.dets[k], i)
        /\ \A i \in DOMAIN scene : Worth(scene[i]) =>
             \E k \in DOMAIN r.dets : Found(r.dets[k], i)

\* Each thing is reported once: no two targets of a class overlap, and a detection
\* that is left out overlaps a target of its class that was at least as sure; a
\* detection that was itself left out leaves nothing out.
EachThingIsReportedOnce ==
  \A r \in results :
    /\ \A s, t \in r.targets :
         s # t /\ s.det.class_id = t.det.class_id => ~Overlap(s.det, t.det)
    /\ \A k \in DOMAIN r.dets :
         \E t \in r.targets :
           \/ t.det = r.dets[k]
           \/ /\ t.det.class_id = r.dets[k].class_id /\ Overlap(t.det, r.dets[k])
              /\ t.det.confidence >= r.dets[k].confidence

(* ---- places ---------------------------------------------------------------- *)

\* To the north and to the east, in parts of hyp: ahead of the plane, and to its right.
Ahead(pose)   == <<pose.heading[1], pose.heading[2]>>
RightOf(pose) == <<-pose.heading[2], pose.heading[1]>>

\* A coordinate is that of what a box shows: as many metres ahead of the plane as the box is
\* above the middle of the picture, and as many to its right as it is to the right of it.
\* Measured from the plane, a degree to the east has Degree metres times the cosine.
IsOnGround(coord, pose, box) ==
  LET Metres(i) == pose.altitude * PixelSize[1]
                     * (Upwards(box) * Ahead(pose)[i] + ToTheRight(box) * RightOf(pose)[i])
      parts     == PixelSize[2] * pose.heading[3]
      north     == coord.north[1] - pose.lat * coord.north[2]
      east      == coord.east[1] - pose.lng * coord.east[2]
  IN  /\ north * Degree * parts = Metres(1) * coord.north[2]
      /\ east * Degree * pose.cosLat[1] * parts = Metres(2) * coord.east[2] * pose.cosLat[2]

\* In the middle column, and left in the middle row, the code computes no place.
IsBlind(box) == ToTheRight(box) = 0 \/ (ToTheRight(box) < 0 /\ Upwards(box) = 0)

\* Targets are placed where the plane saw them, in degrees of its own latitude, if the
\* telemetry had come in with its latest fix when the picture was tagged and taken,
\* whatever came after.
TargetsArePlaced ==
  \A r \in results :
    LET p == r.picture
    IN  p.tag # NoTag /\ p.since = p.at /\ p.at > 0
          /\ (\A f \in {"lat", "agl", "heading"} : p.tag[f] = p.at) =>
        \A t \in r.targets :
          IsBlind(t.bbox) \/ IsOnGround(t.coord, Flight[p.at], t.bbox)
=============================================================================
