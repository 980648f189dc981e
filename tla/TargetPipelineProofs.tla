------------------------ MODULE TargetPipelineProofs ------------------------
(***************************************************************************)
(* Proofs about TargetPipeline, for every flight, every choice of streams, *)
(* pictures and scenes, and any number of pictures and workers: its type   *)
(* invariant; that a picture's tag is of one place; and that what the      *)
(* workers make of a picture is of that picture: boxes around its things,  *)
(* each thing once, in the place where the plane saw it.                   *)
(***************************************************************************)
EXTENDS TargetPipeline, FiniteSetTheorems, TLAPS

Names == {"position", "flight_mode", "fixedwing_metrics", "velocity_ned",
          "armed", "wind", "heading", "attitude_euler"}

\* The fields the first k getters read.
Got(k) == UNION {Getters[i] : i \in 1..k}

\* A tag that has the fields of some getters, of fixes up to the given one.
TagUpTo(tag, last) ==
  /\ tag = [f \in DOMAIN tag |-> tag[f]] /\ DOMAIN tag \subseteq TagFields
  /\ \A f \in DOMAIN tag : tag[f] \in Fixes /\ tag[f] <= last

\* What TagIsOfOnePlace says of one picture.
GoodPicture(p) ==
  p.tag # NoTag =>
    /\ p.tag["lat"] = p.tag["lng"] /\ p.tag["lng"] <= p.tag["agl"]
    /\ \A f \in TagFields : p.tag[f] <= p.at

-----------------------------------------------------------------------------
(* The inductive invariant, part by part.                                    *)

\* The queue is a sequence, and workers are records with a picture while they are busy.
Typed ==
  /\ TypeOK
  /\ queue \in Seq({queue[i] : i \in DOMAIN queue})
  /\ workers = [w \in Workers |-> workers[w]]
  /\ \A w \in Workers : workers[w].busy => {"busy", "picture"} \subseteq DOMAIN workers[w]

\* One callback writes what the first two getters read, and none writes the future.
Telemetry ==
  /\ data["lat"] = data["lng"] /\ data["lat"] = data["agl"]
  /\ \A f \in Fields : data[f] <= fix

\* The tag under way: the altitude is read after the position.
Tagging ==
  /\ DOMAIN camera.tag = Got(camera.done) /\ TagUpTo(camera.tag, fix)
  /\ camera.done = 0 => camera.tag = NoTag
  /\ camera.done >= 1 => camera.tag["lat"] = camera.tag["lng"] /\ camera.tag["lng"] <= data["agl"]
  /\ camera.done >= 2 => camera.tag["lng"] <= camera.tag["agl"]

IInv == Typed /\ Telemetry /\ Tagging /\ TagIsOfOnePlace

-----------------------------------------------------------------------------
(* What the tables of subscriptions and getters say.                         *)

LEMMA SubscribedNames == todo \in Nat => Subscribed \subseteq Names
<1>1. \A i \in 1..8 : Subscriptions[i] \in Names
  BY SMT DEF Subscriptions, Names
<1>2. Len(Subscriptions) = 8
  BY SMT DEF Subscriptions
<1> QED BY <1>1, <1>2, SMT DEF Subscribed

LEMMA FieldsKnown == {"lat", "lng", "agl", "airspeed", "heading", "yaw", "pitch", "roll"} \subseteq Fields
<1>1. /\ {Subscriptions[1], Subscriptions[3], Subscriptions[7], Subscriptions[8]}
           = {"position", "fixedwing_metrics", "heading", "attitude_euler"}
      /\ {1, 3, 7, 8} \subseteq DOMAIN Subscriptions
  BY SMT DEF Subscriptions
<1>2. \A s \in {"position", "fixedwing_metrics", "heading", "attitude_euler"} :
        FieldsOf(s) \subseteq Fields
  BY <1>1, SMT DEF Fields
<1> QED BY <1>2, SMT DEF FieldsOf

LEMMA PositionAtOnce ==
  \A s \in Names : \/ {"lat", "lng", "agl"} \subseteq FieldsOf(s)
                   \/ {"lat", "lng", "agl"} \intersect FieldsOf(s) = {}
BY SMT DEF Names, FieldsOf

LEMMA GetterTable ==
  /\ Len(Getters) = 7
  /\ Getters[1] = {"lat", "lng"} /\ Getters[2] = {"agl"}
  /\ Got(0) = {} /\ Got(7) = TagFields
  /\ TagFields = {"lat", "lng", "agl", "airspeed", "heading", "yaw", "pitch", "roll"}
BY SMT DEF Getters, Got, TagFields

LEMMA GotNext ==
  \A k \in 0..6 : /\ Got(k + 1) = Got(k) \union Getters[k + 1]
                  /\ Getters[k + 1] \subseteq TagFields
                  /\ Getters[k + 1] # {}
                  /\ k >= 1 => {"lat", "lng"} \subseteq Got(k) /\ Getters[k + 1] \intersect {"lat", "lng"} = {}
                  /\ k >= 2 => "agl" \in Got(k) /\ "agl" \notin Getters[k + 1]
<1> TAKE k \in 0..6
<1>1. \A i : i \in 1..(k + 1) <=> i \in 1..k \/ i = k + 1
  BY SMT
<1>2. Got(k + 1) = Got(k) \union Getters[k + 1]
  BY <1>1 DEF Got
<1>3. Getters[k + 1] \subseteq TagFields /\ Getters[k + 1] # {}
  BY SMT DEF Getters, TagFields
<1>4. k >= 1 => 1 \in 1..k /\ Getters[k + 1] \intersect {"lat", "lng"} = {}
  BY SMT DEF Getters
<1>5. k >= 2 => 2 \in 1..k /\ "agl" \notin Getters[k + 1]
  BY SMT DEF Getters
<1> QED BY <1>2, <1>3, <1>4, <1>5, GetterTable DEF Got

-----------------------------------------------------------------------------
LEMMA InitInv == Init => IInv
<1> SUFFICES ASSUME Init PROVE IInv
  OBVIOUS
<1> USE DEF Init
<1>1. Fixes \subseteq Nat /\ 0 \in Fixes
  BY PipelineAssumption DEF Fixes
<1>2. TypeOK
  <2>1. taken \in 0..MaxPictures /\ Len(queue) <= taken /\ data \in [Fields -> Fixes]
    BY <1>1, PipelineAssumption, SMT
  <2>2. camera.done \in 0..Len(Getters) /\ DOMAIN camera.tag \subseteq TagFields
    BY GetterTable, SMT DEF NotTagging
  <2>3. \A w \in Workers : workers[w].busy \in BOOLEAN
    BY DEF Idle
  <2> QED BY <1>1, <2>1, <2>2, <2>3 DEF TypeOK
<1>3. Typed
  BY <1>2 DEF Typed, Idle
<1>4. Telemetry
  BY FieldsKnown, <1>1 DEF Telemetry
<1>5. Tagging
  BY GetterTable, <1>1 DEF Tagging, NotTagging, NoTag, TagUpTo
<1>6. TagIsOfOnePlace
  BY DEF TagIsOfOnePlace, Pictures, Idle
<1> QED BY <1>3, <1>4, <1>5, <1>6 DEF IInv
-----------------------------------------------------------------------------
(* The steps of the client and of the plane.                                 *)

LEMMA ClientKeepsInv ==
  ASSUME IInv, UNCHANGED <<fix, data, camera, queue, taken, members, workers, results>>,
         link' \in {"connecting", "heartbeat", "params", "subscribing"}, todo' \in Nat,
         mav' \in BOOLEAN
  PROVE  IInv'
<1>1. Typed'
  BY DEF IInv, Typed, TypeOK
<1>2. Telemetry' /\ Tagging'
  BY DEF IInv, Telemetry, Tagging, TagUpTo
<1>3. TagIsOfOnePlace'
  BY DEF IInv, TagIsOfOnePlace, Pictures
<1> QED BY <1>1, <1>2, <1>3 DEF IInv

LEMMA PlaneKeepsInv ==
  ASSUME IInv, PlaneMoves PROVE IInv'
<1> USE DEF PlaneMoves, client
<1>1. fix \in Nat /\ Len(Flight) \in Nat /\ fix' = fix + 1 /\ fix' \in Fixes /\ Fixes \subseteq Nat
  <2>1. fix \in 0..Len(Flight) /\ Len(Flight) \in Nat
    BY PipelineAssumption DEF IInv, Typed, TypeOK, Fixes
  <2> QED BY <2>1, SMT DEF Fixes
<1>2. Typed'
  BY <1>1 DEF IInv, Typed, TypeOK
<1>3. Telemetry'
  <2>1. \A f \in Fields : data[f] \in Nat /\ data[f] <= fix
    BY <1>1 DEF IInv, Typed, TypeOK, Telemetry
  <2>2. \A f \in Fields : data[f] <= fix'
    BY <1>1, <2>1, SMT
  <2> QED BY <2>2 DEF IInv, Telemetry
<1>4. Tagging'
  <2>1. \A f \in DOMAIN camera.tag : camera.tag[f] \in Nat /\ camera.tag[f] <= fix
    BY <1>1 DEF IInv, Tagging, TagUpTo
  <2>2. \A f \in DOMAIN camera.tag : camera.tag[f] <= fix'
    BY <1>1, <2>1, SMT
  <2> QED BY <2>2 DEF IInv, Tagging, TagUpTo
<1>5. TagIsOfOnePlace'
  BY DEF IInv, TagIsOfOnePlace, Pictures
<1> QED BY <1>2, <1>3, <1>4, <1>5 DEF IInv

LEMMA MessageKeepsInv ==
  ASSUME IInv, NEW s, Message(s) PROVE IInv'
<1> USE DEF Message, client
<1>1. s \in Names
  BY SubscribedNames DEF IInv, Typed, TypeOK
<1>2. fix \in Fixes /\ fix \in Nat /\ data \in [Fields -> Fixes] /\ Fixes \subseteq Nat
  <2>1. fix \in Fixes /\ data \in [Fields -> Fixes]
    BY DEF IInv, Typed, TypeOK
  <2>2. Fixes \subseteq Nat
    BY PipelineAssumption, SMT DEF Fixes
  <2> QED BY <2>1, <2>2
<1>3. data' \in [Fields -> Fixes] /\ \A f \in Fields : data'[f] = IF f \in FieldsOf(s) THEN fix ELSE data[f]
  BY <1>2
<1>4. Typed'
  BY <1>3 DEF IInv, Typed, TypeOK
<1>5. \A f \in Fields : data[f] <= data'[f] /\ data'[f] <= fix
  <2>1. \A f \in Fields : data[f] \in Nat /\ data[f] <= fix
    BY <1>2 DEF IInv, Telemetry
  <2> QED BY <1>2, <1>3, <2>1, SMT
<1>6. Telemetry'
  <2>1. data'["lat"] = data'["lng"] /\ data'["lat"] = data'["agl"]
    <3>1. data["lat"] = data["lng"] /\ data["lat"] = data["agl"]
      BY DEF IInv, Telemetry
    <3>2. \/ {"lat", "lng", "agl"} \subseteq FieldsOf(s)
          \/ {"lat", "lng", "agl"} \intersect FieldsOf(s) = {}
      BY <1>1, PositionAtOnce
    <3> QED BY <1>3, <3>1, <3>2, FieldsKnown
  <2> QED BY <2>1, <1>5 DEF Telemetry
<1>7. Tagging'
  <2>1. camera.done >= 1 => camera.tag["lng"] <= data'["agl"]
    <3>1. ASSUME camera.done >= 1 PROVE camera.tag["lng"] \in Nat
      <4>1. camera.done \in 0..7
        BY GetterTable DEF IInv, Typed, TypeOK
      <4>2. 1 \in 1..camera.done
        BY <3>1, <4>1, SMT
      <4>3. "lng" \in Got(camera.done)
        BY <4>2, GetterTable DEF Got
      <4> QED BY <4>3, <1>2 DEF IInv, Tagging, TagUpTo
    <3>2. data["agl"] \in Nat /\ data'["agl"] \in Nat /\ data["agl"] <= data'["agl"]
      BY <1>2, <1>3, <1>5, FieldsKnown
    <3> QED BY <3>1, <3>2, SMT DEF IInv, Tagging
  <2> QED BY <2>1 DEF IInv, Tagging, TagUpTo
<1>8. TagIsOfOnePlace'
  BY DEF IInv, TagIsOfOnePlace, Pictures
<1> QED BY <1>4, <1>6, <1>7, <1>8 DEF IInv

-----------------------------------------------------------------------------
(* Taking a picture.                                                         *)

LEMMA QueryKeepsInv ==
  ASSUME IInv, Query PROVE IInv'
<1> USE DEF Query, client
<1> DEFINE k == camera.done
           new == [f \in DOMAIN camera.tag \union Getters[k + 1] |->
                     IF f \in DOMAIN camera.tag THEN camera.tag[f] ELSE data[f]]
<1>1. k \in 0..6 /\ k + 1 \in 0..7 /\ k + 1 # 0
  BY GetterTable, SMT DEF IInv, Typed, TypeOK
<1>2. camera'.done = k + 1 /\ camera'.tag = new
  OBVIOUS
<1>3. fix \in Nat /\ data \in [Fields -> Fixes] /\ Fixes \subseteq Nat
  BY PipelineAssumption, SMT DEF IInv, Typed, TypeOK, Fixes
<1>4. DOMAIN camera.tag = Got(k) /\ DOMAIN camera.tag \subseteq TagFields
  BY DEF IInv, Tagging, TagUpTo
<1>5. DOMAIN new = Got(k + 1) /\ DOMAIN new \subseteq TagFields
  BY <1>1, <1>4, GotNext
<1>6. \A f \in DOMAIN new : new[f] \in Fixes /\ new[f] <= fix
  <2> TAKE f \in DOMAIN new
  <2>1. CASE f \in DOMAIN camera.tag
    BY <2>1 DEF IInv, Tagging, TagUpTo
  <2>2. CASE f \notin DOMAIN camera.tag
    <3>1. f \in Fields
      BY <1>5, GetterTable, FieldsKnown
    <3> QED BY <2>2, <3>1, <1>3 DEF IInv, Telemetry
  <2> QED BY <2>1, <2>2
<1>7. Typed'
  <2>1. camera'.done \in 0..Len(Getters) /\ DOMAIN camera'.tag \subseteq TagFields
    BY <1>1, <1>2, <1>5, GetterTable
  <2> QED BY <2>1 DEF IInv, Typed, TypeOK
<1>8. Telemetry'
  BY DEF IInv, Telemetry
<1>9. Tagging'
  <2>1. DOMAIN camera'.tag = Got(camera'.done) /\ TagUpTo(camera'.tag, fix')
    BY <1>2, <1>5, <1>6 DEF TagUpTo
  <2>2. new["lat"] = new["lng"] /\ new["lng"] <= data["agl"]
    <3>1. CASE k = 0
      <4>1. DOMAIN camera.tag = {}
        BY <3>1, <1>4, GetterTable
      <4>2. {"lat", "lng"} \subseteq DOMAIN new
        BY <3>1, GetterTable
      <4>3. new["lat"] = data["lat"] /\ new["lng"] = data["lng"]
        BY <4>1, <4>2
      <4>4. data["agl"] \in Nat
        BY <1>3, FieldsKnown
      <4> QED BY <4>3, <4>4, SMT DEF IInv, Telemetry
    <3>2. CASE k # 0
      <4>1. k >= 1
        BY <1>1, <3>2, SMT
      <4>2. {"lat", "lng"} \subseteq DOMAIN camera.tag
        BY <1>1, <1>4, <4>1, GotNext
      <4>3. new["lat"] = camera.tag["lat"] /\ new["lng"] = camera.tag["lng"]
        BY <4>2
      <4> QED BY <4>1, <4>3 DEF IInv, Tagging
    <3> QED BY <3>1, <3>2
  <2>3. k + 1 >= 2 => new["lng"] <= new["agl"]
    <3> SUFFICES ASSUME k + 1 >= 2 PROVE new["lng"] <= new["agl"]
      OBVIOUS
    <3>0. k >= 1
      BY <1>1, SMT
    <3>1. CASE k = 1
      <4>1. "agl" \in DOMAIN new /\ "agl" \notin DOMAIN camera.tag
        <5>1. Got(1) = Got(0) \union Getters[1] /\ Getters[k + 1] = {"agl"}
          BY <3>1, GotNext, GetterTable, SMT
        <5> QED BY <5>1, <3>1, <1>4, GetterTable
      <4> QED BY <4>1, <2>2
    <3>2. CASE k # 1
      <4>1. k >= 2
        BY <1>1, <3>0, <3>2, SMT
      <4>2. {"lng", "agl"} \subseteq DOMAIN camera.tag
        BY <1>1, <1>4, <3>0, <4>1, GotNext
      <4>3. new["lng"] = camera.tag["lng"] /\ new["agl"] = camera.tag["agl"]
        BY <4>2
      <4> QED BY <4>1, <4>3 DEF IInv, Tagging
    <3> QED BY <3>1, <3>2
  <2> HIDE DEF new
  <2> QED BY <1>1, <1>2, <2>1, <2>2, <2>3 DEF Tagging
<1>10. TagIsOfOnePlace'
  BY DEF IInv, TagIsOfOnePlace, Pictures
<1> QED BY <1>7, <1>8, <1>9, <1>10 DEF IInv

LEMMA FullTag ==
  ASSUME IInv, camera.done = 7, NEW p, p.tag = camera.tag, p.at = fix PROVE GoodPicture(p)
<1>1. DOMAIN camera.tag = TagFields /\ \A f \in TagFields : camera.tag[f] <= fix
  BY GetterTable DEF IInv, Tagging, TagUpTo
<1>2. camera.tag["lat"] = camera.tag["lng"] /\ camera.tag["lng"] <= camera.tag["agl"]
  BY SMT DEF IInv, Tagging
<1> QED BY <1>1, <1>2 DEF GoodPicture

LEMMA PicturesApart ==
  TagIsOfOnePlace <=> /\ \A i \in DOMAIN queue : GoodPicture(queue[i])
                      /\ \A r \in results : GoodPicture(r.picture)
                      /\ \A w \in Workers : workers[w].busy => GoodPicture(workers[w].picture)
BY DEF TagIsOfOnePlace, Pictures, GoodPicture

LEMMA PicturesTogether ==
  ASSUME \A i \in DOMAIN queue' : GoodPicture(queue'[i]),
         \A r \in results' : GoodPicture(r.picture),
         \A w \in Workers : workers'[w].busy => GoodPicture(workers'[w].picture)
  PROVE  TagIsOfOnePlace'
BY DEF TagIsOfOnePlace, Pictures, GoodPicture

LEMMA OwnRange ==
  ASSUME NEW S, NEW s \in Seq(S) PROVE s \in Seq({s[i] : i \in DOMAIN s})
<1> DEFINE T == {s[i] : i \in DOMAIN s}
<1>1. \A i \in DOMAIN s : s[i] \in T
  OBVIOUS
<1> HIDE DEF T
<1>2. s \in Seq(T)
  BY <1>1, SMT
<1> QED BY <1>2 DEF T

LEMMA TypedQueue ==
  ASSUME Typed
  PROVE  Len(queue) \in Nat /\ DOMAIN queue = 1..Len(queue) /\ taken \in 0..MaxPictures /\ MaxPictures \in Nat
BY PipelineAssumption DEF Typed, TypeOK

LEMMA NotTaggingInv == Got(0) = DOMAIN NotTagging.tag /\ NotTagging.done = 0 /\ NotTagging.tag = NoTag /\ TagUpTo(NotTagging.tag, fix)
BY GetterTable DEF NotTagging, NoTag, TagUpTo

LEMMA PictureTakenKeepsInv ==
  ASSUME IInv, NEW size, NEW scene, PictureTaken(size, scene) PROVE IInv'
<1> USE DEF PictureTaken, client
<1> DEFINE new == [tag |-> camera.tag, since |-> camera.since, at |-> fix, size |-> size, scene |-> scene]
<1>1. queue' = Append(queue, new)
  OBVIOUS
<1>2. /\ Len(queue') = Len(queue) + 1 /\ DOMAIN queue' = 1..(Len(queue) + 1)
      /\ \A i \in DOMAIN queue' : queue'[i] = IF i = Len(queue) + 1 THEN new ELSE queue[i]
      /\ queue' \in Seq({queue'[i] : i \in DOMAIN queue'})
  <2> HIDE DEF new
  <2>1. queue \in Seq({queue[i] : i \in DOMAIN queue} \union {new})
    BY TypedQueue, SMT DEF IInv, Typed
  <2>2. /\ Len(queue') = Len(queue) + 1 /\ DOMAIN queue' = 1..(Len(queue) + 1)
        /\ \A i \in DOMAIN queue' : queue'[i] = IF i = Len(queue) + 1 THEN new ELSE queue[i]
    BY <1>1, <2>1, SMT
  <2>3. queue' \in Seq({queue[i] : i \in DOMAIN queue} \union {new})
    BY <1>1, <2>1, SMT
  <2>4. queue' \in Seq({queue'[i] : i \in DOMAIN queue'})
    <3> HIDE DEF PictureTaken
    <3>1. \A S : \A s \in Seq(S) : s \in Seq({s[i] : i \in DOMAIN s})
      BY OwnRange
    <3> QED BY <2>3, <3>1, Zenon
  <2> QED BY <2>2, <2>4
<1>3. GoodPicture(new)
  <2>1. CASE camera.done = Len(Getters)
    BY <2>1, GetterTable, FullTag
  <2>2. CASE camera.done = 0
    BY <2>2 DEF IInv, Tagging, GoodPicture
  <2> QED BY <2>1, <2>2
<1> HIDE DEF new
<1>4. Typed'
  <2>1. taken' \in 0..MaxPictures /\ Len(queue') <= taken'
    <3>1. Len(queue) \in Nat /\ taken \in 0..MaxPictures /\ MaxPictures \in Nat /\ Len(queue) <= taken
      BY TypedQueue DEF IInv, Typed, TypeOK
    <3> QED BY <1>2, <3>1
  <2>2. camera'.done \in 0..Len(Getters) /\ DOMAIN camera'.tag \subseteq TagFields
    BY NotTaggingInv, GetterTable, SMT
  <2> QED BY <1>2, <2>1, <2>2 DEF IInv, Typed, TypeOK
<1>5. Telemetry'
  BY DEF IInv, Telemetry
<1>6. Tagging'
  BY NotTaggingInv, SMT DEF Tagging
<1>7. TagIsOfOnePlace'
  <2>1. \A i \in DOMAIN queue' : GoodPicture(queue'[i])
    BY <1>2, <1>3, TypedQueue, PicturesApart, SMT DEF IInv
  <2> QED BY <2>1, PicturesApart DEF IInv, TagIsOfOnePlace, Pictures, GoodPicture
<1> QED BY <1>4, <1>5, <1>6, <1>7 DEF IInv

LEMMA PictureFailedKeepsInv ==
  ASSUME IInv, PictureFailed PROVE IInv'
<1> USE DEF PictureFailed, client
<1>1. Typed'
  <2>1. camera'.done \in 0..Len(Getters) /\ DOMAIN camera'.tag \subseteq TagFields
    BY NotTaggingInv, GetterTable, SMT
  <2> QED BY <2>1 DEF IInv, Typed, TypeOK
<1>2. Telemetry'
  BY DEF IInv, Telemetry
<1>3. Tagging'
  BY NotTaggingInv, SMT DEF Tagging
<1>4. TagIsOfOnePlace'
  BY DEF IInv, TagIsOfOnePlace, Pictures
<1> QED BY <1>1, <1>2, <1>3, <1>4 DEF IInv

-----------------------------------------------------------------------------
(* The workers.                                                              *)

LEMMA PreprocessKeepsInv ==
  ASSUME IInv, NEW w \in Workers, Preprocess(w) PROVE IInv'
<1> USE DEF Preprocess, client
<1>1. /\ Len(queue') <= Len(queue) /\ Len(queue) \in Nat /\ Len(queue') \in Nat
      /\ queue' \in Seq({queue'[i] : i \in DOMAIN queue'})
      /\ \A i \in DOMAIN queue' : \E j \in DOMAIN queue : queue'[i] = queue[j]
      /\ \E j \in DOMAIN queue : Head(queue) = queue[j]
  <2>1. queue \in Seq({queue[i] : i \in DOMAIN queue}) /\ queue # <<>> /\ queue' = Tail(queue)
    BY DEF IInv, Typed
  <2>2. /\ Len(queue') = Len(queue) - 1 /\ Len(queue) \in Nat /\ Len(queue') \in Nat
        /\ DOMAIN queue' = 1..(Len(queue) - 1) /\ DOMAIN queue = 1..Len(queue)
        /\ \A i \in DOMAIN queue' : queue'[i] = queue[i + 1]
    BY <2>1, SMT
  <2>3. queue' \in Seq({queue[i] : i \in DOMAIN queue}) /\ Head(queue) = queue[1] /\ 1 \in DOMAIN queue
    BY <2>1, <2>2, SMT
  <2>4. \A i \in DOMAIN queue' : i + 1 \in DOMAIN queue
    BY <2>2, SMT
  <2>5. queue' \in Seq({queue'[i] : i \in DOMAIN queue'})
    <3> HIDE DEF Preprocess
    <3>1. queue' \in Seq({queue[i] : i \in DOMAIN queue})
      BY <2>3
    <3>2. \A S : \A s \in Seq(S) : s \in Seq({s[i] : i \in DOMAIN s})
      BY OwnRange
    <3> QED BY <3>1, <3>2, Zenon
  <2>6. Len(queue') <= Len(queue)
    BY <2>2, SMT
  <2> QED BY <2>2, <2>3, <2>4, <2>5, <2>6
<1>2. \A v \in Workers :
        /\ workers'[v].busy \in BOOLEAN
        /\ workers'[v].busy => {"busy", "picture"} \subseteq DOMAIN workers'[v]
        /\ workers'[v].busy => \/ v = w /\ workers'[v].picture = Head(queue)
                               \/ workers[v].busy /\ workers'[v].picture = workers[v].picture
  <2> TAKE v \in Workers
  <2>1. CASE v = w
    BY <2>1
  <2>2. CASE v # w /\ workers[v].busy
    <3>1. workers'[v] = [workers[v] EXCEPT !.disturbed = @ \/ members' # Members(SizeOf(v))]
      BY <2>2
    <3> QED BY <2>2, <3>1 DEF IInv, Typed
  <2>3. CASE v # w /\ ~workers[v].busy
    BY <2>3 DEF IInv, Typed, TypeOK
  <2> QED BY <2>1, <2>2, <2>3 DEF IInv, Typed, TypeOK
<1>3. workers' = [v \in Workers |-> workers'[v]]
  OBVIOUS
<1>4. Typed'
  <2>1. Len(queue') <= taken'
    BY <1>1, TypedQueue, SMT DEF IInv, Typed, TypeOK
  <2> QED BY <1>1, <1>2, <1>3, <2>1 DEF IInv, Typed, TypeOK
<1>5. Telemetry' /\ Tagging'
  BY DEF IInv, Telemetry, Tagging, TagUpTo
<1>6. TagIsOfOnePlace'
  <2>1. \A i \in DOMAIN queue' : GoodPicture(queue'[i])
    BY <1>1, PicturesApart DEF IInv
  <2>2. \A v \in Workers : workers'[v].busy => GoodPicture(workers'[v].picture)
    BY <1>1, <1>2, PicturesApart DEF IInv
  <2>3. \A r \in results' : GoodPicture(r.picture)
    BY PicturesApart DEF IInv
  <2> QED BY <2>1, <2>2, <2>3, PicturesTogether
<1> QED BY <1>4, <1>5, <1>6 DEF IInv

LEMMA DetectKeepsInv ==
  ASSUME IInv, NEW w \in Workers, Detect(w) PROVE IInv'
<1> USE DEF Detect, client
<1>1. \A v \in Workers :
        /\ workers'[v].busy = workers[v].busy
        /\ workers[v].busy => /\ DOMAIN workers'[v] = DOMAIN workers[v]
                              /\ workers'[v].picture = workers[v].picture
  <2>1. PICK found, anchor :
          workers' = [workers EXCEPT
            ![w].done = @ + 1, ![w].dets = IF IsCandidate(anchor) THEN Append(@, found) ELSE @]
    OBVIOUS
  <2>2. workers = [v \in Workers |-> workers[v]] /\ {"busy", "picture"} \subseteq DOMAIN workers[w]
    BY DEF IInv, Typed
  <2>3. ASSUME NEW v \in Workers, v # w PROVE workers'[v] = workers[v]
    BY <2>1, <2>2, <2>3
  <2>4. /\ workers'[w].busy = workers[w].busy /\ DOMAIN workers'[w] = DOMAIN workers[w]
        /\ workers'[w].picture = workers[w].picture
    <3>1. PICK done, dets : workers'[w] = [workers[w] EXCEPT !.done = done, !.dets = dets]
      BY <2>1, <2>2
    <3> QED BY <2>2, <3>1
  <2> QED BY <2>3, <2>4
<1>2. workers' = [v \in Workers |-> workers'[v]]
  BY DEF IInv, Typed
<1>3. Typed'
  <2>1. \A v \in Workers : /\ workers'[v].busy \in BOOLEAN
                           /\ workers'[v].busy => {"busy", "picture"} \subseteq DOMAIN workers'[v]
    BY <1>1 DEF IInv, Typed, TypeOK
  <2>2. /\ Typed
        /\ UNCHANGED <<link, todo, mav, fix, data, camera, queue, taken>>
    BY DEF IInv
  <2>3. TypeOK'
    BY <2>1, <2>2 DEF Typed, TypeOK
  <2>4. queue' \in Seq({queue'[i] : i \in DOMAIN queue'})
    BY <2>2 DEF Typed
  <2> QED BY <1>2, <2>1, <2>3, <2>4, Zenon DEF Typed
<1>4. Telemetry' /\ Tagging'
  BY DEF IInv, Telemetry, Tagging, TagUpTo
<1>5. TagIsOfOnePlace'
  <2>1. \A v \in Workers : workers'[v].busy => GoodPicture(workers'[v].picture)
    BY <1>1, PicturesApart DEF IInv
  <2>2. \A i \in DOMAIN queue' : GoodPicture(queue'[i])
    BY PicturesApart DEF IInv
  <2>3. \A r \in results' : GoodPicture(r.picture)
    BY PicturesApart DEF IInv
  <2> QED BY <2>1, <2>2, <2>3, PicturesTogether
<1> QED BY <1>3, <1>4, <1>5 DEF IInv

LEMMA FinishKeepsInv ==
  ASSUME IInv, NEW w \in Workers, Finish(w) PROVE IInv'
<1> USE DEF Finish, client
<1>1. workers' = [workers EXCEPT ![w] = Idle] /\ UNCHANGED <<client, fix, data, camera, queue, taken, members>>
  OBVIOUS
<1>2. PICK new : new.picture = workers[w].picture /\ results' = results \union {new}
  OBVIOUS
<1>3. workers[w].busy
  OBVIOUS
<1>4. \A v \in Workers : workers'[v] = IF v = w THEN Idle ELSE workers[v]
  BY <1>1 DEF IInv, Typed
<1>5. Typed'
  <2>1. workers' = [v \in Workers |-> workers'[v]]
    BY <1>1 DEF IInv, Typed
  <2>2. \A v \in Workers : /\ workers'[v].busy \in BOOLEAN
                           /\ workers'[v].busy => {"busy", "picture"} \subseteq DOMAIN workers'[v]
    BY <1>4 DEF IInv, Typed, TypeOK, Idle
  <2> QED BY <1>1, <2>1, <2>2 DEF IInv, Typed, TypeOK
<1>6. Telemetry' /\ Tagging'
  BY <1>1 DEF IInv, Telemetry, Tagging, TagUpTo
<1>7. TagIsOfOnePlace'
  <2>1. \A r \in results' : GoodPicture(r.picture)
    <3>1. GoodPicture(workers[w].picture)
      BY <1>3, PicturesApart DEF IInv
    <3> QED BY <1>2, <3>1, PicturesApart DEF IInv, GoodPicture
  <2>2. \A v \in Workers : workers'[v].busy => GoodPicture(workers'[v].picture)
    BY <1>4, PicturesApart DEF IInv, Idle
  <2>3. \A i \in DOMAIN queue' : GoodPicture(queue'[i])
    BY <1>1, PicturesApart DEF IInv
  <2> QED BY <2>1, <2>2, <2>3, PicturesTogether
<1> QED BY <1>5, <1>6, <1>7 DEF IInv

-----------------------------------------------------------------------------
LEMMA NextKeepsInv == IInv /\ [Next]_vars => IInv'
<1> SUFFICES ASSUME IInv, [Next]_vars PROVE IInv'
  OBVIOUS
<1>1. CASE ConnectionAdded
  BY <1>1, ClientKeepsInv DEF ConnectionAdded, Working, IInv, Typed, TypeOK
<1>2. CASE HeartbeatCame
  BY <1>2, ClientKeepsInv, PipelineAssumption DEF HeartbeatCame, Working, IInv, Typed, TypeOK
<1>3. CASE ParamSet
  <2>1. todo - 1 \in Nat
    BY <1>3, SMT DEF ParamSet, IInv, Typed, TypeOK
  <2> QED BY <1>3, <2>1, ClientKeepsInv DEF ParamSet, Working, IInv, Typed, TypeOK
<1>4. CASE RateSet
  <2>1. Len(Subscriptions) \in Nat
    BY SMT DEF Subscriptions
  <2> QED BY <1>4, <2>1, ClientKeepsInv DEF RateSet, Working, IInv, Typed, TypeOK
<1>5. CASE Subscribe
  <2>1. todo - 1 \in Nat
    BY <1>5, SMT DEF Subscribe, IInv, Typed, TypeOK
  <2> QED BY <1>5, <2>1, ClientKeepsInv DEF Subscribe, Working, IInv, Typed, TypeOK
<1>6. CASE SetMav
  BY <1>6, ClientKeepsInv DEF SetMav, IInv, Typed, TypeOK
<1>7. CASE PlaneMoves
  BY <1>7, PlaneKeepsInv
<1>8. ASSUME NEW s \in Streams, Message(s) PROVE IInv'
  BY <1>8, MessageKeepsInv
<1>9. CASE Query
  BY <1>9, QueryKeepsInv
<1>10. ASSUME NEW size \in Sizes, NEW scene \in Scenes, PictureTaken(size, scene) PROVE IInv'
  BY <1>10, PictureTakenKeepsInv
<1>11. CASE PictureFailed
  BY <1>11, PictureFailedKeepsInv
<1>12. ASSUME NEW w \in Workers, Preprocess(w) \/ Detect(w) \/ Finish(w) PROVE IInv'
  BY <1>12, PreprocessKeepsInv, DetectKeepsInv, FinishKeepsInv
<1>13. CASE UNCHANGED vars
  BY <1>13, ClientKeepsInv DEF vars, client, IInv, Typed, TypeOK
<1> QED BY <1>1, <1>2, <1>3, <1>4, <1>5, <1>6, <1>7, <1>8, <1>9, <1>10, <1>11, <1>12, <1>13 DEF Next

\* The invariant is inductive: types, telemetry, the tag under way and the tags taken.
THEOREM Inductive == Spec => []IInv
BY InitInv, NextKeepsInv, PTL DEF Spec

\* Every variable keeps its type for any flight, streams, pictures and workers.
THEOREM TypeCorrect == Spec => []TypeOK
<1>1. IInv => TypeOK
  BY DEF IInv, Typed
<1> QED BY <1>1, Inductive, PTL

\* However telemetry comes in between the getters of queryMavlinkImageTelemetry and
\* whichever thread handles a picture: the position in a picture's tag is of one fix, the
\* altitude is as new, and nothing in it is newer than the picture.
THEOREM TagsAreOfOnePlace == Spec => []TagIsOfOnePlace
<1>1. IInv => TagIsOfOnePlace
  BY DEF IInv
<1> QED BY <1>1, Inductive, PTL

LEMMA Quotient ==
  ASSUME NEW a \in Int, NEW n \in Nat \ {0}
  PROVE  a \div n \in Int /\ n * (a \div n) <= a /\ a < n * (a \div n) + n
BY SMT

LEMMA ProductOrder ==
  ASSUME NEW n \in Nat \ {0}, NEW k \in Int, NEW q \in Int, k + 1 <= q
  PROVE  n * k + n <= n * q
<1>1. q - k - 1 \in Nat
  BY SMT
<1>2. n * (q - k - 1) >= 0
  BY <1>1, SMT
<1>3. n * (q - k - 1) = n * q - n * k - n
  BY SMT
<1> QED BY <1>2, <1>3, SMT

LEMMA QuotientIs ==
  ASSUME NEW a \in Int, NEW n \in Nat \ {0}, NEW k \in Int, n * k <= a, a < n * k + n
  PROVE  a \div n = k
<1> DEFINE q == a \div n
<1>1. q \in Int /\ n * q <= a /\ a < n * q + n /\ n * q \in Int /\ n * k \in Int
  BY Quotient, SMT
<1> HIDE DEF q
<1>2. CASE k + 1 <= q
  <2>1. n * k + n <= n * q
    BY <1>1, <1>2, ProductOrder
  <2> QED BY <1>1, <2>1, SMT
<1>3. CASE q + 1 <= k
  <2>1. n * q + n <= n * k
    BY <1>1, <1>3, ProductOrder
  <2> QED BY <1>1, <2>1, SMT
<1>4. q = k
  BY <1>1, <1>2, <1>3, SMT
<1> QED BY <1>4 DEF q

LEMMA QuotientAtLeast ==
  ASSUME NEW a \in Int, NEW n \in Nat \ {0}, NEW k \in Int, n * k <= a
  PROVE  k <= a \div n
<1> DEFINE q == a \div n
<1>1. q \in Int /\ n * q <= a /\ a < n * q + n /\ n * q \in Int /\ n * k \in Int
  BY Quotient, SMT
<1> HIDE DEF q
<1>2. CASE q + 1 <= k
  <2>1. n * q + n <= n * k
    BY <1>1, <1>2, ProductOrder
  <2> QED BY <1>1, <2>1, SMT
<1>3. k <= q
  BY <1>1, <1>2, SMT
<1> QED BY <1>3 DEF q

LEMMA QuotientLess ==
  ASSUME NEW a \in Int, NEW n \in Nat \ {0}, NEW k \in Int, a < n * k
  PROVE  a \div n < k
<1> DEFINE q == a \div n
<1>1. q \in Int /\ n * q <= a /\ a < n * q + n /\ n * q \in Int /\ n * k \in Int
  BY Quotient, SMT
<1> HIDE DEF q
<1>2. CASE k <= q
  <2>1. CASE k = q
    BY <2>1, <1>1, SMT
  <2>2. CASE k + 1 <= q
    <3>1. n * k + n <= n * q
      BY <1>1, <2>2, ProductOrder
    <3> QED BY <1>1, <3>1, SMT
  <2> QED BY <1>1, <1>2, <2>1, <2>2, SMT
<1>3. q < k
  BY <1>1, <1>2, SMT
<1> QED BY <1>3 DEF q

LEMMA RoundUp ==
  ASSUME NEW d \in Nat \ {0}, NEW n \in Nat \ {0}
  PROVE  LET c == (d + n - 1) \div n IN c \in Nat \ {0} /\ d <= n * c
<1> DEFINE c == (d + n - 1) \div n
<1>1. c \in Int /\ n * c \in Int /\ d + n - 1 < n * c + n
  BY Quotient, SMT
<1>2. 1 <= c
  BY QuotientAtLeast, SMT
<1> QED BY <1>1, <1>2, SMT

\* One coordinate: a place x in the picture, seen at a subpixel of the network that is
\* e less than exact, behind a padding one pixel off at the most, comes back around x.
LEMMA ComesBack ==
  ASSUME NEW n \in Nat \ {0}, NEW d \in Nat \ {0}, NEW q \in Int, q * d = Unit * n,
         NEW extent \in Nat \ {0}, NEW x \in 0..extent, NEW pad \in Int,
         NEW off \in {0, 1}, NEW e \in {0, 1}
  PROVE  LET slack == (d + n - 1) \div n + 1
             place == InPicture(x * q - e + (pad + off) * Unit, pad, <<n, d>>, extent) \div Unit
         IN  place - x \in -slack..slack
<1> DEFINE c == (d + n - 1) \div n
           t == x * q - e + off * Unit
           back == (t * d) \div n
           m == Most2(0, Least2(back, (extent - 1) * Unit))
<1>0. Unit \in Nat \ {0}
  BY DetectorAssumption
<1>1. c \in Nat \ {0} /\ d <= n * c
  BY RoundUp
<1>2. (x * q - e + (pad + off) * Unit) - pad * Unit = t /\ t \in Int
  BY <1>0, SMT
<1>3. t * d = n * (x * Unit) + (off * Unit - e) * d /\ t * d \in Int
  <2>1. t * d = x * (q * d) + (off * Unit - e) * d
    BY <1>0, SMT
  <2>2. x * (q * d) = n * (x * Unit)
    BY <1>0, SMT
  <2> QED BY <2>1, <2>2, <1>2, SMT
<1> HIDE DEF c, t
<1>4. x * Unit - c <= back
  <2>1. (off * Unit - e) * d >= -d
    BY <1>0, SMT
  <2>2. n * (x * Unit - c) = n * (x * Unit) - n * c
    BY <1>0, <1>1, SMT
  <2>3. n * (x * Unit - c) <= t * d /\ x * Unit - c \in Int
    BY <1>0, <1>1, <1>3, <2>1, <2>2, SMT
  <2> QED BY <2>3, <1>3, QuotientAtLeast
<1>5. back < Unit * (x + c) + 1
  <2>1. (off * Unit - e) * d <= Unit * d
    BY <1>0, SMT
  <2>2. Unit * d <= Unit * (n * c)
    BY <1>0, <1>1, SMT
  <2>3. n * (Unit * (x + c) + 1) = n * (x * Unit) + Unit * (n * c) + n
    BY <1>0, <1>1, SMT
  <2>4. t * d < n * (Unit * (x + c) + 1) /\ Unit * (x + c) + 1 \in Int
    BY <1>0, <1>1, <1>3, <2>1, <2>2, <2>3, SMT
  <2> QED BY <2>4, <1>3, QuotientLess
<1>6. back \in Int
  BY <1>3, Quotient
<1> HIDE DEF back
<1>7. m \in Int /\ Unit * (x - c - 1) <= m /\ m < Unit * (x + c + 1)
  <2>1. Unit * (x - c - 1) <= x * Unit - c /\ Unit * (x - c - 1) \in Int
    <3>1. c <= Unit * c
      BY <1>0, <1>1, SMT
    <3>2. Unit * (x - c - 1) = x * Unit - Unit * c - Unit
      BY <1>0, <1>1, SMT
    <3> QED BY <1>0, <1>1, <3>1, <3>2, SMT
  <2>2. Unit * (x - c - 1) <= (extent - 1) * Unit /\ (extent - 1) * Unit \in Int
    <3>1. x - c - 1 <= extent - 1
      BY <1>1, SMT
    <3> QED BY <1>0, <1>1, <3>1, SMT
  <2>3. 0 < Unit * (x + c + 1) /\ Unit * (x + c) + 1 <= Unit * (x + c + 1) /\ Unit * (x + c + 1) \in Int
    BY <1>0, <1>1, SMT
  <2>4. Least2(back, (extent - 1) * Unit) \in {back, (extent - 1) * Unit} /\ Least2(back, (extent - 1) * Unit) <= back
    BY <1>6, <2>2, SMT DEF Least2
  <2>5. m \in {0, Least2(back, (extent - 1) * Unit)} /\ m >= Least2(back, (extent - 1) * Unit)
    BY <1>6, <2>2, <2>4, SMT DEF Most2
  <2> HIDE DEF m
  <2> QED BY <1>4, <1>5, <1>6, <2>1, <2>2, <2>3, <2>4, <2>5, <1>0, <1>1, SMT
<1> HIDE DEF m
<1>8. x - c - 1 <= m \div Unit /\ m \div Unit < x + c + 1 /\ m \div Unit \in Int
  BY <1>0, <1>1, <1>7, Quotient, QuotientAtLeast, QuotientLess
<1>9. m \div Unit - x \in -(c + 1)..(c + 1)
  BY <1>1, <1>8, SMT
<1>10. InPicture(x * q - e + (pad + off) * Unit, pad, <<n, d>>, extent) = m
  BY <1>2 DEF InPicture, m, back
<1> QED BY <1>9, <1>10 DEF c
LEMMA LeastElement ==
  ASSUME NEW T, T \subseteq Nat, T # {}
  PROVE  \E n \in T : \A m \in T : n <= m
<1>1. PICK top \in T : TRUE
  OBVIOUS
<1> DEFINE Below == {0..n : n \in T \intersect 0..top}
           R == StrictSubsetOrdering(0..top)
<1>2. IsWellFoundedOn(R, SUBSET (0..top))
  <2>1. IsFiniteSet(0..top)
    BY <1>1, FS_Interval
  <2> QED BY <2>1, FS_StrictSubsetOrderingWellFounded, FS_FiniteSubsetsOfFinite
<1>3. Below \subseteq SUBSET (0..top) /\ Below # {}
  <2>1. \A n \in 0..top : 0..n \subseteq 0..top
    BY <1>1
  <2>2. top \in 0..top
    BY <1>1
  <2> QED BY <1>1, <2>1, <2>2
<1>4. PICK b \in Below : \A c \in Below : ~(<<c, b>> \in R)
  <2> HIDE DEF Below, R
  <2> QED BY <1>2, <1>3, WFMin, Zenon
<1>5. PICK n \in T \intersect 0..top : b = 0..n
  OBVIOUS
<1>6. ASSUME NEW m \in T, ~(n <= m) PROVE FALSE
  <2>1. m \in 0..top /\ 0..m \subseteq 0..n /\ n \in 0..n /\ n \notin 0..m /\ 0..n \subseteq 0..top
    BY <1>1, <1>6, SMT
  <2>2. 0..m \in Below /\ <<0..m, b>> \in R
    BY <1>5, <2>1 DEF StrictSubsetOrdering
  <2> QED BY <1>4, <2>2
<1> QED BY <1>6

-----------------------------------------------------------------------------
(* Boxes: a thing the network sees comes back as a box around it.            *)

Detections ==
  [x1 : Int, y1 : Int, x2 : Int, y2 : Int, confidence : Nat, class_id : Nat]
Things == [x1 : Nat, y1 : Nat, x2 : Nat, y2 : Nat, scores : Seq(Nat)]
PictureSizes == [cols : Nat \ {0}, rows : Nat \ {0}]

LEMMA ScaleIsPositive ==
  ASSUME NEW size \in PictureSizes
  PROVE  /\ Scale(size) = <<Scale(size)[1], Scale(size)[2]>>
         /\ Scale(size)[1] \in Nat \ {0} /\ Scale(size)[2] \in Nat \ {0}
<1>1. {InputWidth, InputHeight} \subseteq Nat \ {0} /\ size.cols \in Nat \ {0} /\ size.rows \in Nat \ {0}
  BY DetectorAssumption DEF PictureSizes
<1> QED BY <1>1, SMT DEF Scale

LEMMA CropKeepsSize ==
  ASSUME NEW size \in PictureSizes PROVE CropRight(size) \in PictureSizes
<1>1. CASE size.cols <= CropPixels
  BY <1>1 DEF CropRight
<1>2. CASE ~(size.cols <= CropPixels)
  <2>1. size.cols - CropPixels \in Nat \ {0}
    BY <1>2, DetectorAssumption, SMT DEF PictureSizes
  <2> QED BY <1>2, <2>1 DEF CropRight, PictureSizes
<1> QED BY <1>1, <1>2

LEMMA RoundedIsInt ==
  ASSUME NEW n \in Int, NEW d \in Nat \ {0} PROVE Rounded(n, d) \in Int
<1>1. 2 * n + d \in Int /\ 2 * d \in Nat \ {0}
  BY SMT
<1> QED BY <1>1, Quotient DEF Rounded

\* What letterbox() puts before the picture is what unletterboxing takes off, or one more.
LEMMA PaddingTwice ==
  ASSUME NEW size \in PictureSizes
  PROVE  /\ Members(size).scale = Scale(size)
         /\ Members(size).padLeft \in Int /\ Members(size).padTop \in Int
         /\ Letterbox(size).left \in Int /\ Letterbox(size).top \in Int
         /\ Letterbox(size).left - Members(size).padLeft \in {0, 1}
         /\ Letterbox(size).top - Members(size).padTop \in {0, 1}
<1>1. PaddingX(size) \in Int /\ PaddingY(size) \in Int
  <2>1. /\ size.cols * Scale(size)[1] \in Int /\ size.rows * Scale(size)[1] \in Int
        /\ Scale(size)[2] \in Nat \ {0}
    BY ScaleIsPositive, SMT DEF PictureSizes
  <2>2. /\ Rounded(size.cols * Scale(size)[1], Scale(size)[2]) \in Int
        /\ Rounded(size.rows * Scale(size)[1], Scale(size)[2]) \in Int
    BY <2>1, RoundedIsInt
  <2>3. InputWidth \in Int /\ InputHeight \in Int
    BY DetectorAssumption
  <2> QED BY <2>2, <2>3, SMT DEF PaddingX, PaddingY
<1>2. \A p \in Int : p \div 2 \in Int /\ Rounded(p, 2) \in Int /\ Rounded(p, 2) - p \div 2 \in {0, 1}
  BY SMT DEF Rounded
<1> QED BY <1>1, <1>2 DEF Members, Letterbox

\* The two ends of a box from its middle and its length, as the anchor has them.
LEMMA EndsOfABox ==
  ASSUME NEW a \in Int, NEW b \in Int, NEW m \in Int
  PROVE  /\ ((a + b) \div 2 + m) - (b - a) \div 2 = a + m
         /\ \E e \in {0, 1} : ((a + b) \div 2 + m) + (b - a) \div 2 = b - e + m
<1>1. \A s \in Int : s \div 2 \in Int /\ (s = 2 * (s \div 2) \/ s = 2 * (s \div 2) + 1)
  BY SMT
<1> DEFINE h == (a + b) \div 2
           g == (b - a) \div 2
<1>2. /\ h \in Int /\ (a + b = 2 * h \/ a + b = 2 * h + 1)
      /\ g \in Int /\ (b - a = 2 * g \/ b - a = 2 * g + 1)
  BY <1>1
<1> HIDE DEF h, g
<1>3. h + m - g = a + m
  BY <1>2, SMT
<1>4. h + m + g = b - 0 + m \/ h + m + g = b - 1 + m
  BY <1>2, SMT
<1> QED BY <1>3, <1>4 DEF h, g

\* With as many units as UnitAssumption asks for, a length seen by the network is exact.
LEMMA SeenExactly ==
  ASSUME NEW n \in Nat \ {0}, NEW d \in Nat \ {0}, (Unit * n) % d = 0
  PROVE  \E q \in Int : q * d = Unit * n /\ \A v \in Int : (v * Unit * n) \div d = v * q
<1> DEFINE q == (Unit * n) \div d
<1>1. Unit * n \in Int
  BY DetectorAssumption, SMT
<1>2. q \in Int /\ q * d = Unit * n
  BY <1>1, SMT
<1> HIDE DEF q
<1>3. ASSUME NEW v \in Int PROVE (v * Unit * n) \div d = v * q
  <2>1. v * Unit * n = d * (v * q) /\ v * Unit * n \in Int /\ v * q \in Int
    BY <1>2, DetectorAssumption, SMT
  <2>2. d * (v * q) < d * (v * q) + d
    BY <2>1, SMT
  <2> QED BY <2>1, <2>2, QuotientIs
<1> QED BY <1>2, <1>3

LEMMA BoxIsAround ==
  ASSUME NEW size \in PictureSizes, (Unit * Scale(size)[1]) % Scale(size)[2] = 0,
         NEW thing \in Things, thing.x1 <= thing.x2, thing.y1 <= thing.y2,
         thing.x2 <= size.cols, thing.y2 <= size.rows
  PROVE  Near(BoxOf(DetectionOf(Anchor(thing, size), Members(size), size)), thing, size)
<1> DEFINE n == Scale(size)[1]
           d == Scale(size)[2]
           anchor == Anchor(thing, size)
           found == DetectionOf(anchor, Members(size), size)
           left == Members(size).padLeft
           top == Members(size).padTop
<1>1. n \in Nat \ {0} /\ d \in Nat \ {0} /\ Scale(size) = <<n, d>>
  BY ScaleIsPositive
<1>2. PICK q \in Int : q * d = Unit * n /\ \A v \in Int : (v * Unit * n) \div d = v * q
  BY <1>1, SeenExactly
<1>3. PICK offX \in {0, 1} : Letterbox(size).left = left + offX
  BY PaddingTwice, SMT
<1>4. PICK offY \in {0, 1} : Letterbox(size).top = top + offY
  BY PaddingTwice, SMT
<1>5. /\ Unit \in Nat \ {0} /\ left \in Int /\ top \in Int
      /\ thing.x1 \in 0..size.cols /\ thing.x2 \in 0..size.cols
      /\ thing.y1 \in 0..size.rows /\ thing.y2 \in 0..size.rows
      /\ size.cols \in Nat \ {0} /\ size.rows \in Nat \ {0}
  <2>1. Unit \in Nat \ {0} /\ left \in Int /\ top \in Int
    BY PaddingTwice, DetectorAssumption
  <2>2. /\ size.cols \in Nat \ {0} /\ size.rows \in Nat \ {0}
        /\ thing.x1 \in Nat /\ thing.x2 \in Nat /\ thing.y1 \in Nat /\ thing.y2 \in Nat
    BY DEF PictureSizes, Things
  <2> HIDE DEF left, top
  <2>3. /\ thing.x1 \in 0..size.cols /\ thing.x2 \in 0..size.cols
        /\ thing.y1 \in 0..size.rows /\ thing.y2 \in 0..size.rows
    BY <2>2, SMT
  <2> QED BY <2>1, <2>2, <2>3
<1>6. /\ anchor.x = (thing.x1 * q + thing.x2 * q) \div 2 + (left + offX) * Unit
      /\ anchor.w = thing.x2 * q - thing.x1 * q
      /\ anchor.y = (thing.y1 * q + thing.y2 * q) \div 2 + (top + offY) * Unit
      /\ anchor.h = thing.y2 * q - thing.y1 * q
  <2>1. \A a, b \in Int : /\ ((a + b) * Unit * n) \div d = a * q + b * q
                          /\ ((b - a) * Unit * n) \div d = b * q - a * q
    <3> TAKE a, b \in Int
    <3>1. a + b \in Int /\ b - a \in Int /\ (a + b) * q = a * q + b * q /\ (b - a) * q = b * q - a * q
      BY SMT
    <3> QED BY <1>2, <3>1
  <2>2. /\ anchor.x = (((thing.x1 + thing.x2) * Unit * n) \div d) \div 2 + Letterbox(size).left * Unit
        /\ anchor.w = ((thing.x2 - thing.x1) * Unit * n) \div d
        /\ anchor.y = (((thing.y1 + thing.y2) * Unit * n) \div d) \div 2 + Letterbox(size).top * Unit
        /\ anchor.h = ((thing.y2 - thing.y1) * Unit * n) \div d
    BY DEF Anchor
  <2>3. /\ thing.x1 \in Int /\ thing.x2 \in Int /\ thing.y1 \in Int /\ thing.y2 \in Int
    BY <1>5
  <2> HIDE DEF anchor, left, top, n, d
  <2> QED BY <1>3, <1>4, <2>1, <2>2, <2>3
<1>7. PICK eX \in {0, 1}, eY \in {0, 1} :
        /\ anchor.x - anchor.w \div 2 = thing.x1 * q - 0 + (left + offX) * Unit
        /\ anchor.x + anchor.w \div 2 = thing.x2 * q - eX + (left + offX) * Unit
        /\ anchor.y - anchor.h \div 2 = thing.y1 * q - 0 + (top + offY) * Unit
        /\ anchor.y + anchor.h \div 2 = thing.y2 * q - eY + (top + offY) * Unit
  <2> HIDE DEF anchor, left, top
  <2>1. /\ thing.x1 * q \in Int /\ thing.x2 * q \in Int /\ (left + offX) * Unit \in Int
        /\ thing.y1 * q \in Int /\ thing.y2 * q \in Int /\ (top + offY) * Unit \in Int
        /\ thing.x1 * q - 0 = thing.x1 * q /\ thing.y1 * q - 0 = thing.y1 * q
    BY <1>5, SMT
  <2>2. /\ anchor.x - anchor.w \div 2 = thing.x1 * q + (left + offX) * Unit
        /\ \E e \in {0, 1} : anchor.x + anchor.w \div 2 = thing.x2 * q - e + (left + offX) * Unit
    <3>1. PICK a \in Int, b \in Int, m \in Int : a = thing.x1 * q /\ b = thing.x2 * q /\ m = (left + offX) * Unit
      BY <2>1
    <3>2. anchor.x = (a + b) \div 2 + m /\ anchor.w = b - a
      BY <1>6, <3>1
    <3>3. /\ ((a + b) \div 2 + m) - (b - a) \div 2 = a + m
          /\ \E e \in {0, 1} : ((a + b) \div 2 + m) + (b - a) \div 2 = b - e + m
      BY EndsOfABox
    <3> QED BY <3>1, <3>2, <3>3
  <2>3. /\ anchor.y - anchor.h \div 2 = thing.y1 * q + (top + offY) * Unit
        /\ \E e \in {0, 1} : anchor.y + anchor.h \div 2 = thing.y2 * q - e + (top + offY) * Unit
    <3>1. PICK a \in Int, b \in Int, m \in Int : a = thing.y1 * q /\ b = thing.y2 * q /\ m = (top + offY) * Unit
      BY <2>1
    <3>2. anchor.y = (a + b) \div 2 + m /\ anchor.h = b - a
      BY <1>6, <3>1
    <3>3. /\ ((a + b) \div 2 + m) - (b - a) \div 2 = a + m
          /\ \E e \in {0, 1} : ((a + b) \div 2 + m) + (b - a) \div 2 = b - e + m
      BY EndsOfABox
    <3> QED BY <3>1, <3>2, <3>3
  <2> QED BY <2>1, <2>2, <2>3
<1> DEFINE slack == (d + n - 1) \div n + 1
<1>8. Slack(size) = slack
  BY DEF Slack
<1>9. /\ found.x1 = InPicture(thing.x1 * q - 0 + (left + offX) * Unit, left, <<n, d>>, size.cols)
      /\ found.x2 = InPicture(thing.x2 * q - eX + (left + offX) * Unit, left, <<n, d>>, size.cols)
      /\ found.y1 = InPicture(thing.y1 * q - 0 + (top + offY) * Unit, top, <<n, d>>, size.rows)
      /\ found.y2 = InPicture(thing.y2 * q - eY + (top + offY) * Unit, top, <<n, d>>, size.rows)
  <2>1. /\ found.x1 = InPicture(anchor.x - anchor.w \div 2, left, <<n, d>>, size.cols)
        /\ found.x2 = InPicture(anchor.x + anchor.w \div 2, left, <<n, d>>, size.cols)
        /\ found.y1 = InPicture(anchor.y - anchor.h \div 2, top, <<n, d>>, size.rows)
        /\ found.y2 = InPicture(anchor.y + anchor.h \div 2, top, <<n, d>>, size.rows)
    <3> HIDE DEF anchor
    <3> QED BY <1>1, PaddingTwice DEF DetectionOf
  <2> HIDE DEF found, anchor, left, top, n, d
  <2> QED BY <1>7, <2>1
<1> HIDE DEF found, anchor, left, top, n, d
<1>10. \A x, extent, pad : \A off, e \in {0, 1} :
         extent \in Nat \ {0} /\ x \in 0..extent /\ pad \in Int =>
           InPicture(x * q - e + (pad + off) * Unit, pad, <<n, d>>, extent) \div Unit - x \in -slack..slack
  <2> TAKE x, extent, pad
  <2> TAKE off, e \in {0, 1}
  <2> HAVE extent \in Nat \ {0} /\ x \in 0..extent /\ pad \in Int
  <2> QED BY <1>1, <1>2, ComesBack DEF slack
<1> HIDE DEF slack
<1>11. 0 \in {0, 1}
  OBVIOUS
<1>12. /\ found.x1 \div Unit - thing.x1 \in -slack..slack
       /\ found.x2 \div Unit - thing.x2 \in -slack..slack
  <2>1. InPicture(thing.x1 * q - 0 + (left + offX) * Unit, left, <<n, d>>, size.cols) \div Unit - thing.x1 \in -slack..slack
    BY <1>5, <1>10, <1>11, Zenon
  <2>2. InPicture(thing.x2 * q - eX + (left + offX) * Unit, left, <<n, d>>, size.cols) \div Unit - thing.x2 \in -slack..slack
    BY <1>5, <1>10, Zenon
  <2> QED BY <1>9, <2>1, <2>2, Zenon
<1>13. /\ found.y1 \div Unit - thing.y1 \in -slack..slack
       /\ found.y2 \div Unit - thing.y2 \in -slack..slack
  <2>1. InPicture(thing.y1 * q - 0 + (top + offY) * Unit, top, <<n, d>>, size.rows) \div Unit - thing.y1 \in -slack..slack
    BY <1>5, <1>10, <1>11, Zenon
  <2>2. InPicture(thing.y2 * q - eY + (top + offY) * Unit, top, <<n, d>>, size.rows) \div Unit - thing.y2 \in -slack..slack
    BY <1>5, <1>10, Zenon
  <2> QED BY <1>9, <2>1, <2>2, Zenon
<1> QED BY <1>8, <1>12, <1>13 DEF Near, BoxOf, found, anchor

-----------------------------------------------------------------------------
(* Classes: the best one exists, so that a candidate is what is worth it.    *)

LEMMA BestExists ==
  ASSUME NEW scores \in Seq(Nat), scores # <<>>
  PROVE  /\ BestClass(scores) \in DOMAIN scores
         /\ \A c \in DOMAIN scores : scores[c] <= scores[BestClass(scores)]
<1> DEFINE Best(n) == \E c \in 1..n : \A d \in 1..n : scores[d] <= scores[c]
           T == {n \in 1..Len(scores) : ~Best(n)}
<1>1. Len(scores) \in Nat \ {0} /\ DOMAIN scores = 1..Len(scores) /\ \A c \in 1..Len(scores) : scores[c] \in Nat
  BY SMT
<1>2. ASSUME T # {} PROVE FALSE
  <2>1. PICK n \in T : \A m \in T : n <= m
    <3>1. T \subseteq Nat
      OBVIOUS
    <3> HIDE DEF T
    <3> QED BY <3>1, <1>2, LeastElement
  <2>2. CASE n = 1
    <3>1. \A d \in 1..1 : scores[d] <= scores[1]
      BY <1>1, SMT
    <3> QED BY <2>1, <2>2, <3>1
  <2>3. CASE n # 1
    <3>1. n - 1 \in 1..Len(scores) /\ ~(n <= n - 1) /\ \A d \in 1..n : d \in 1..(n - 1) \/ d = n
      <4>1. n \in 1..Len(scores) /\ Len(scores) \in Nat
        BY <1>1, <2>1
      <4> HIDE DEF T, Best
      <4> QED BY <2>3, <4>1, SMT
    <3>2. PICK c \in 1..(n - 1) : \A d \in 1..(n - 1) : scores[d] <= scores[c]
      BY <2>1, <3>1
    <3>3. c \in 1..Len(scores) /\ n \in 1..Len(scores) /\ c \in 1..n /\ n \in 1..n
      BY <1>1, <2>1, <3>1, SMT
    <3>4. CASE scores[n] <= scores[c]
      BY <2>1, <3>1, <3>2, <3>3, <3>4
    <3>5. CASE ~(scores[n] <= scores[c])
      <4>1. \A d \in 1..n : scores[d] <= scores[n]
        <5> TAKE d \in 1..n
        <5>0. d \in 1..Len(scores)
          BY <1>1, <3>3, SMT
        <5>1. scores[d] \in Nat /\ scores[n] \in Nat /\ scores[c] \in Nat
          BY <1>1, <3>3, <5>0
        <5>2. d = n \/ scores[d] <= scores[c]
          BY <3>1, <3>2
        <5>3. \A u, v, s \in Nat : ~(v <= u) => v <= v /\ (s <= u => s <= v)
          BY SMT
        <5> QED BY <3>5, <5>1, <5>2, <5>3, Zenon
      <4> QED BY <2>1, <3>3, <4>1
    <3> QED BY <3>4, <3>5
  <2> QED BY <2>2, <2>3
<1>3. PICK c \in 1..Len(scores) : \A d \in 1..Len(scores) : scores[d] <= scores[c]
  <2>1. Len(scores) \in 1..Len(scores)
    BY <1>1, SMT
  <2> QED BY <1>2, <2>1
<1> DEFINE First == {b \in 1..Len(scores) : scores[b] = scores[c]}
<1>4. PICK b \in First : \A d \in First : b <= d
  <2>1. First \subseteq Nat /\ c \in First
    OBVIOUS
  <2> HIDE DEF First
  <2> QED BY <2>1, LeastElement
<1>5. b \in DOMAIN scores /\ \A d \in DOMAIN scores : scores[d] <= scores[b] /\ (scores[d] = scores[b] => b <= d)
  BY <1>1, <1>3, <1>4
<1> QED BY <1>5 DEF BestClass

LEMMA CandidateIsWorth ==
  ASSUME NEW thing \in Things, NEW size PROVE IsCandidate(Anchor(thing, size)) <=> Worth(thing)
<1> DEFINE s == thing.scores
           b == BestClass(s)
<1>1. Anchor(thing, size).scores = s /\ s \in Seq(Nat) /\ ConfThreshold \in Nat
  BY DetectorAssumption DEF Anchor, Things
<1>2. CASE s = <<>>
  <2>1. DOMAIN s = {}
    BY <1>2
  <2> QED BY <1>1, <2>1 DEF IsCandidate, Worth
<1>3. CASE s # <<>>
  <2> HIDE DEF s
  <2>1. b \in DOMAIN s /\ \A c \in DOMAIN s : s[c] <= s[b]
    BY <1>1, <1>3, BestExists
  <2>2. \A c \in DOMAIN s : s[c] \in Nat
    BY <1>1
  <2>3. IsCandidate(Anchor(thing, size)) <=> \E c \in DOMAIN s : s[c] > 0 /\ s[b] >= ConfThreshold
    BY <1>1 DEF IsCandidate
  <2>4. Worth(thing) <=> \E c \in DOMAIN s : s[c] > 0 /\ s[c] >= ConfThreshold
    BY DEF Worth, s
  <2> HIDE DEF b
  <2> QED BY <1>1, <2>1, <2>2, <2>3, <2>4, SMT
<1> QED BY <1>2, <1>3

LEMMA DetectionType ==
  ASSUME NEW thing \in Things, NEW size \in PictureSizes, NEW letters,
         letters.padLeft \in Int, letters.padTop \in Int,
         letters.scale[1] \in Nat \ {0}, letters.scale[2] \in Nat \ {0},
         Worth(thing)
  PROVE  DetectionOf(Anchor(thing, size), letters, size) \in Detections
<1> DEFINE anchor == Anchor(thing, size)
           found == DetectionOf(anchor, letters, size)
<1>1. anchor.x \in Int /\ anchor.y \in Int /\ anchor.w \in Int /\ anchor.h \in Int /\ anchor.scores = thing.scores
  <2>1. /\ Scale(size)[1] \in Nat \ {0} /\ Scale(size)[2] \in Nat \ {0}
        /\ Letterbox(size).left \in Int /\ Letterbox(size).top \in Int /\ Unit \in Nat
    BY ScaleIsPositive, PaddingTwice, DetectorAssumption
  <2>2. \A v \in Int : (v * Unit * Scale(size)[1]) \div Scale(size)[2] \in Int
    <3> TAKE v \in Int
    <3>1. v * Unit * Scale(size)[1] \in Int
      BY <2>1, SMT
    <3> QED BY <2>1, <3>1, Quotient
  <2>3. /\ thing.x1 + thing.x2 \in Int /\ thing.y1 + thing.y2 \in Int
        /\ thing.x2 - thing.x1 \in Int /\ thing.y2 - thing.y1 \in Int
    BY SMT DEF Things
  <2>4. \A v, m \in Int : v \div 2 + m * Unit \in Int
    BY <2>1, SMT
  <2> QED BY <2>1, <2>2, <2>3, <2>4 DEF Anchor
<1>2. \A v, pad \in Int : \A extent \in Nat \ {0} :
        InPicture(v, pad, letters.scale, extent) \in Int
  <2> TAKE v, pad \in Int
  <2> TAKE extent \in Nat \ {0}
  <2>1. (v - pad * Unit) * letters.scale[2] \in Int /\ (extent - 1) * Unit \in Int
    BY DetectorAssumption, SMT
  <2>2. ((v - pad * Unit) * letters.scale[2]) \div letters.scale[1] \in Int
    BY <2>1, Quotient
  <2> QED BY <2>1, <2>2, SMT DEF InPicture, Most2, Least2
<1>3. /\ anchor.x - anchor.w \div 2 \in Int /\ anchor.x + anchor.w \div 2 \in Int
      /\ anchor.y - anchor.h \div 2 \in Int /\ anchor.y + anchor.h \div 2 \in Int
  BY <1>1, SMT
<1>4. BestClass(thing.scores) \in Nat /\ thing.scores[BestClass(thing.scores)] \in Nat
  <2>1. thing.scores \in Seq(Nat) /\ thing.scores # <<>>
    BY DEF Things, Worth
  <2>2. BestClass(thing.scores) \in DOMAIN thing.scores
    BY <2>1, BestExists
  <2> QED BY <2>1, <2>2
<1>5. size.cols \in Nat \ {0} /\ size.rows \in Nat \ {0}
  BY DEF PictureSizes
<1> HIDE DEF anchor
<1> QED BY <1>1, <1>2, <1>3, <1>4, <1>5 DEF DetectionOf, Detections, anchor

-----------------------------------------------------------------------------
(* Suppression.                                                              *)

LEMMA OverlapSymmetric ==
  ASSUME NEW a \in Detections, NEW b \in Detections PROVE Overlap(a, b) <=> Overlap(b, a)
<1>1. \A m, n \in Int : Most2(m, n) = Most2(n, m) /\ Least2(m, n) = Least2(n, m)
  BY SMT DEF Most2, Least2
<1>2. Intersection(a, b) = Intersection(b, a)
  <2>1. /\ a.x1 \in Int /\ a.x2 \in Int /\ a.y1 \in Int /\ a.y2 \in Int
        /\ b.x1 \in Int /\ b.x2 \in Int /\ b.y1 \in Int /\ b.y2 \in Int
    BY DEF Detections
  <2>2. /\ Most2(a.x1, b.x1) = Most2(b.x1, a.x1) /\ Most2(a.y1, b.y1) = Most2(b.y1, a.y1)
        /\ Least2(a.x2, b.x2) = Least2(b.x2, a.x2) /\ Least2(a.y2, b.y2) = Least2(b.y2, a.y2)
    BY <1>1, <2>1
  <2> QED BY <2>2 DEF Intersection
<1>3. Area(a) \in Int /\ Area(b) \in Int /\ Intersection(a, b) \in Int
  BY SMT DEF Intersection, Area, Most2, Least2, Detections
<1>4. Area(a) + Area(b) = Area(b) + Area(a)
  BY <1>3, SMT
<1>5. Area(a) + Area(b) - Intersection(a, b) = Area(b) + Area(a) - Intersection(b, a)
  BY <1>2, <1>3, SMT
<1> QED BY <1>2, <1>5, Zenon DEF Overlap

\* Of finitely many there is always a selection in which each is left out exactly if an
\* earlier one that was not left out rules it out.
LEMMA SelectionExists ==
  ASSUME NEW N \in Nat, NEW Rules
  PROVE  \E S \in SUBSET (1..N) :
           \A i \in 1..N : i \in S <=> \A j \in 1..(i - 1) : j \in S => <<j, i>> \notin Rules
<1> DEFINE Sel(S, n) ==
             \A i \in 1..n : i \in S <=> \A j \in 1..(i - 1) : j \in S => <<j, i>> \notin Rules
           T == {n \in 0..N : ~\E S \in SUBSET (1..n) : Sel(S, n)}
<1>1. ASSUME T # {} PROVE FALSE
  <2>1. PICK n \in T : \A m \in T : n <= m
    <3>1. T \subseteq Nat
      OBVIOUS
    <3> HIDE DEF T
    <3> QED BY <3>1, <1>1, LeastElement
  <2>2. n # 0
    <3>1. Sel({}, 0) /\ {} \in SUBSET (1..0)
      BY SMT
    <3> QED BY <2>1, <3>1
  <2>3. n - 1 \in 0..N /\ n \in 1..N /\ ~(n <= n - 1) /\ n - 1 \in Nat
    BY <2>1, <2>2, SMT
  <2>4. PICK S \in SUBSET (1..(n - 1)) : Sel(S, n - 1)
    <3>1. n - 1 \notin T
      BY <2>1, <2>3, Zenon
    <3> QED BY <2>3, <3>1, Zenon
  <2> DEFINE U == IF \A j \in 1..(n - 1) : j \in S => <<j, n>> \notin Rules THEN S \union {n} ELSE S
  <2>5. U \in SUBSET (1..n)
    BY <2>3, SMT
  <2>6. Sel(U, n)
    <3>1. \A i \in 1..n : (i \in 1..(n - 1) \/ i = n) /\ n \notin 1..(i - 1)
      BY <2>3, SMT
    <3>2. n \notin S /\ \A i \in 1..(n - 1) : i \in U <=> i \in S
      BY <2>3, SMT
    <3>3. \A i \in 1..n : \A j \in 1..(i - 1) : j \in 1..(n - 1)
      BY <2>3, SMT
    <3>4. \A i \in 1..n : \A j \in 1..(i - 1) : j \in U <=> j \in S
      BY <3>2, <3>3
    <3>5. \A i \in 1..(n - 1) : i \in U <=> \A j \in 1..(i - 1) : j \in U => <<j, i>> \notin Rules
      <4> TAKE i \in 1..(n - 1)
      <4>1. i \in 1..n
        BY <2>3, SMT
      <4> HIDE DEF U
      <4> QED BY <2>4, <3>2, <3>4, <4>1
    <3>6. n \in U <=> \A j \in 1..(n - 1) : j \in S => <<j, n>> \notin Rules
      BY <3>2
    <3> HIDE DEF U
    <3>7. n \in U <=> \A j \in 1..(n - 1) : j \in U => <<j, n>> \notin Rules
      BY <3>6, <3>2
    <3> QED BY <3>1, <3>5, <3>7
  <2> QED BY <2>1, <2>5, <2>6
<1> QED BY <1>1

LEMMA KeptIs ==
  ASSUME NEW N \in Nat, NEW ranked, DOMAIN ranked = 1..N
  PROVE  \A i \in 1..N : i \in Kept(ranked) <=>
           \A j \in 1..(i - 1) : j \in Kept(ranked) /\ ranked[j].class_id = ranked[i].class_id
                                   => ~Overlap(ranked[j], ranked[i])
<1> DEFINE Rules == {t \in (1..N) \X (1..N) : /\ ranked[t[1]].class_id = ranked[t[2]].class_id
                                              /\ Overlap(ranked[t[1]], ranked[t[2]])}
           Body(f) == [i \in 1..N |-> \A j \in 1..(i - 1) :
                         f[j] /\ ranked[j].class_id = ranked[i].class_id
                           => ~Overlap(ranked[j], ranked[i])]
           kept == CHOOSE f : f = Body(f)
<1>1. PICK S \in SUBSET (1..N) :
        \A i \in 1..N : i \in S <=> \A j \in 1..(i - 1) : j \in S => <<j, i>> \notin Rules
  <2> HIDE DEF Rules
  <2> QED BY SelectionExists
<1> DEFINE g == [i \in 1..N |-> i \in S]
<1>2. g = Body(g)
  <2>1. \A i \in 1..N : \A j \in 1..(i - 1) : j \in 1..N
    BY SMT
  <2>2. \A i \in 1..N : g[i] = Body(g)[i]
    <3> TAKE i \in 1..N
    <3>1. \A j \in 1..(i - 1) : j \in 1..N /\ g[j] = (j \in S)
      BY <2>1
    <3> HIDE DEF g
    <3>2. g[i] = (i \in S)
      BY DEF g
    <3>3. \A j \in 1..(i - 1) : <<j, i>> \in Rules <=> ranked[j].class_id = ranked[i].class_id /\ Overlap(ranked[j], ranked[i])
      BY <3>1, Zenon
    <3> HIDE DEF Rules
    <3>4. (i \in S) <=> \A j \in 1..(i - 1) : g[j] /\ ranked[j].class_id = ranked[i].class_id
                                               => ~Overlap(ranked[j], ranked[i])
      <4>1. (i \in S) <=> \A j \in 1..(i - 1) : j \in S => <<j, i>> \notin Rules
        BY <1>1
      <4>2. \A j \in 1..(i - 1) : g[j] <=> j \in S
        BY <3>1, Zenon
      <4> QED BY <4>1, <4>2, <3>3, Zenon
    <3>5. Body(g)[i] <=> \A j \in 1..(i - 1) : g[j] /\ ranked[j].class_id = ranked[i].class_id
                                                => ~Overlap(ranked[j], ranked[i])
      OBVIOUS
    <3>6. Body(g)[i] \in BOOLEAN
      OBVIOUS
    <3> HIDE DEF Body
    <3> QED BY <3>2, <3>4, <3>5, <3>6
  <2> QED BY <2>2
<1>3. kept = Body(kept)
  <2> HIDE DEF Body, g
  <2> QED BY <1>2
<1>4. Kept(ranked) = {i \in 1..N : kept[i]}
  BY DEF Kept
<1>5. \A i \in 1..N : \A j \in 1..(i - 1) : j \in 1..N
  BY SMT
<1> HIDE DEF kept
<1> QED BY <1>3, <1>4, <1>5

\* The best ranked come first, and a ranking leaves nothing out.
LEMMA RankingReachesAll ==
  ASSUME NEW dets \in Seq(Detections), NEW p \in Rankings(dets)
  PROVE  /\ p \in [DOMAIN dets -> DOMAIN dets]
         /\ \A i, j \in DOMAIN dets : i < j => dets[p[i]].confidence >= dets[p[j]].confidence
         /\ \A k \in DOMAIN dets : \E i \in DOMAIN dets : p[i] = k
<1>1. DOMAIN dets = 1..Len(dets) /\ Len(dets) \in Nat
  OBVIOUS
<1>2. p \in [DOMAIN dets -> DOMAIN dets] /\ \A i, j \in DOMAIN dets : i < j =>
        p[i] # p[j] /\ dets[p[i]].confidence >= dets[p[j]].confidence
  BY DEF Rankings
<1>3. \A i, j \in DOMAIN dets : i # j => p[i] # p[j]
  <2> TAKE i, j \in DOMAIN dets
  <2>1. i < j \/ j < i \/ i = j
    BY <1>1, SMT
  <2> QED BY <1>2, <2>1
<1>4. IsFiniteSet(DOMAIN dets)
  BY <1>1, FS_Interval
<1>5. \A k \in DOMAIN dets : \E i \in DOMAIN dets : p[i] = k
  <2> SUFFICES ASSUME NEW k \in DOMAIN dets, \A i \in DOMAIN dets : p[i] # k PROVE FALSE
    OBVIOUS
  <2> DEFINE D == DOMAIN dets
             Rest == D \ {k}
  <2>1. IsFiniteSet(D) /\ IsFiniteSet(Rest) /\ Cardinality(Rest) = Cardinality(D) - 1 /\ Cardinality(D) \in Nat
    BY <1>4, FS_RemoveElement, FS_CardinalityType
  <2>2. Cardinality(Rest) < Cardinality(D)
    BY <2>1, SMT
  <2>3. p \in [D -> Rest]
    BY <1>2
  <2> HIDE DEF D, Rest
  <2>4. \E x, y \in D : x # y /\ p[x] = p[y]
    BY <2>1, <2>2, <2>3, FS_PigeonHole
  <2> QED BY <1>3, <2>4 DEF D
<1> QED BY <1>2, <1>5

-----------------------------------------------------------------------------
(* What a finished picture's result says, one result at a time.              *)

FoundIn(scene, size, d, i) == Near(BoxOf(d), scene[i], size) /\ Worth(scene[i])

\* The detections are around the first n things of a scene, none of them worth it left out.
Around(dets, scene, size, n) ==
  /\ \A k \in DOMAIN dets : \E i \in 1..n : FoundIn(scene, size, dets[k], i)
  /\ \A i \in 1..n : Worth(scene[i]) => \E k \in DOMAIN dets : FoundIn(scene, size, dets[k], i)

BoxesOf(r) == ~r.disturbed =>
  Around(r.dets, r.picture.scene, CropRight(r.picture.size), Len(r.picture.scene))

OnceOf(r) ==
  /\ \A s, t \in r.targets :
       s # t /\ s.det.class_id = t.det.class_id => ~Overlap(s.det, t.det)
  /\ \A k \in DOMAIN r.dets :
       \E t \in r.targets :
         \/ t.det = r.dets[k]
         \/ /\ t.det.class_id = r.dets[k].class_id /\ Overlap(t.det, r.dets[k])
            /\ t.det.confidence >= r.dets[k].confidence

PlacedOf(r) ==
  LET p == r.picture
  IN  p.tag # NoTag /\ p.since = p.at /\ p.at > 0
        /\ (\A f \in {"lat", "agl", "heading"} : p.tag[f] = p.at) =>
      \A t \in r.targets : IsBlind(t.bbox) \/ IsOnGround(t.coord, Flight[p.at], t.bbox)

\* A picture as takePicture makes it.
PictureOK(p) ==
  /\ GoodPicture(p) /\ p.at \in Fixes
  /\ p.size \in Sizes /\ p.scene \in Scenes /\ Shows(p.size, p.scene)

\* A worker with a picture; undisturbed, it still finds its own letterbox.
WorkOK(k, letters) ==
  /\ k = [busy |-> k.busy, picture |-> k.picture, dets |-> k.dets, done |-> k.done,
          disturbed |-> k.disturbed]
  /\ k.busy /\ PictureOK(k.picture) /\ k.disturbed \in BOOLEAN
  /\ k.done \in 0..Len(k.picture.scene) /\ k.dets \in Seq(Detections)
  /\ ~k.disturbed =>
       /\ letters = Members(CropRight(k.picture.size))
       /\ Around(k.dets, k.picture.scene, CropRight(k.picture.size), k.done)

LettersOK ==
  /\ members.padLeft \in Int /\ members.padTop \in Int
  /\ members.scale[1] \in Nat \ {0} /\ members.scale[2] \in Nat \ {0}

ResultOK(r) == PictureOK(r.picture) /\ BoxesOf(r) /\ OnceOf(r) /\ PlacedOf(r)

Work ==
  /\ LettersOK
  /\ \A i \in DOMAIN queue : PictureOK(queue[i])
  /\ \A w \in Workers : workers[w].busy => WorkOK(workers[w], members)
  /\ \A r \in results : ResultOK(r)

LEMMA PictureFacts ==
  ASSUME NEW p, PictureOK(p)
  PROVE  /\ p.size \in PictureSizes /\ CropRight(p.size) \in PictureSizes
         /\ p.scene \in Seq(Things) /\ Len(p.scene) \in Nat
         /\ \A i \in 1..Len(p.scene) :
              /\ p.scene[i] \in Things
              /\ p.scene[i].x1 <= p.scene[i].x2 /\ p.scene[i].y1 <= p.scene[i].y2
              /\ p.scene[i].x2 <= CropRight(p.size).cols
              /\ p.scene[i].y2 <= CropRight(p.size).rows
<1>1. p.size \in PictureSizes /\ p.scene \in Seq(Things)
  BY ScenesAssumption DEF PictureOK, PictureSizes, Things
<1>2. CropRight(p.size) \in PictureSizes
  BY <1>1, CropKeepsSize
<1>3. Len(p.scene) \in Nat /\ DOMAIN p.scene = 1..Len(p.scene)
  BY <1>1
<1>4. \A i \in 1..Len(p.scene) : p.scene[i] \in Things
  BY <1>1
<1>5. CropRight(p.size).rows = p.size.rows
  BY <1>1 DEF CropRight, PictureSizes
<1> QED BY <1>1, <1>2, <1>3, <1>4, <1>5, ScenesAssumption DEF PictureOK, Shows

LEMMA AnchorFound ==
  ASSUME NEW p, PictureOK(p), NEW i \in 1..Len(p.scene), Worth(p.scene[i])
  PROVE  LET size == CropRight(p.size)
         IN  FoundIn(p.scene, size, DetectionOf(Anchor(p.scene[i], size), Members(size), size), i)
<1> DEFINE size == CropRight(p.size)
<1>1. size \in PictureSizes /\ (Unit * Scale(size)[1]) % Scale(size)[2] = 0
  BY PictureFacts, UnitAssumption DEF PictureOK
<1>2. /\ p.scene[i] \in Things
      /\ p.scene[i].x1 <= p.scene[i].x2 /\ p.scene[i].y1 <= p.scene[i].y2
      /\ p.scene[i].x2 <= size.cols /\ p.scene[i].y2 <= size.rows
  BY PictureFacts
<1> HIDE DEF size
<1>3. Near(BoxOf(DetectionOf(Anchor(p.scene[i], size), Members(size), size)), p.scene[i], size)
  BY <1>1, <1>2, BoxIsAround
<1> QED BY <1>3 DEF FoundIn, size

\* The next anchor: a box is added exactly if the thing is worth it.
LEMMA AroundOneMore ==
  ASSUME NEW p, PictureOK(p), NEW n \in 0..(Len(p.scene) - 1), NEW dets \in Seq(Detections),
         NEW new, Around(dets, p.scene, CropRight(p.size), n),
         Worth(p.scene[n + 1]) =>
           new \in Detections /\ FoundIn(p.scene, CropRight(p.size), new, n + 1)
  PROVE  Around(IF Worth(p.scene[n + 1]) THEN Append(dets, new) ELSE dets,
                p.scene, CropRight(p.size), n + 1)
<1> DEFINE F(d, i) == FoundIn(p.scene, CropRight(p.size), d, i)
<1>1. Len(p.scene) \in Nat /\ \A i : i \in 1..(n + 1) <=> i \in 1..n \/ i = n + 1
  BY PictureFacts, SMT
<1>2. CASE ~Worth(p.scene[n + 1])
  BY <1>1, <1>2 DEF Around
<1>3. CASE Worth(p.scene[n + 1])
  <2> DEFINE more == Append(dets, new)
  <2>1. /\ DOMAIN more = 1..(Len(dets) + 1) /\ DOMAIN dets = 1..Len(dets)
        /\ more[Len(dets) + 1] = new /\ \A k \in 1..Len(dets) : more[k] = dets[k]
        /\ Len(dets) \in Nat
    BY <1>3
  <2>2. \A k : k \in DOMAIN more <=> k \in DOMAIN dets \/ k = Len(dets) + 1
    BY <2>1, SMT
  <2> HIDE DEF more
  <2>3. F(more[Len(dets) + 1], n + 1)
    BY <1>3, <2>1
  <2>4. \A k \in DOMAIN more : \E i \in 1..(n + 1) : F(more[k], i)
    BY <1>1, <2>1, <2>2, <2>3 DEF Around
  <2>5. \A i \in 1..(n + 1) : Worth(p.scene[i]) => \E k \in DOMAIN more : F(more[k], i)
    BY <1>1, <2>1, <2>2, <2>3 DEF Around
  <2> QED BY <1>3, <2>4, <2>5 DEF Around, more
<1> QED BY <1>2, <1>3

-----------------------------------------------------------------------------
(* Places.                                                                   *)

\* Parts of a metre to the north and to the east are found again in what is added to a
\* coordinate: the degree and the cosine it was divided by are multiplied back.
LEMMA Placed ==
  ASSUME NEW lat \in Int, NEW m \in Int, NEW d \in Int, NEW deg \in Int
  PROVE  ((lat * d * deg + m) - lat * (d * deg)) * deg * d = m * (d * deg)
<1>1. lat * d * deg = lat * (d * deg)
  BY SMT
<1>2. lat * (d * deg) \in Int /\ d * deg \in Int
  BY SMT
<1> DEFINE w == lat * (d * deg)
<1>3. (w + m) - w = m
  <2> HIDE DEF w
  <2> QED BY <1>2, SMT DEF w
<1>4. m * deg * d = m * (d * deg)
  BY SMT
<1> QED BY <1>1, <1>3, <1>4

LEMMA PlacedEast ==
  ASSUME NEW lng \in Int, NEW m \in Int, NEW d \in Int, NEW deg \in Int, NEW n \in Int, NEW k \in Int
  PROVE  ((lng * d * deg * n + m * k) - lng * (d * deg * n)) * deg * n * d = m * (d * deg * n) * k
<1> DEFINE w == lng * d * deg * n
           q == m * k
<1>1. w \in Int /\ q \in Int /\ lng * (d * deg * n) = w
  BY SMT
<1>2. (w + q) - w = q
  <2> HIDE DEF w, q
  <2> QED BY <1>1, SMT
<1>3. m * k * deg * n * d = m * (d * deg * n) * k
  BY SMT
<1> QED BY <1>1, <1>2, <1>3

\* The heading taken off the angle is the plane's ahead and right.
LEMMA TurnedIs ==
  ASSUME NEW x \in Int, NEW y \in Int, NEW c \in Int, NEW s \in Int
  PROVE  y * c - x * s = y * c + x * (-s) /\ x * c + y * s = y * s + x * c
BY SMT

LEMMA PlaceOfABox ==
  ASSUME NEW pose \in Poses, NEW box, ToTheRight(box) \in Int, Upwards(box) \in Int, ~IsBlind(box),
         NEW coord \in Localize(pose, box)
  PROVE  IsOnGround(coord, pose, box)
<1> DEFINE x == ToTheRight(box)
           y == Upwards(box)
           c == pose.heading[1]
           s == pose.heading[2]
           h == pose.heading[3]
           a == pose.altitude
           p == PixelSize[1]
           east == (x * c + y * s) * a * p
           north == (y * c - x * s) * a * p
           d == (1 * h) * PixelSize[2]
           k == pose.cosLat[2]
           n == pose.cosLat[1]
<1>1. ThroughPolar(x, y) = {<<x, y, 1>>}
  BY SMT DEF ThroughPolar, IsBlind
<1>2. /\ c \in Int /\ s \in Int /\ h \in Int /\ a \in Int /\ p \in Int /\ PixelSize[2] \in Int
      /\ Degree \in Int /\ k \in Int /\ n \in Int /\ pose.lat \in Int /\ pose.lng \in Int
      /\ x \in Int /\ y \in Int
  <2>1. pose.heading \in Int \X Int \X (Nat \ {0})
    BY DirectionsAssumption DEF Poses
  <2>2. pose.cosLat \in (Nat \ {0}) \X (Nat \ {0}) /\ PixelSize \in (Nat \ {0}) \X (Nat \ {0})
    BY DetectorAssumption DEF Poses
  <2>3. Degree \in Int /\ pose.lat \in Int /\ pose.lng \in Int /\ a \in Int
    BY DetectorAssumption DEF Poses
  <2> QED BY <2>1, <2>2, <2>3
<1>3. coord = CalcOffset(InMetres(Turned(<<x, y, 1>>, pose.heading), a), pose)
  BY <1>1 DEF Localize
<1>4. /\ coord.north = <<pose.lat * d * Degree + north, d * Degree>>
      /\ coord.east = <<pose.lng * d * Degree * n + east * k, d * Degree * n>>
  BY <1>3 DEF CalcOffset, InMetres, Turned
<1>5. east \in Int /\ north \in Int /\ d \in Int /\ d = PixelSize[2] * h
  <2> HIDE DEF c, s, h, a, p, x, y, k, n
  <2> QED BY <1>2, SMT
<1>6. /\ a * p * (y * c + x * (-s)) = north
      /\ a * p * (y * s + x * c) = east
  <2> HIDE DEF c, s, h, a, p, x, y, k, n
  <2>1. y * c - x * s = y * c + x * (-s) /\ x * c + y * s = y * s + x * c
    BY <1>2, TurnedIs
  <2>2. \A v \in Int : a * p * v = v * a * p
    BY <1>2, SMT
  <2>3. y * c - x * s \in Int /\ x * c + y * s \in Int
    BY <1>2, SMT
  <2> QED BY <2>1, <2>2, <2>3
<1>7. /\ Ahead(pose)[1] = c /\ Ahead(pose)[2] = s
      /\ RightOf(pose)[1] = -s /\ RightOf(pose)[2] = c
  BY DEF Ahead, RightOf
<1>8. /\ (coord.north[1] - pose.lat * coord.north[2]) * Degree * d = north * coord.north[2]
      /\ (coord.east[1] - pose.lng * coord.east[2]) * Degree * n * d = east * coord.east[2] * k
  <2> HIDE DEF north, east, d, n, k
  <2>1. /\ coord.north[1] = pose.lat * d * Degree + north /\ coord.north[2] = d * Degree
        /\ coord.east[1] = pose.lng * d * Degree * n + east * k /\ coord.east[2] = d * Degree * n
    BY <1>4
  <2>2. ((pose.lat * d * Degree + north) - pose.lat * (d * Degree)) * Degree * d = north * (d * Degree)
    BY <1>2, <1>5, Placed
  <2>3. ((pose.lng * d * Degree * n + east * k) - pose.lng * (d * Degree * n)) * Degree * n * d
          = east * (d * Degree * n) * k
    BY <1>2, <1>5, PlacedEast
  <2> QED BY <2>1, <2>2, <2>3
<1>9. /\ (coord.north[1] - pose.lat * coord.north[2]) * Degree * (PixelSize[2] * h)
          = (a * p * (y * Ahead(pose)[1] + x * RightOf(pose)[1])) * coord.north[2]
      /\ (coord.east[1] - pose.lng * coord.east[2]) * Degree * n * (PixelSize[2] * h)
          = (a * p * (y * Ahead(pose)[2] + x * RightOf(pose)[2])) * coord.east[2] * k
  <2> HIDE DEF north, east, d, n, k, c, s, h, a, p, x, y
  <2> QED BY <1>5, <1>6, <1>7, <1>8
<1> QED BY <1>9 DEF IsOnGround

LEMMA PoseIsTheFix ==
  ASSUME NEW p, PictureOK(p), p.tag # NoTag, p.at > 0,
         \A f \in {"lat", "agl", "heading"} : p.tag[f] = p.at
  PROVE  PoseOf(p.tag) = Flight[p.at] /\ Flight[p.at] \in Poses
<1>1. p.at \in 1..Len(Flight) /\ p.at # 0
  <2>1. p.at \in 0..Len(Flight) /\ Len(Flight) \in Nat
    BY PipelineAssumption DEF PictureOK, Fixes
  <2> QED BY <2>1, SMT
<1>2. Flight[p.at] \in Poses
  <2>1. Flight \in Seq(Poses)
    BY PipelineAssumption
  <2> QED BY <1>1, <2>1
<1>3. p.tag["lat"] = p.at /\ p.tag["lng"] = p.at /\ p.tag["agl"] = p.at /\ p.tag["heading"] = p.at
  BY DEF PictureOK, GoodPicture
<1>4. PoseOf(p.tag) = [lat |-> Flight[p.at].lat, lng |-> Flight[p.at].lng,
                       cosLat |-> Flight[p.at].cosLat, altitude |-> Flight[p.at].altitude,
                       heading |-> Flight[p.at].heading]
  BY <1>1, <1>3 DEF PoseOf
<1>5. Flight[p.at] = [lat |-> Flight[p.at].lat, lng |-> Flight[p.at].lng,
                      cosLat |-> Flight[p.at].cosLat, altitude |-> Flight[p.at].altitude,
                      heading |-> Flight[p.at].heading]
  BY <1>2 DEF Poses
<1> QED BY <1>2, <1>4, <1>5

LEMMA BoxIsInts ==
  ASSUME NEW d \in Detections PROVE ToTheRight(BoxOf(d)) \in Int /\ Upwards(BoxOf(d)) \in Int
<1>1. Unit \in Nat \ {0} /\ ImgWidth \in Nat \ {0} /\ ImgHeight \in Nat \ {0}
  BY DetectorAssumption
<1>2. /\ BoxOf(d).x1 \in Int /\ BoxOf(d).x2 \in Int /\ BoxOf(d).y1 \in Int /\ BoxOf(d).y2 \in Int
  BY <1>1, Quotient DEF BoxOf, Detections
<1> QED BY <1>1, <1>2, SMT DEF ToTheRight, Upwards

-----------------------------------------------------------------------------
(* The result of a picture, as Finish makes it.                              *)

Ranked(dets, p) == [i \in DOMAIN dets |-> dets[p[i]]]
TargetsOf(ranked, coord) ==
  {[det |-> ranked[i], bbox |-> BoxOf(ranked[i]), coord |-> coord[i]] : i \in Kept(ranked)}
MadeOf(k, ranked, coord) ==
  [picture |-> k.picture, dets |-> k.dets, disturbed |-> k.disturbed,
   targets |-> TargetsOf(ranked, coord)]

LEMMA ResultIsOK ==
  ASSUME NEW k, NEW letters, WorkOK(k, letters), k.done = Len(k.picture.scene),
         NEW p \in Rankings(k.dets), NEW coord,
         \A i \in Kept(Ranked(k.dets, p)) :
           coord[i] \in Coordinates(k.picture.tag, BoxOf(Ranked(k.dets, p)[i]))
  PROVE  ResultOK(MadeOf(k, Ranked(k.dets, p), coord))
<1> DEFINE ranked == Ranked(k.dets, p)
           r == MadeOf(k, ranked, coord)
<1>0. /\ r = [picture |-> k.picture, dets |-> k.dets, disturbed |-> k.disturbed,
              targets |-> {[det |-> ranked[i], bbox |-> BoxOf(ranked[i]), coord |-> coord[i]] :
                             i \in Kept(ranked)}]
      /\ ranked = [i \in DOMAIN k.dets |-> k.dets[p[i]]]
      /\ \A i \in Kept(ranked) : coord[i] \in Coordinates(k.picture.tag, BoxOf(ranked[i]))
  BY Zenon DEF Ranked, TargetsOf, MadeOf
<1> HIDE DEF ranked, r
<1> DEFINE N == Len(k.dets)
<1>1. /\ DOMAIN k.dets = 1..N /\ N \in Nat /\ DOMAIN ranked = 1..N
      /\ \A i \in 1..N : ranked[i] = k.dets[p[i]] /\ k.dets[i] \in Detections
  BY <1>0 DEF WorkOK
<1>2. /\ \A i \in 1..N : p[i] \in 1..N
      /\ \A i, j \in 1..N : i < j => ranked[i].confidence >= ranked[j].confidence
      /\ \A m \in 1..N : \E i \in 1..N : p[i] = m
  <2>1. k.dets \in Seq(Detections)
    BY DEF WorkOK
  <2>2. /\ p \in [1..N -> 1..N]
        /\ \A i, j \in 1..N : i < j => k.dets[p[i]].confidence >= k.dets[p[j]].confidence
        /\ \A m \in 1..N : \E i \in 1..N : p[i] = m
    <3>1. DOMAIN k.dets = 1..N
      BY <1>1
    <3>2. /\ p \in [DOMAIN k.dets -> DOMAIN k.dets]
          /\ \A i, j \in DOMAIN k.dets : i < j => k.dets[p[i]].confidence >= k.dets[p[j]].confidence
          /\ \A m \in DOMAIN k.dets : \E i \in DOMAIN k.dets : p[i] = m
      BY <2>1, RankingReachesAll
    <3> QED BY <3>1, <3>2
  <2> QED BY <1>1, <2>2
<1>3. \A i \in 1..N : ranked[i] \in Detections
  BY <1>1, <1>2
<1>4. \A i \in 1..N : i \in Kept(ranked) <=>
        \A j \in 1..(i - 1) : j \in Kept(ranked) /\ ranked[j].class_id = ranked[i].class_id
                                => ~Overlap(ranked[j], ranked[i])
  BY <1>1, KeptIs
<1>5. Kept(ranked) \subseteq 1..N
  BY <1>1 DEF Kept
<1>6. \A t \in r.targets : \E i \in Kept(ranked) :
        t = [det |-> ranked[i], bbox |-> BoxOf(ranked[i]), coord |-> coord[i]]
  BY <1>0
<1>7. \A i \in Kept(ranked) : \E t \in r.targets : t.det = ranked[i]
  <2> TAKE i \in Kept(ranked)
  <2> DEFINE t == [det |-> ranked[i], bbox |-> BoxOf(ranked[i]), coord |-> coord[i]]
  <2>1. r.targets = {[det |-> ranked[j], bbox |-> BoxOf(ranked[j]), coord |-> coord[j]] : j \in Kept(ranked)}
    BY <1>0
  <2>2. t \in r.targets
    BY <2>1, Zenon
  <2>3. t.det = ranked[i]
    OBVIOUS
  <2> QED BY <2>2, <2>3
<1>8. r.picture = k.picture /\ r.dets = k.dets /\ r.disturbed = k.disturbed
  BY <1>0
<1> HIDE DEF N
<1>9. BoxesOf(r)
  <2> HIDE DEF FoundIn
  <2> QED BY <1>8 DEF WorkOK, BoxesOf
<1>10. ASSUME NEW i \in Kept(ranked), NEW j \in Kept(ranked), i # j,
              ranked[i].class_id = ranked[j].class_id
       PROVE  ~Overlap(ranked[i], ranked[j])
  <2>1. i \in 1..N /\ j \in 1..N
    BY <1>5
  <2>2. CASE i < j
    <3>1. i \in 1..(j - 1)
      BY <1>1, <2>1, <2>2, SMT
    <3> QED BY <1>4, <1>10, <2>1, <3>1
  <2>3. CASE j < i
    <3>1. j \in 1..(i - 1)
      BY <1>1, <2>1, <2>3, SMT
    <3>2. ~Overlap(ranked[j], ranked[i])
      BY <1>4, <1>10, <2>1, <3>1
    <3> QED BY <1>3, <2>1, <3>2, OverlapSymmetric
  <2> QED BY <1>1, <1>10, <2>1, <2>2, <2>3, SMT
<1>11. OnceOf(r)
  <2>1. ASSUME NEW s \in r.targets, NEW t \in r.targets, s # t, s.det.class_id = t.det.class_id
        PROVE  ~Overlap(s.det, t.det)
    <3>1. PICK i \in Kept(ranked) :
            s = [det |-> ranked[i], bbox |-> BoxOf(ranked[i]), coord |-> coord[i]]
      BY <1>6
    <3>2. PICK j \in Kept(ranked) :
            t = [det |-> ranked[j], bbox |-> BoxOf(ranked[j]), coord |-> coord[j]]
      BY <1>6
    <3>3. i # j /\ s.det = ranked[i] /\ t.det = ranked[j]
      BY <2>1, <3>1, <3>2
    <3> QED BY <1>10, <2>1, <3>3
  <2>2. ASSUME NEW m \in DOMAIN r.dets
        PROVE  \E t \in r.targets :
                 \/ t.det = r.dets[m]
                 \/ /\ t.det.class_id = r.dets[m].class_id /\ Overlap(t.det, r.dets[m])
                    /\ t.det.confidence >= r.dets[m].confidence
    <3>1. m \in 1..N /\ r.dets[m] = k.dets[m]
      BY <1>1, <1>8
    <3> HIDE DEF N
    <3>2. \A n \in 1..N : \E i \in 1..N : p[i] = n
      BY <1>2
    <3>3. PICK i \in 1..N : p[i] = m
      BY <3>1, <3>2, Zenon
    <3>4. i \in 1..N /\ p[i] = m /\ ranked[i] = r.dets[m]
      BY <1>1, <3>1, <3>3
    <3>5. CASE i \in Kept(ranked)
      BY <1>7, <3>4, <3>5
    <3>6. CASE i \notin Kept(ranked)
      <4>1. PICK j \in 1..(i - 1) : /\ j \in Kept(ranked) /\ ranked[j].class_id = ranked[i].class_id
                                    /\ Overlap(ranked[j], ranked[i])
        BY <1>4, <3>6
      <4>2. j \in 1..N /\ j < i
        BY <1>1, <3>4, <4>1, SMT
      <4>3. ranked[j].confidence >= ranked[i].confidence
        BY <1>2, <4>2
      <4>4. PICK t \in r.targets : t.det = ranked[j]
        BY <1>7, <4>1
      <4> QED BY <3>4, <4>1, <4>3, <4>4
    <3> QED BY <3>5, <3>6
  <2>3. \A s, t \in r.targets :
          s # t /\ s.det.class_id = t.det.class_id => ~Overlap(s.det, t.det)
    BY <2>1
  <2> HIDE DEF N
  <2> QED BY <2>2, <2>3, Zenon DEF OnceOf
<1>12. PlacedOf(r)
  <2> SUFFICES ASSUME k.picture.tag # NoTag, k.picture.at > 0,
                      \A f \in {"lat", "agl", "heading"} : k.picture.tag[f] = k.picture.at,
                      NEW t \in r.targets, ~IsBlind(t.bbox)
               PROVE  IsOnGround(t.coord, Flight[k.picture.at], t.bbox)
    BY <1>8 DEF PlacedOf
  <2>1. PICK i \in Kept(ranked) :
          t = [det |-> ranked[i], bbox |-> BoxOf(ranked[i]), coord |-> coord[i]]
    BY <1>6
  <2>2. PictureOK(k.picture)
    BY DEF WorkOK
  <2>3. PoseOf(k.picture.tag) = Flight[k.picture.at] /\ Flight[k.picture.at] \in Poses
    BY <2>2, PoseIsTheFix
  <2>4. t.coord \in Localize(Flight[k.picture.at], t.bbox) /\ t.bbox = BoxOf(ranked[i])
    BY <1>0, <2>1, <2>3 DEF Coordinates
  <2>5. ToTheRight(t.bbox) \in Int /\ Upwards(t.bbox) \in Int
    BY <1>3, <1>5, <2>4, BoxIsInts
  <2> QED BY <2>3, <2>4, <2>5, PlaceOfABox
<1> QED BY <1>8, <1>9, <1>11, <1>12 DEF ResultOK, WorkOK, r, ranked

-----------------------------------------------------------------------------
(* The second invariant: the work on pictures keeps to what results must be.  *)

LEMMA WorkPutTogether ==
  ASSUME LettersOK', \A i \in DOMAIN queue' : PictureOK(queue'[i]),
         \A w \in Workers : workers'[w].busy => WorkOK(workers'[w], members'),
         \A r \in results' : ResultOK(r)
  PROVE  Work'
BY DEF Work

LEMMA InitWork == Init => Work
<1> SUFFICES ASSUME Init PROVE Work
  OBVIOUS
<1>1. LettersOK
  BY SMT DEF Init, LettersOK
<1>2. queue = <<>> /\ results = {} /\ \A w \in Workers : ~workers[w].busy
  BY DEF Init, Idle
<1> QED BY <1>1, <1>2 DEF Work

LEMMA QuietKeepsWork ==
  ASSUME Work, UNCHANGED <<queue, members, workers, results>> PROVE Work'
BY DEF Work, WorkOK, LettersOK

LEMMA PictureTakenKeepsWork ==
  ASSUME IInv, Work, NEW size \in Sizes, NEW scene \in Scenes, PictureTaken(size, scene)
  PROVE  Work'
<1> DEFINE new == [tag |-> camera.tag, since |-> camera.since, at |-> fix, size |-> size, scene |-> scene]
<1>1. queue' = Append(queue, new) /\ UNCHANGED <<members, workers, results>>
  BY DEF PictureTaken
<1>2. PictureOK(new)
  <2>1. Shows(size, scene) /\ fix \in Fixes
    BY DEF PictureTaken, IInv, Typed, TypeOK
  <2>2. CASE camera.done = Len(Getters)
    <3>1. GoodPicture(new)
      BY <2>2, GetterTable, FullTag
    <3> QED BY <2>1, <3>1 DEF PictureOK
  <2>3. CASE camera.done = 0
    <3>1. GoodPicture(new)
      BY <2>3 DEF IInv, Tagging, GoodPicture
    <3> QED BY <2>1, <3>1 DEF PictureOK
  <2> QED BY <2>2, <2>3 DEF PictureTaken
<1> HIDE DEF new
<1>3. \A i \in DOMAIN queue' : queue'[i] = new \/ (i \in DOMAIN queue /\ queue'[i] = queue[i])
  <2>1. queue \in Seq({queue[i] : i \in DOMAIN queue})
    BY DEF IInv, Typed
  <2> QED BY <1>1, <2>1, SMT
<1>4. \A i \in DOMAIN queue' : PictureOK(queue'[i])
  BY <1>2, <1>3 DEF Work
<1> QED BY <1>1, <1>4 DEF Work, WorkOK, LettersOK

LEMMA DisturbedChanged ==
  ASSUME NEW k, NEW t, NEW a, NEW b, NEW c, NEW d, NEW disturbed,
         k = [busy |-> t, picture |-> a, dets |-> b, done |-> c, disturbed |-> d]
  PROVE  [k EXCEPT !.disturbed = disturbed]
           = [busy |-> t, picture |-> a, dets |-> b, done |-> c, disturbed |-> disturbed]
OBVIOUS

\* A worker begins: its own letterbox is now in place, and another worker that goes on
\* undisturbed has the same one.
LEMMA PreprocessKeepsWork ==
  ASSUME IInv, Work, NEW w \in Workers, Preprocess(w) PROVE Work'
<1> DEFINE p == Head(queue)
           size == CropRight(p.size)
<1>1. /\ queue # <<>> /\ queue' = Tail(queue) /\ members' = Members(size) /\ results' = results
      /\ queue \in Seq({queue[i] : i \in DOMAIN queue})
  BY DEF Preprocess, IInv, Typed
<1>2. /\ \A i \in DOMAIN queue' : \E j \in DOMAIN queue : queue'[i] = queue[j]
      /\ \E j \in DOMAIN queue : Head(queue) = queue[j]
  <2>1. /\ DOMAIN queue' = 1..(Len(queue) - 1) /\ DOMAIN queue = 1..Len(queue) /\ Len(queue) \in Nat
        /\ \A i \in DOMAIN queue' : queue'[i] = queue[i + 1]
        /\ Head(queue) = queue[1] /\ Len(queue) # 0
    BY <1>1, SMT
  <2>2. \A i \in DOMAIN queue' : i + 1 \in DOMAIN queue
    BY <2>1, SMT
  <2>3. 1 \in DOMAIN queue
    BY <2>1, SMT
  <2> QED BY <2>1, <2>2, <2>3
<1>3. PictureOK(p) /\ \A i \in DOMAIN queue' : PictureOK(queue'[i])
  BY <1>2 DEF Work
<1>4. size \in PictureSizes
  BY <1>3, PictureFacts
<1> HIDE DEF size
<1>5. LettersOK'
  <2>1. Members(size).scale = Scale(size) /\ Members(size).padLeft \in Int /\ Members(size).padTop \in Int
    BY <1>4, PaddingTwice
  <2>2. Scale(size)[1] \in Nat \ {0} /\ Scale(size)[2] \in Nat \ {0}
    BY <1>4, ScaleIsPositive
  <2> QED BY <1>1, <2>1, <2>2 DEF LettersOK
<1>6. ASSUME NEW v \in Workers, workers'[v].busy PROVE WorkOK(workers'[v], members')
  <2>1. CASE v = w
    <3> DEFINE k == [busy |-> TRUE, picture |-> p, dets |-> <<>>, done |-> 0, disturbed |-> FALSE]
    <3>1. workers'[v] = k
      BY <2>1 DEF Preprocess
    <3>2. Around(<<>>, p.scene, size, 0)
      BY SMT DEF Around
    <3>3. 0 \in 0..Len(p.scene) /\ <<>> \in Seq(Detections)
      BY <1>3, PictureFacts
    <3>4. WorkOK(k, members')
      BY <1>1, <1>3, <3>2, <3>3 DEF WorkOK, size
    <3> HIDE DEF k
    <3> QED BY <3>1, <3>4
  <2>2. CASE v # w /\ workers[v].busy
    <3> DEFINE k == workers[v]
               apart == members' # Members(CropRight(k.picture.size))
               new == [busy |-> k.busy, picture |-> k.picture, dets |-> k.dets, done |-> k.done,
                       disturbed |-> k.disturbed \/ apart]
    <3>1. WorkOK(k, members)
      BY <2>2 DEF Work
    <3>2. workers'[v] = [k EXCEPT !.disturbed = k.disturbed \/ apart]
      BY <2>2 DEF Preprocess, SizeOf
    <3>3. k = [busy |-> k.busy, picture |-> k.picture, dets |-> k.dets, done |-> k.done,
               disturbed |-> k.disturbed]
      BY <3>1 DEF WorkOK
    <3> HIDE DEF apart, k
    <3>4. workers'[v] = new
      <4> DEFINE e == (k.disturbed \/ apart)
      <4>1. workers'[v] = [k EXCEPT !.disturbed = e]
        BY <3>2
      <4>2. new = [busy |-> k.busy, picture |-> k.picture, dets |-> k.dets, done |-> k.done,
                   disturbed |-> e]
        OBVIOUS
      <4> HIDE DEF e, new
      <4> QED BY <3>3, <4>1, <4>2, DisturbedChanged
    <3>5. (~(k.disturbed \/ apart)) => ~k.disturbed /\ members' = Members(CropRight(k.picture.size))
      BY DEF apart
    <3>6. (k.disturbed \/ apart) \in BOOLEAN
      OBVIOUS
    <3>7. WorkOK(new, members')
      <4>1. /\ k.busy /\ PictureOK(k.picture)
            /\ k.busy /\ k.done \in 0..Len(k.picture.scene) /\ k.dets \in Seq(Detections)
            /\ ~k.disturbed => Around(k.dets, k.picture.scene, CropRight(k.picture.size), k.done)
        BY <3>1 DEF WorkOK
      <4>2. new.picture = k.picture /\ new.dets = k.dets /\ new.done = k.done
            /\ new.disturbed = (k.disturbed \/ apart) /\ new.busy = k.busy
        OBVIOUS
      <4>3. new = [busy |-> new.busy, picture |-> new.picture, dets |-> new.dets, done |-> new.done,
                   disturbed |-> new.disturbed]
        OBVIOUS
      <4> HIDE DEF new
      <4> QED BY <3>5, <3>6, <4>1, <4>2, <4>3 DEF WorkOK
    <3> HIDE DEF new
    <3> QED BY <3>4, <3>7
  <2>3. CASE v # w /\ ~workers[v].busy
    BY <1>6, <2>3 DEF Preprocess
  <2> QED BY <2>1, <2>2, <2>3
<1>7. \A r \in results' : ResultOK(r)
  BY <1>1 DEF Work
<1> QED BY <1>3, <1>5, <1>6, <1>7, WorkPutTogether

LEMMA DetectKeepsWork ==
  ASSUME IInv, Work, NEW w \in Workers, Detect(w) PROVE Work'
<1> DEFINE k == workers[w]
           size == CropRight(k.picture.size)
           thing == k.picture.scene[k.done + 1]
           found == DetectionOf(Anchor(thing, size), members, size)
           dets == IF Worth(thing) THEN Append(k.dets, found) ELSE k.dets
           new == [busy |-> k.busy, picture |-> k.picture, dets |-> dets, done |-> k.done + 1,
                   disturbed |-> k.disturbed]
<1>1. k.busy /\ k.done < Len(k.picture.scene) /\ UNCHANGED <<queue, members, results>>
  BY DEF Detect
<1>2. WorkOK(k, members) /\ PictureOK(k.picture) /\ LettersOK
  BY <1>1 DEF Work, WorkOK
<1>3. /\ k.done \in 0..(Len(k.picture.scene) - 1) /\ k.done + 1 \in 1..Len(k.picture.scene)
      /\ k.done + 1 \in 0..Len(k.picture.scene)
  <2>1. k.done \in 0..Len(k.picture.scene) /\ Len(k.picture.scene) \in Nat
    BY <1>2, PictureFacts DEF WorkOK
  <2> HIDE DEF k
  <2> QED BY <1>1, <2>1, SMT
<1>4. thing \in Things /\ size \in PictureSizes
  BY <1>2, <1>3, PictureFacts
<1>5. IsCandidate(Anchor(thing, size)) <=> Worth(thing)
  <2> HIDE DEF thing, size
  <2> QED BY <1>4, CandidateIsWorth
<1>6. Worth(thing) => found \in Detections
  <2> HIDE DEF thing, size
  <2> QED BY <1>2, <1>4, DetectionType DEF LettersOK
<1>7. k = [busy |-> k.busy, picture |-> k.picture, dets |-> k.dets, done |-> k.done,
           disturbed |-> k.disturbed]
  BY <1>2 DEF WorkOK
<1>8. workers' = [workers EXCEPT ![w] = new]
  <2>1. workers' = [workers EXCEPT
          ![w].done = @ + 1,
          ![w].dets = IF IsCandidate(Anchor(thing, size)) THEN Append(@, found) ELSE @]
    BY DEF Detect, SizeOf
  <2>2. workers = [v \in Workers |-> workers[v]]
    BY DEF IInv, Typed
  <2>3. workers' = [workers EXCEPT ![w] = [k EXCEPT !.done = k.done + 1, !.dets = dets]]
    <3> HIDE DEF thing, size, found
    <3> QED BY <1>5, <1>7, <2>1, <2>2
  <2> HIDE DEF dets, thing, size, found, k
  <2>4. [k EXCEPT !.done = k.done + 1, !.dets = dets] = new
    <3> DEFINE next == k.done + 1
    <3>1. new = [busy |-> k.busy, picture |-> k.picture, dets |-> dets, done |-> next,
                 disturbed |-> k.disturbed]
      OBVIOUS
    <3> HIDE DEF next, new
    <3>2. [k EXCEPT !.done = next, !.dets = dets]
            = [busy |-> k.busy, picture |-> k.picture, dets |-> dets, done |-> next,
               disturbed |-> k.disturbed]
      <4> DEFINE one == [k EXCEPT !.done = next]
      <4>1. one = [busy |-> k.busy, picture |-> k.picture, dets |-> k.dets, done |-> next,
                   disturbed |-> k.disturbed]
        BY <1>7
      <4>2. [k EXCEPT !.done = next, !.dets = dets] = [one EXCEPT !.dets = dets]
        OBVIOUS
      <4> HIDE DEF one
      <4> QED BY <4>1, <4>2
    <3> QED BY <3>1, <3>2 DEF next
  <2> QED BY <2>3, <2>4
<1>9. dets \in Seq(Detections)
  <2> HIDE DEF found, thing
  <2> QED BY <1>2, <1>6 DEF WorkOK
<1>10. ~k.disturbed => Around(dets, k.picture.scene, size, k.done + 1)
  <2> SUFFICES ASSUME ~k.disturbed PROVE Around(dets, k.picture.scene, size, k.done + 1)
    OBVIOUS
  <2>1. members = Members(size) /\ Around(k.dets, k.picture.scene, size, k.done) /\ k.dets \in Seq(Detections)
    BY <1>2 DEF WorkOK
  <2>2. Worth(thing) => FoundIn(k.picture.scene, size, found, k.done + 1)
    BY <1>2, <1>3, <2>1, AnchorFound
  <2> HIDE DEF found, k
  <2> QED BY <1>2, <1>3, <1>6, <2>1, <2>2, AroundOneMore
<1>11. WorkOK(new, members')
  <2>1. new.picture = k.picture /\ new.dets = dets /\ new.done = k.done + 1
        /\ new.disturbed = k.disturbed /\ new.busy = k.busy
    OBVIOUS
  <2>2. new = [busy |-> new.busy, picture |-> new.picture, dets |-> new.dets, done |-> new.done,
               disturbed |-> new.disturbed]
    OBVIOUS
  <2>3. k.disturbed \in BOOLEAN /\ (~k.disturbed => members = Members(CropRight(k.picture.size)))
    BY <1>2 DEF WorkOK
  <2> HIDE DEF new, dets, thing, found, k
  <2> QED BY <1>1, <1>2, <1>3, <1>9, <1>10, <2>1, <2>2, <2>3 DEF WorkOK
<1>12. \A v \in Workers : workers'[v].busy => WorkOK(workers'[v], members')
  <2> HIDE DEF new
  <2> TAKE v \in Workers
  <2>1. workers = [u \in Workers |-> workers[u]]
    BY DEF IInv, Typed
  <2>2. CASE v = w
    BY <1>8, <1>11, <2>1, <2>2
  <2>3. CASE v # w
    <3>1. workers'[v] = workers[v]
      BY <1>8, <2>1, <2>3
    <3> QED BY <1>1, <3>1 DEF Work, WorkOK
  <2> QED BY <2>2, <2>3
<1>13. LettersOK' /\ (\A i \in DOMAIN queue' : PictureOK(queue'[i])) /\ (\A r \in results' : ResultOK(r))
  BY <1>1 DEF Work, LettersOK
<1> QED BY <1>12, <1>13, WorkPutTogether

LEMMA FinishKeepsWork ==
  ASSUME IInv, Work, NEW w \in Workers, Finish(w) PROVE Work'
<1> DEFINE k == workers[w]
<1>1. /\ k.busy /\ k.done = Len(k.picture.scene) /\ UNCHANGED <<queue, members>>
      /\ workers' = [workers EXCEPT ![w] = Idle] /\ workers = [v \in Workers |-> workers[v]]
  BY DEF Finish, IInv, Typed
<1>2. WorkOK(k, members)
  BY <1>1 DEF Work
<1>3. \E r : results' = results \union {r} /\ ResultOK(r)
  <2>1. PICK p \in Rankings(k.dets) :
          \E coord \in [Kept(Ranked(k.dets, p)) ->
                          UNION {Coordinates(k.picture.tag, BoxOf(k.dets[i])) : i \in DOMAIN k.dets}] :
            /\ \A i \in Kept(Ranked(k.dets, p)) :
                 coord[i] \in Coordinates(k.picture.tag, BoxOf(Ranked(k.dets, p)[i]))
            /\ results' = results \union {MadeOf(k, Ranked(k.dets, p), coord)}
    BY Zenon DEF Finish, Ranked, TargetsOf, MadeOf
  <2>2. PICK coord :
          /\ \A i \in Kept(Ranked(k.dets, p)) :
               coord[i] \in Coordinates(k.picture.tag, BoxOf(Ranked(k.dets, p)[i]))
          /\ results' = results \union {MadeOf(k, Ranked(k.dets, p), coord)}
    BY <2>1, Zenon
  <2>3. p \in Rankings(k.dets)
    BY <2>1
  <2> HIDE DEF k
  <2>4. ResultOK(MadeOf(k, Ranked(k.dets, p), coord))
    BY <1>1, <1>2, <2>2, <2>3, ResultIsOK
  <2> QED BY <2>2, <2>4
<1>4. \A v \in Workers : workers'[v].busy => workers'[v] = workers[v] /\ workers[v].busy
  BY <1>1 DEF Idle
<1>5. \A v \in Workers : workers'[v].busy => WorkOK(workers'[v], members')
  BY <1>1, <1>4 DEF Work, WorkOK
<1>6. LettersOK' /\ (\A i \in DOMAIN queue' : PictureOK(queue'[i])) /\ (\A r \in results' : ResultOK(r))
  BY <1>1, <1>3 DEF Work, LettersOK
<1> QED BY <1>5, <1>6, WorkPutTogether

LEMMA NextKeepsWork == IInv /\ Work /\ [Next]_vars => Work'
<1> SUFFICES ASSUME IInv, Work, [Next]_vars PROVE Work'
  OBVIOUS
<1>1. CASE UNCHANGED <<queue, members, workers, results>>
  BY <1>1, QuietKeepsWork
<1>2. CASE ConnectionAdded \/ HeartbeatCame \/ ParamSet \/ RateSet \/ Subscribe \/ SetMav \/ PlaneMoves
  BY <1>1, <1>2 DEF ConnectionAdded, HeartbeatCame, ParamSet, RateSet, Subscribe, Working, SetMav, PlaneMoves
<1>3. ASSUME NEW s \in Streams, Message(s) PROVE Work'
  BY <1>1, <1>3 DEF Message
<1>4. CASE Query \/ PictureFailed
  BY <1>1, <1>4 DEF Query, PictureFailed
<1>5. ASSUME NEW size \in Sizes, NEW scene \in Scenes, PictureTaken(size, scene) PROVE Work'
  BY <1>5, PictureTakenKeepsWork
<1>6. ASSUME NEW w \in Workers, Preprocess(w) \/ Detect(w) \/ Finish(w) PROVE Work'
  BY <1>6, PreprocessKeepsWork, DetectKeepsWork, FinishKeepsWork
<1>7. CASE UNCHANGED vars
  BY <1>1, <1>7 DEF vars
<1> QED BY <1>2, <1>3, <1>4, <1>5, <1>6, <1>7 DEF Next

\* The work under way is inductive with the first invariant: pictures as they are taken,
\* the letterbox of whoever was left undisturbed, and detections around what is done.
THEOREM WorkInductive == Spec => [](IInv /\ Work)
<1>1. Init => IInv /\ Work
  BY InitInv, InitWork
<1>2. IInv /\ Work /\ [Next]_vars => (IInv /\ Work)'
  BY NextKeepsInv, NextKeepsWork
<1> QED BY <1>1, <1>2, PTL DEF Spec

\* However the workers interleave over the one YOLO object: who was not disturbed by a
\* picture of another size reports boxes around the things of its own picture, and all of
\* them that are worth it, within a pixel of the network and the cast to int.
THEOREM BoxesAroundThings == Spec => []BoxesAreOfTheirPicture
<1>1. Work => BoxesAreOfTheirPicture
  <2> SUFFICES ASSUME Work, NEW r \in results, ~r.disturbed
               PROVE  LET scene == r.picture.scene
                          size  == CropRight(r.picture.size)
                          Found(d, i) == Near(BoxOf(d), scene[i], size) /\ Worth(scene[i])
                      IN  /\ \A k \in DOMAIN r.dets : \E i \in DOMAIN scene : Found(r.dets[k], i)
                          /\ \A i \in DOMAIN scene : Worth(scene[i]) =>
                               \E k \in DOMAIN r.dets : Found(r.dets[k], i)
    BY DEF BoxesAreOfTheirPicture
  <2>1. PictureOK(r.picture) /\ BoxesOf(r)
    BY DEF Work, ResultOK
  <2>2. DOMAIN r.picture.scene = 1..Len(r.picture.scene)
    BY <2>1, PictureFacts
  <2> QED BY <2>1, <2>2 DEF BoxesOf, Around, FoundIn
<1> QED BY <1>1, WorkInductive, PTL

\* nmsPerClass, whatever order std::sort leaves ties in: no two targets of a class overlap,
\* and what is left out was ruled out by a target that stayed and was at least as sure.
THEOREM ThingsReportedOnce == Spec => []EachThingIsReportedOnce
<1>1. Work => EachThingIsReportedOnce
  BY DEF Work, ResultOK, OnceOf, EachThingIsReportedOnce
<1> QED BY <1>1, WorkInductive, PTL

\* GSDLocalization::localize, outside the middle column and the left half of the middle row: a
\* target's latitude and longitude, taken back to metres at the plane's latitude, are as far ahead
\* and to the right of the plane as its box is from the middle of the picture, when the telemetry
\* was as new as the picture: for every flight, altitude, pixel and degree, and every heading
\* and latitude whose cosine (and sine) is a fraction.
THEOREM TargetsPlaced == Spec => []TargetsArePlaced
<1>1. Work => TargetsArePlaced
  BY Zenon DEF Work, ResultOK, PlacedOf, TargetsArePlaced
<1> QED BY <1>1, WorkInductive, PTL
=============================================================================
