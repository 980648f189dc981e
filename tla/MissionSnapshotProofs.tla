------------------------ MODULE MissionSnapshotProofs ------------------------
(***************************************************************************)
(* Once a mission was posted alone and accepted, a plan made while nobody  *)
(* posts, and the fence around it, are of that mission: for any handlers,  *)
(* missions, posts before it and number of geofence attempts.              *)
(***************************************************************************)
EXTENDS MissionSnapshot, TLAPS

(* A post that is not over disturbs what is planned. *)
CalmIsQuiet == ~disturbed => \A h \in Handlers : post[h].at = "idle"

(* A post that meets no other one: what it has done is still there. *)
AlonePost ==
    /\ alone => \A h \in Handlers : post[h].at # "idle" =>
           /\ \A o \in Handlers : post[o].at # "idle" => o = h
           /\ post[h].at \in {"copy", "set"} => converter = post[h].mission
           /\ post[h].at = "set" => post[h].frame = post[h].mission
    /\ settled => /\ \A h \in Handlers : post[h].at = "idle"
                  /\ params.frame = params.mission /\ converter = params.mission

(* What an undisturbed job has read so far. *)
JobsAreOfTheMission ==
    ~disturbed => \A j \in Running :
        job[j].path = [parts  |-> {params : n \in {n \in 1..job[j].read : Reads[j][n] \notin Conversions}},
                       frames |-> {converter : n \in {n \in 1..job[j].read : Reads[j][n] \in Conversions}}]

(* A lap's job starts from nothing. *)
JobsAreIdle == \A j \in Jobs \ Running : job[j] = NoJob

(* The fence on its way, and what is flown. *)
FenceOnItsWay ==
    (tick = "upload" \/ Loaded) /\ ~disturbed /\ ~gaveUp =>
        /\ upload.at = "fence" => upload.mission = params.mission
        /\ upload.at \in {"waypoints", "done"} => fence = params.mission

Flown == Loaded => upload.at = "done" /\ onboard = path[upload.what]

IInv ==
    /\ TypeOK /\ CalmIsQuiet /\ AlonePost /\ JobsAreOfTheMission /\ JobsAreIdle /\ PlanIsOfTheMission
    /\ FenceOnItsWay /\ Flown

USE DEF groundVars, planVars, uploadVars, vars

-------------------------------------------------------------------------------
(* The actions by what they leave alone. *)

PostStep ==
    \E h \in Handlers :
        (\E m \in Posted : BeginPost(h, m)) \/ SetConverter(h) \/ CopyConverter(h) \/ SetMission(h)

PlanStep == StartPathGeneration \/ (\E j \in Jobs : Read(j)) \/ PathGenTick

LapStep == PlanLap \/ BeginLap \/ LapTooLate

UploadStep ==
    \/ Approve \/ TakesOff \/ TakeoffFails \/ BeginSearch \/ ReadFlightBoundary
    \/ FenceAccepted \/ FenceRefused \/ WaypointsAccepted

LEMMA Steps ==
    ASSUME [Next]_vars
    PROVE  PostStep \/ PlanStep \/ LapStep \/ UploadStep \/ UNCHANGED vars
BY DEF Next, Post, Plan, Upload, MissionPrepTick, Reject, PostStep, PlanStep, LapStep, UploadStep

(* Types, in parts. *)
TypedGround ==
    /\ converter \in Frames /\ params \in Parts
    /\ post \in [Handlers -> [at : {"idle", "center", "copy", "set"},
                              mission : Posted \cup {"none"}, frame : Frames]]
    /\ posts \in 0..MaxPosts
    /\ disturbed \in BOOLEAN /\ alone \in BOOLEAN /\ settled \in BOOLEAN

TypedPlan ==
    /\ tick \in {"prep", "gen", "validate", "upload", "takeoff", "fly", "lap", "search"}
    /\ job \in [Jobs -> [read : 0..5, path : Paths]]
    /\ path \in [Jobs -> Paths]

TypedUpload ==
    /\ upload \in [at : {"begin", "fence", "waypoints", "done"}, left : 0..Attempts,
                   mission : Missions \cup {"none"}, what : Jobs,
                   next : {"takeoff", "fly", "search"}]
    /\ fence \in Missions \cup {"none"} /\ gaveUp \in BOOLEAN /\ onboard \in Paths

LEMMA TypeParts ==
    /\ TypeOK <=> TypedGround /\ TypedPlan /\ TypedUpload
    /\ TypeOK' <=> TypedGround' /\ TypedPlan' /\ TypedUpload'
BY DEF TypeOK, TypedGround, TypedPlan, TypedUpload

LEMMA ReadsLength == \A j \in Jobs : Len(Reads[j]) = 5
BY DEF Jobs, Reads

LEMMA EmptyPath == NoPath \in Paths /\ NoJob \in [read : 0..5, path : Paths]
BY DEF NoPath, NoJob, Paths

LEMMA InitInv == Init => IInv
<1> SUFFICES ASSUME Init PROVE IInv
  OBVIOUS
<1>1. TypedGround
  <2>1. posts \in 0..MaxPosts
    BY PostsAssumption DEF Init
  <2>2. NoPost \in [at : {"idle", "center", "copy", "set"},
                    mission : Posted \cup {"none"}, frame : Frames]
    BY DEF NoPost, Frames
  <2>3. NoParts \in Parts /\ "none" \in Frames
    BY DEF NoParts, Parts, Frames
  <2> QED
    BY <2>1, <2>2, <2>3 DEF Init, TypedGround
<1>2. TypedPlan
  BY EmptyPath DEF Init, TypedPlan
<1>3. TypedUpload
  <2>1. 0 \in 0..Attempts
    BY AttemptsAssumption
  <2>2. NoUpload \in [at : {"begin", "fence", "waypoints", "done"}, left : 0..Attempts,
                      mission : Missions \cup {"none"}, what : Jobs,
                      next : {"takeoff", "fly", "search"}]
    BY <2>1 DEF NoUpload, Jobs
  <2> QED
    BY <2>2, EmptyPath DEF Init, TypedUpload
<1>4. CalmIsQuiet /\ AlonePost
  BY DEF Init, CalmIsQuiet, AlonePost, NoPost
<1>5. tick = "prep" /\ \A j \in Jobs : job[j] = NoJob
  BY DEF Init
<1>6. JobsAreOfTheMission /\ JobsAreIdle
  BY <1>5 DEF JobsAreOfTheMission, JobsAreIdle, Running
<1>7. PlanIsOfTheMission /\ FenceOnItsWay /\ Flown
  BY <1>4, <1>5 DEF AlonePost, PlanIsOfTheMission, Planned, FenceOnItsWay, Flown, Loaded
<1> QED
  BY <1>1, <1>2, <1>3, <1>4, <1>6, <1>7, TypeParts DEF IInv

-------------------------------------------------------------------------------
(* A post that meets no other one centers the converter on its mission, takes it from there and
   leaves both agreed, or is rejected. *)
LEMMA PostKeepsAlone ==
    ASSUME TypedGround, AlonePost, PostStep
    PROVE  AlonePost'
<1>1. PICK h \in Handlers :
          (\E m \in Posted : BeginPost(h, m)) \/ SetConverter(h) \/ CopyConverter(h) \/ SetMission(h)
  BY DEF PostStep
<1>2. /\ post[h].at \in {"idle", "center", "copy", "set"}
      /\ post \in [Handlers -> [at : {"idle", "center", "copy", "set"},
                              mission : Posted \cup {"none"}, frame : Frames]]
  BY DEF TypedGround
<1>3. CASE \E m \in Posted : BeginPost(h, m)
  <2>1. PICK m \in Posted : BeginPost(h, m)
    BY <1>3
  <2>2. \A o \in Handlers \ {h} : post'[o] = post[o]
    BY <1>2, <2>1 DEF BeginPost
  <2>3. post'[h].at = "center" /\ ~settled' /\ alone' = ~Posting
    BY <1>2, <2>1 DEF BeginPost, NoPost
  <2>4. alone' => \A o \in Handlers : post'[o].at # "idle" => o = h
    BY <2>2, <2>3 DEF Posting
  <2> QED
    BY <2>3, <2>4 DEF AlonePost
<1>4. CASE SetConverter(h) \/ CopyConverter(h)
  <2>1. \A o \in Handlers \ {h} : post'[o] = post[o]
    BY <1>2, <1>4 DEF SetConverter, CopyConverter
  <2>2. /\ post[h].at \in {"center", "copy"} /\ UNCHANGED <<params, alone, settled>>
        /\ post'[h].mission = post[h].mission
    BY <1>2, <1>4 DEF SetConverter, CopyConverter
  <2>3. CASE SetConverter(h)
    <3>1. post'[h].at = "copy" /\ converter' = post[h].mission
      BY <1>2, <2>3 DEF SetConverter
    <3>3. ~settled
      BY <2>2 DEF AlonePost
    <3>4. alone => \A o \in Handlers : post'[o].at # "idle" => o = h
      BY <2>1, <2>2 DEF AlonePost
    <3> QED
      BY <2>2, <3>1, <3>3, <3>4 DEF AlonePost
  <2>4. CASE CopyConverter(h)
    <3>1. post'[h].at = "set" /\ post'[h].frame = converter /\ converter' = converter
      BY <1>2, <2>4 DEF CopyConverter, CurrentConverter
    <3>2. post[h].at = "copy" /\ (alone => converter = post[h].mission)
      BY <2>4 DEF CopyConverter, AlonePost
    <3>3. ~settled
      BY <3>2 DEF AlonePost
    <3>4. alone => \A o \in Handlers : post'[o].at # "idle" => o = h
      BY <2>1, <3>2 DEF AlonePost
    <3> QED
      BY <2>2, <3>1, <3>2, <3>3, <3>4 DEF AlonePost
  <2> QED
    BY <1>4, <2>3, <2>4
<1>5. CASE SetMission(h)
  <2>1. \A o \in Handlers \ {h} : post'[o] = post[o]
    BY <1>2, <1>5 DEF SetMission
  <2>2. /\ post'[h].at = "idle" /\ UNCHANGED <<converter, alone>> /\ post[h].at = "set"
        /\ settled' = (alone /\ post[h].mission \notin Rejected)
        /\ post[h].mission \notin Rejected =>
               params' = [mission |-> post[h].mission, frame |-> post[h].frame]
    BY <1>2, <1>5 DEF SetMission, NoPost
  <2>3. alone => /\ \A o \in Handlers : post'[o].at = "idle"
                /\ converter = post[h].mission /\ post[h].frame = post[h].mission
    BY <2>1, <2>2 DEF AlonePost
  <2>4. settled' => params'.frame = params'.mission /\ converter' = params'.mission
    <3> SUFFICES ASSUME settled' PROVE params'.frame = params'.mission /\ converter' = params'.mission
      OBVIOUS
    <3>1. alone /\ post[h].mission \notin Rejected
      BY <2>2, Zenon
    <3>2. params' = [mission |-> post[h].mission, frame |-> post[h].frame]
      BY <2>2, <3>1
    <3>3. converter' = post[h].mission /\ post[h].frame = post[h].mission
      BY <2>2, <2>3, <3>1
    <3> QED
      BY <3>2, <3>3
  <2> QED
    BY <2>2, <2>3, <2>4 DEF AlonePost
<1> QED
  BY <1>1, <1>3, <1>4, <1>5

(* What handlers do keeps every part: it is outside what an undisturbed plan looks at. *)
LEMMA PostKeepsInv ==
    ASSUME IInv, PostStep
    PROVE  IInv'
<1>0. AlonePost'
  BY PostKeepsAlone, TypeParts DEF IInv
<1>1. disturbed' /\ TypedGround'
  <2> USE DEF TypedGround, IInv, CalmIsQuiet
  <2> TypedGround
    BY TypeParts
  <2>1. PICK h \in Handlers :
            (\E m \in Posted : BeginPost(h, m)) \/ SetConverter(h) \/ CopyConverter(h) \/ SetMission(h)
    BY DEF PostStep
  <2>2. ASSUME NEW m \in Posted, BeginPost(h, m) PROVE disturbed' /\ TypedGround'
    <3>1. [NoPost EXCEPT !.at = "center", !.mission = m]
              \in [at : {"idle", "center", "copy", "set"},
                   mission : Posted \cup {"none"}, frame : Frames]
      BY DEF NoPost, Frames
    <3>2. posts' \in 0..MaxPosts
      BY <2>2, PostsAssumption DEF BeginPost
    <3>3. post' \in [Handlers -> [at : {"idle", "center", "copy", "set"},
                                 mission : Posted \cup {"none"}, frame : Frames]]
      BY <2>2, <3>1 DEF BeginPost
    <3> QED
      BY <2>2, <3>2, <3>3 DEF BeginPost, Posting, Frames
  <2>3. CASE SetConverter(h)
    <3>1. post[h].mission \in Posted \cup {"none"}
      OBVIOUS
    <3>2. converter' \in Frames
      BY <2>3, <3>1 DEF SetConverter, Frames
    <3> QED
      BY <2>3, <3>2 DEF SetConverter
  <2>4. CASE CopyConverter(h)
    BY <2>4 DEF CopyConverter, CurrentConverter
  <2>5. CASE SetMission(h)
    <3>1. post' \in [Handlers -> [at : {"idle", "center", "copy", "set"},
                              mission : Posted \cup {"none"}, frame : Frames]]
      BY <2>5 DEF SetMission, NoPost, Frames
    <3>2. params' \in Parts
      BY <2>5 DEF SetMission, Parts, Posted
    <3> QED
      BY <2>5, <3>1, <3>2 DEF SetMission
  <2> QED
    BY <2>1, <2>2, <2>3, <2>4, <2>5
<1>2. UNCHANGED <<planVars, uploadVars>>
  BY DEF PostStep, BeginPost, SetConverter, CopyConverter, SetMission
<1>3. TypedPlan' /\ TypedUpload'
  BY <1>2, TypeParts DEF IInv, TypedPlan, TypedUpload
<1>4. Running' = Running /\ Loaded' = Loaded
  BY <1>2 DEF Running, Loaded
<1> QED
  BY <1>0, <1>1, <1>2, <1>3, <1>4, TypeParts
     DEF IInv, AlonePost, CalmIsQuiet, JobsAreOfTheMission, JobsAreIdle, PlanIsOfTheMission,
         FenceOnItsWay, Flown

-------------------------------------------------------------------------------
(* Planning. *)

(* One read more. *)
LEMMA OneMore ==
    ASSUME NEW k \in Nat, NEW x, NEW S
    PROVE  /\ k + 1 \in S => {x : n \in {n \in 1..(k+1) : n \in S}}
                               = {x : n \in {n \in 1..k : n \in S}} \cup {x}
           /\ k + 1 \notin S => {x : n \in {n \in 1..(k+1) : n \in S}}
                               = {x : n \in {n \in 1..k : n \in S}}
<1>1. 1..(k+1) = (1..k) \cup {k+1}
  OBVIOUS
<1> QED
  BY <1>1

(* A job that has read everything has seen both kinds of reads. *)
LEMMA WholePlan ==
    ASSUME NEW j \in Jobs, NEW x
    PROVE  /\ {x : n \in {n \in 1..5 : Reads[j][n] \notin Conversions}} = {x}
           /\ {x : n \in {n \in 1..5 : Reads[j][n] \in Conversions}} = {x}
<1>1. Reads[j][1] \notin Conversions /\ Reads[j][4] \in Conversions
  BY DEF Jobs, Reads, Conversions
<1>2. 1 \in 1..5 /\ 4 \in 1..5
  OBVIOUS
<1> QED
  BY <1>1, <1>2

LEMMA PlanKeepsInv ==
    ASSUME IInv, PlanStep
    PROVE  IInv'
<1> TypedGround /\ TypedPlan /\ TypedUpload
  BY TypeParts DEF IInv
<1>1. CASE StartPathGeneration
  <2>1. TypedGround' /\ TypedUpload'
    BY <1>1 DEF StartPathGeneration, TypedGround, TypedUpload, Posting
  <2>2. TypedPlan'
    BY <1>1, EmptyPath DEF StartPathGeneration, TypedPlan
  <2>3. CalmIsQuiet' /\ AlonePost'
    BY <1>1 DEF StartPathGeneration, IInv, AlonePost, CalmIsQuiet, Posting
  <2>4. JobsAreOfTheMission'
    <3>1. \A j \in Jobs : job'[j] = NoJob
      BY <1>1 DEF StartPathGeneration
    <3>2. 1..0 = {}
      OBVIOUS
    <3> QED
      BY <1>1, <3>1, <3>2 DEF JobsAreOfTheMission, NoJob, NoPath, StartPathGeneration, Running
  <2>5. JobsAreIdle' /\ PlanIsOfTheMission' /\ FenceOnItsWay' /\ Flown'
    BY <1>1 DEF StartPathGeneration, IInv, AlonePost, JobsAreIdle, PlanIsOfTheMission, Planned, FenceOnItsWay, Flown,
                Loaded, NoJob
  <2> QED
    BY <2>1, <2>2, <2>3, <2>4, <2>5, TypeParts DEF IInv
<1>2. ASSUME NEW j \in Jobs, Read(j) PROVE IInv'
  <2> DEFINE k == job[j].read
             Seen == {n \in Nat : Reads[j][n] \notin Conversions}
             Made == {n \in Nat : Reads[j][n] \in Conversions}
  <2>1. k \in Nat /\ k < 5 /\ k + 1 \in 0..5
    BY <1>2, ReadsLength DEF Read, TypedPlan
  <2>2. j \in Running /\ UNCHANGED <<groundVars, tick, path, uploadVars, disturbed>>
    BY <1>2 DEF Read
  <2>12. Running' = Running /\ Running \subseteq Jobs /\ Loaded' = Loaded /\ Planned' = Planned
    BY <2>2 DEF Running, Loaded, Planned, Jobs
  <2>3. /\ job'[j] = [read |-> k + 1,
                      path |-> Extended(job[j].path, Reads[j][k + 1] \in Conversions)]
        /\ \A i \in Jobs \ {j} : job'[i] = job[i]
        /\ DOMAIN job' = Jobs /\ job' = [i \in Jobs |-> job'[i]]
    BY <1>2 DEF Read, TypedPlan
  <2>4. job'[j].read = k + 1 /\ job'[j].path =
            [parts  |-> IF k + 1 \in Made THEN job[j].path.parts
                                          ELSE job[j].path.parts \cup {params},
             frames |-> IF k + 1 \in Made THEN job[j].path.frames \cup {converter}
                                          ELSE job[j].path.frames]
    <3>1. CASE k + 1 \in Made
      <4> Reads[j][k + 1] \in Conversions
        BY <3>1
      <4> QED
        BY <2>3, <3>1 DEF Extended
    <3>2. CASE k + 1 \notin Made
      <4> Reads[j][k + 1] \notin Conversions
        BY <2>1, <3>2
      <4> QED
        BY <2>3, <3>2 DEF Extended
    <3> QED
      BY <3>1, <3>2
  <2>5. job[j].path \in Paths /\ converter \in Frames /\ params \in Parts
    BY DEF TypedPlan, TypedGround
  <2>6. Extended(job[j].path, Reads[j][k + 1] \in Conversions) \in Paths
    BY <2>5 DEF Extended, Paths
  <2>7. TypedPlan'
    <3>1. job'[j] \in [read : 0..5, path : Paths]
      BY <2>1, <2>3, <2>6
    <3>2. job' \in [Jobs -> [read : 0..5, path : Paths]]
      BY <2>3, <3>1 DEF TypedPlan
    <3> QED
      BY <2>2, <3>2 DEF TypedPlan
  <2>8. TypedGround' /\ TypedUpload'
    BY <2>2 DEF TypedGround, TypedUpload
  <2>9. JobsAreOfTheMission'
    <3> SUFFICES ASSUME ~disturbed, NEW i \in Running
                 PROVE  job'[i].path =
                     [parts  |-> {params : n \in {n \in 1..job'[i].read : Reads[i][n] \notin Conversions}},
                      frames |-> {converter : n \in {n \in 1..job'[i].read : Reads[i][n] \in Conversions}}]
      BY <2>2, <2>12 DEF JobsAreOfTheMission
    <3>1. CASE i # j
      <4> job'[i] = job[i]
        BY <2>3, <2>12, <3>1
      <4> QED
        BY <2>2 DEF IInv, JobsAreOfTheMission
    <3>2. CASE i = j
      <4>1. job[j].path =
                [parts  |-> {params : n \in {n \in 1..k : n \in Seen}},
                 frames |-> {converter : n \in {n \in 1..k : n \in Made}}]
        <5>1. /\ {n \in 1..k : n \in Seen} = {n \in 1..k : Reads[j][n] \notin Conversions}
              /\ {n \in 1..k : n \in Made} = {n \in 1..k : Reads[j][n] \in Conversions}
          OBVIOUS
        <5> QED
          BY <2>2, <5>1 DEF IInv, JobsAreOfTheMission
      <4>2. /\ {n \in 1..(k+1) : n \in Seen} = {n \in 1..(k+1) : Reads[j][n] \notin Conversions}
            /\ {n \in 1..(k+1) : n \in Made} = {n \in 1..(k+1) : Reads[j][n] \in Conversions}
        BY <2>1
      <4>3. job'[j].path =
                [parts  |-> {params : n \in {n \in 1..(k+1) : n \in Seen}},
                 frames |-> {converter : n \in {n \in 1..(k+1) : n \in Made}}]
        <5>1. k + 1 \in Made <=> k + 1 \notin Seen
          BY <2>1
        <5> HIDE DEF Made, Seen, k
        <5>2. /\ job[j].path.parts  = {params : n \in {n \in 1..k : n \in Seen}}
              /\ job[j].path.frames = {converter : n \in {n \in 1..k : n \in Made}}
          BY <4>1
        <5>3. (IF k + 1 \in Made THEN job[j].path.parts ELSE job[j].path.parts \cup {params})
                  = {params : n \in {n \in 1..(k+1) : n \in Seen}}
          BY <2>1, <5>1, <5>2, OneMore
        <5>4. (IF k + 1 \in Made THEN job[j].path.frames \cup {converter} ELSE job[j].path.frames)
                  = {converter : n \in {n \in 1..(k+1) : n \in Made}}
          BY <2>1, <5>2, OneMore
        <5> QED
          BY <2>4, <5>3, <5>4
      <4> QED
        BY <2>4, <3>2, <4>2, <4>3
    <3> QED
      BY <3>1, <3>2
  <2>10. JobsAreIdle'
    BY <2>2, <2>12, <2>3 DEF IInv, JobsAreIdle
  <2>11. CalmIsQuiet' /\ AlonePost' /\ PlanIsOfTheMission' /\ FenceOnItsWay' /\ Flown'
    BY <2>2, <2>12 DEF IInv, AlonePost, CalmIsQuiet, PlanIsOfTheMission, FenceOnItsWay, Flown
  <2> QED
    BY <2>7, <2>8, <2>9, <2>10, <2>11, TypeParts DEF IInv
<1>3. CASE PathGenTick
  <2>1. TypedGround' /\ TypedUpload'
    BY <1>3 DEF PathGenTick, TypedGround, TypedUpload
  <2>2. TypedPlan'
    BY <1>3, EmptyPath DEF PathGenTick, TypedPlan
  <2>3. PlanIsOfTheMission'
    <3> SUFFICES ASSUME ~disturbed, NEW j \in Jobs
                 PROVE  path'[j] = [parts |-> {params}, frames |-> {converter}]
      BY <1>3 DEF PathGenTick, IInv, PlanIsOfTheMission
    <3>1. path'[j] = job[j].path /\ job[j].read = 5 /\ tick = "gen"
      BY <1>3, ReadsLength DEF PathGenTick
    <3> QED
      BY <3>1, WholePlan DEF IInv, JobsAreOfTheMission, Running
  <2>4. JobsAreIdle' /\ CalmIsQuiet' /\ AlonePost' /\ JobsAreOfTheMission'
    BY <1>3 DEF PathGenTick, IInv, AlonePost, JobsAreIdle, CalmIsQuiet, JobsAreOfTheMission, Running
  <2> QED
    BY <1>3, <2>1, <2>2, <2>3, <2>4, TypeParts
       DEF PathGenTick, IInv, FenceOnItsWay, Flown, Loaded
<1> QED
  BY <1>1, <1>2, <1>3 DEF PlanStep
-------------------------------------------------------------------------------
(* A further lap. *)
LEMMA LapKeepsInv ==
    ASSUME IInv, LapStep
    PROVE  IInv'
<1> TypedGround /\ TypedPlan /\ TypedUpload
  BY TypeParts DEF IInv
<1>1. CASE PlanLap
  <2>1. TypedGround' /\ TypedPlan' /\ TypedUpload'
    BY <1>1 DEF PlanLap, TypedGround, TypedPlan, TypedUpload
  <2>2. Running' = {"init"} /\ Running = {} /\ Loaded /\ Planned /\ tick = "fly"
    BY <1>1 DEF PlanLap, Running, Loaded, Planned
  <2>3. JobsAreOfTheMission'
    <3>1. job'["init"] = NoJob
      BY <1>1, <2>2 DEF PlanLap, IInv, JobsAreIdle, Jobs
    <3>2. 1..0 = {}
      OBVIOUS
    <3> QED
      BY <2>2, <3>1, <3>2 DEF JobsAreOfTheMission, NoJob, NoPath
  <2> QED
    BY <1>1, <2>1, <2>2, <2>3, TypeParts
       DEF PlanLap, IInv, AlonePost, CalmIsQuiet, JobsAreIdle, PlanIsOfTheMission, FenceOnItsWay, Flown
<1>2. CASE BeginLap \/ LapTooLate
  <2>1. /\ tick = "lap" /\ job["init"].read = 5
        /\ job' = [job EXCEPT !["init"] = NoJob] /\ UNCHANGED <<groundVars, disturbed>>
        /\ Running' = {} /\ Running = {"init"}
    BY <1>2, ReadsLength
       DEF BeginLap, LapTooLate, LapPlanned, Begins, Running, Jobs
  <2>2. TypedGround' /\ TypedUpload'
    <3>1. Attempts \in 0..Attempts
      BY AttemptsAssumption
    <3> QED
      BY <1>2, <3>1 DEF BeginLap, LapTooLate, Begins, TypedGround, TypedUpload, Jobs
  <2>3. job["init"].path \in Paths
    BY DEF TypedPlan, Jobs
  <2>4. TypedPlan'
    <3>1. job' \in [Jobs -> [read : 0..5, path : Paths]]
      BY <2>1, EmptyPath DEF TypedPlan
    <3>2. path' \in [Jobs -> Paths]
      BY <1>2, <2>3 DEF BeginLap, LapTooLate, LapPath, TypedPlan
    <3> QED
      BY <1>2, <3>1, <3>2 DEF BeginLap, LapTooLate, Begins, TypedPlan
  <2>5. JobsAreIdle'
    <3>1. \A j \in Jobs \ {"init"} : job[j] = NoJob
      BY <2>1 DEF IInv, JobsAreIdle
    <3>2. \A j \in Jobs : job'[j] = IF j = "init" THEN NoJob ELSE job[j]
      BY <2>1 DEF TypedPlan
    <3> QED
      BY <3>1, <3>2 DEF JobsAreIdle
  <2>6. PlanIsOfTheMission'
    <3> SUFFICES ASSUME ~disturbed, NEW j \in Jobs
                 PROVE  path'[j] = [parts |-> {params}, frames |-> {converter}]
      BY <2>1 DEF IInv, PlanIsOfTheMission
    <3>1. path[j] = [parts |-> {params}, frames |-> {converter}]
      BY <2>1 DEF IInv, PlanIsOfTheMission, Planned
    <3>2. job["init"].path = [parts |-> {params}, frames |-> {converter}]
      BY <2>1, WholePlan DEF IInv, JobsAreOfTheMission, Jobs
    <3> QED
      BY <1>2, <3>1, <3>2 DEF BeginLap, LapTooLate, LapPath, TypedPlan
  <2>7. CalmIsQuiet' /\ AlonePost' /\ JobsAreOfTheMission'
    BY <2>1 DEF IInv, AlonePost, CalmIsQuiet, JobsAreOfTheMission
  <2>8. FenceOnItsWay' /\ Flown'
    BY <1>2, <2>1 DEF BeginLap, LapTooLate, Begins, TypedUpload, IInv, FenceOnItsWay, Flown, Loaded
  <2> QED
    BY <2>2, <2>4, <2>5, <2>6, <2>7, <2>8, TypeParts DEF IInv
<1> QED
  BY <1>1, <1>2 DEF LapStep

-------------------------------------------------------------------------------
(* Uploading: neither the parameters nor the plan are touched. *)
LEMMA UploadTypes ==
    ASSUME TypedUpload, TypedGround, TypedPlan, UploadStep
    PROVE  TypedUpload' /\ TypedGround' /\ TypedPlan'
<1> USE DEF UploadStep
<1>1. TypedGround'
  BY DEF TypedGround, Approve, TakesOff, BeginSearch, Begins, ReadFlightBoundary, FenceAccepted,
         FenceRefused, WaypointsAccepted, TakeoffFails
<1>2. TypedPlan'
  BY DEF TypedPlan, Approve, TakesOff, BeginSearch, Begins, ReadFlightBoundary, FenceAccepted,
         FenceRefused, WaypointsAccepted, TakeoffFails, TypedUpload
<1>3. TypedUpload'
  <2>1. ASSUME NEW at \in {"begin", "waypoints"}, NEW what \in Jobs,
               NEW next \in {"takeoff", "search"}, Begins(at, what, next), gaveUp' \in BOOLEAN
        PROVE  TypedUpload'
    <3>1. Attempts \in 0..Attempts
      BY AttemptsAssumption
    <3> QED
      BY <2>1, <3>1 DEF Begins, TypedUpload
  <2>2. CASE Approve
    BY <2>1, <2>2 DEF Approve, Jobs
  <2>3. CASE BeginSearch
    BY <2>1, <2>3 DEF BeginSearch, Jobs, TypedUpload
  <2>4. CASE ReadFlightBoundary
    BY <2>4 DEF ReadFlightBoundary, FenceMission, TypedUpload, TypedGround, Parts
  <2>5. CASE FenceAccepted
    BY <2>5 DEF FenceAccepted, TypedUpload
  <2>6. CASE FenceRefused
    <3>1. CASE GivesUp
      BY <2>6, <3>1 DEF FenceRefused, TypedUpload
    <3>2. CASE ~GivesUp
      <4>1. upload.left - 1 \in 0..Attempts
        BY <3>2, AttemptsAssumption DEF GivesUp, TypedUpload
      <4> QED
        BY <2>6, <3>2, <4>1 DEF FenceRefused, TypedUpload
    <3> QED
      BY <3>1, <3>2
  <2>7. CASE WaypointsAccepted
    BY <2>7 DEF WaypointsAccepted, TypedUpload, TypedPlan
  <2>8. CASE TakesOff \/ TakeoffFails
    BY <2>8 DEF TakesOff, TakeoffFails, TypedUpload
  <2> QED
    BY <2>2, <2>3, <2>4, <2>5, <2>6, <2>7, <2>8
<1> QED
  BY <1>1, <1>2, <1>3

LEMMA UploadKeepsInv ==
    ASSUME IInv, UploadStep
    PROVE  IInv'
<1> TypedGround /\ TypedPlan /\ TypedUpload
  BY TypeParts DEF IInv
<1> USE DEF UploadStep
<1>1. TypeOK'
  BY UploadTypes, TypeParts
<1>2. UNCHANGED <<groundVars, job, path, disturbed>> /\ Running' = {} /\ Running = {}
  BY DEF Approve, TakesOff, BeginSearch, Begins, ReadFlightBoundary, FenceAccepted, FenceRefused,
         WaypointsAccepted, TakeoffFails, TypedUpload, Running
<1>3. CalmIsQuiet' /\ AlonePost' /\ JobsAreOfTheMission' /\ JobsAreIdle'
  BY <1>2 DEF IInv, AlonePost, CalmIsQuiet, JobsAreOfTheMission, JobsAreIdle
<1>4. PlanIsOfTheMission'
  <2>1. Planned' => Planned
    BY DEF Planned, Approve, TakesOff, BeginSearch, Begins, ReadFlightBoundary, FenceAccepted,
           FenceRefused, WaypointsAccepted, TakeoffFails
  <2> QED
    BY <1>2, <2>1 DEF IInv, PlanIsOfTheMission
<1>5. FenceOnItsWay' /\ Flown'
  <2> USE DEF Loaded
  <2>1. CASE Approve
    BY <2>1 DEF Approve, Begins, FenceOnItsWay, Flown
  <2>2. CASE BeginSearch
    BY <2>2 DEF BeginSearch, Begins, IInv, FenceOnItsWay, Flown
  <2>3. CASE ReadFlightBoundary
    BY <2>3 DEF ReadFlightBoundary, FenceMission, TypedUpload, FenceOnItsWay, Flown
  <2>4. CASE FenceAccepted
    BY <2>4 DEF FenceAccepted, TypedUpload, IInv, FenceOnItsWay, Flown
  <2>5. CASE FenceRefused
    <3>1. CASE GivesUp
      BY <2>5, <3>1 DEF FenceRefused, FenceOnItsWay, Flown
    <3>2. CASE ~GivesUp
      BY <2>5, <3>2 DEF FenceRefused, TypedUpload, IInv, FenceOnItsWay, Flown
    <3> QED
      BY <3>1, <3>2
  <2>6. CASE WaypointsAccepted
    BY <2>6 DEF WaypointsAccepted, TypedUpload, IInv, FenceOnItsWay, Flown
  <2>7. CASE TakesOff \/ TakeoffFails
    BY <2>7 DEF TakesOff, TakeoffFails, IInv, FenceOnItsWay, Flown
  <2> QED
    BY <2>1, <2>2, <2>3, <2>4, <2>5, <2>6, <2>7
<1> QED
  BY <1>1, <1>3, <1>4, <1>5 DEF IInv

-------------------------------------------------------------------------------
(* IInv holds of every behaviour. *)
THEOREM Inductive == Spec => []IInv
<1>1. IInv /\ [Next]_vars => IInv'
  <2> SUFFICES ASSUME IInv, [Next]_vars PROVE IInv'
    OBVIOUS
  <2>1. CASE UNCHANGED vars
    BY <2>1 DEF IInv, TypeOK, AlonePost, CalmIsQuiet, JobsAreOfTheMission, JobsAreIdle, Running,
                PlanIsOfTheMission, Planned, FenceOnItsWay, Loaded, Flown
  <2> QED
    BY <2>1, Steps, PostKeepsInv, PlanKeepsInv, LapKeepsInv, UploadKeepsInv
<1> QED
  BY <1>1, InitInv, PTL DEF Spec

(* The variables keep their types; in particular the attempts left, for any number of them. *)
THEOREM TypeCorrect == Spec => []TypeOK
BY Inductive, PTL DEF IInv

(* Once a mission was posted alone and accepted, parameters and converter are of it, whatever was
   posted and rejected before; and while nobody posts, both paths are planned from those
   parameters with that converter, a lap's and a second plan's included. *)
THEOREM PlansAreOfTheMission == Spec => []PlanIsOfTheMission
BY Inductive, PTL DEF IInv

(* While nobody posts and the geofence is not given up, it is the one of the mission flown, after
   any number of refusals, and for the search, whose upload has none. *)
THEOREM FencesFitPaths == Spec => []FenceFitsPath
<1>1. IInv => FenceFitsPath
  <2> SUFFICES ASSUME IInv, Loaded, ~disturbed, ~gaveUp, NEW part \in onboard.parts
               PROVE  part.mission = fence
    BY DEF FenceFitsPath
  <2>1. upload.at = "done" /\ onboard = path[upload.what] /\ upload.what \in Jobs
    BY TypeParts DEF IInv, Flown, TypedUpload
  <2>2. onboard.parts = {params}
    BY <2>1 DEF IInv, PlanIsOfTheMission, Planned, Loaded
  <2>3. fence = params.mission
    BY <2>1 DEF IInv, FenceOnItsWay
  <2> QED
    BY <2>2, <2>3
<1> QED
  BY <1>1, Inductive, PTL

===============================================================================
