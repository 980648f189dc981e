--------------------------- MODULE MissionSnapshot ---------------------------
(***************************************************************************)
(* One mission on its way from POST /mission to the autopilot: the mission *)
(* parameters and the converter that handlers write, the two jobs that     *)
(* plan paths from them, and the upload of the geofence and the paths.     *)
(*                                                                         *)
(* The parameters are written under one lock and read part by part; the    *)
(* converter has a lock of its own, which getCartesianConverter releases   *)
(* before the reference it returns is used.  So reads of one plan may be   *)
(* of several missions.                                                    *)
(*                                                                         *)
(* Abstracted: coordinates (a part is the mission it is from and the       *)
(* converter it was made with; a converter is the mission it is centered   *)
(* on), and the ticks as far as they do not touch any of this.             *)
(***************************************************************************)
EXTENDS Integers, Sequences

CONSTANTS
    Handlers,   \* threads that serve POST /mission
    Missions,   \* missions setMission accepts
    Rejected,   \* missions it does not
    Attempts,   \* geofence_attempts: five
    MaxPosts    \* bound on the missions posted

ASSUME MissionsAssumption == Missions \cap Rejected = {} /\ "none" \notin Missions \cup Rejected
ASSUME AttemptsAssumption == Attempts \in Nat
ASSUME PostsAssumption    == MaxPosts \in Nat

VARIABLES
    converter,   \* what it is centered on
    params,      \* the parts and cached_mission
    post, posts, \* where each handler is; how many missions were posted
    tick,
    job,         \* the planning jobs
    path,        \* init_path and coverage_path
    upload,      \* uploadMissionUntilSuccess
    fence,       \* the autopilot's geofence
    onboard,     \* the autopilot's mission
    disturbed,   \* history: a mission was being posted since the planning began
    alone,       \* history: the last post has met no other one
    settled,     \* history: the last post is over, was alone and was accepted
    gaveUp       \* history: the last upload gave the geofence up

groundVars  == <<converter, params, post, posts, alone, settled>>
planVars    == <<tick, job, path>>
uploadVars  == <<upload, fence, onboard, gaveUp>>
vars == <<groundVars, planVars, uploadVars, disturbed>>

Posted == Missions \cup Rejected
Frames == Posted \cup {"none", "torn"}
Parts  == [mission : Missions \cup {"none"}, frame : Frames]
Paths  == [parts : SUBSET Parts, frames : SUBSET Frames]

NoParts == [mission |-> "none", frame |-> "none"]
NoPath  == [parts |-> {}, frames |-> {}]

\* What each job reads, in order; a path has many points, two stand for them.
Reads == [init   |-> <<"goals", "start", "bounds", "point", "point">>,
          search |-> <<"last", "bounds", "zone", "point", "point">>]

Jobs == {"init", "search"}

\* The reads that take the converter.
Conversions == {"start", "point"}

TypeOK ==
    /\ converter \in Frames /\ params \in Parts
    /\ post \in [Handlers -> [at : {"idle", "center", "copy", "set"},
                              mission : Posted \cup {"none"}, frame : Frames]]
    /\ posts \in 0..MaxPosts
    /\ tick \in {"prep", "gen", "validate", "upload", "takeoff", "fly", "lap", "search"}
    /\ job \in [Jobs -> [read : 0..5, path : Paths]]
    /\ path \in [Jobs -> Paths] /\ onboard \in Paths
    /\ upload \in [at : {"begin", "fence", "waypoints", "done"}, left : 0..Attempts,
                   mission : Missions \cup {"none"}, what : Jobs,
                   next : {"takeoff", "fly", "search"}]
    /\ fence \in Missions \cup {"none"}
    /\ {disturbed, gaveUp, alone, settled} \subseteq BOOLEAN

NoPost   == [at |-> "idle", mission |-> "none", frame |-> "none"]
NoJob    == [read |-> 0, path |-> NoPath]
NoUpload == [at |-> "done", left |-> 0, mission |-> "none", what |-> "init",
             next |-> "takeoff"]

Init ==
    /\ converter = "none" /\ params = NoParts
    /\ post = [h \in Handlers |-> NoPost] /\ posts = 0
    /\ tick = "prep" /\ job = [j \in Jobs |-> NoJob] /\ path = [j \in Jobs |-> NoPath]
    /\ upload = NoUpload /\ fence = "none" /\ onboard = NoPath
    /\ disturbed = FALSE /\ gaveUp = FALSE /\ alone = FALSE /\ settled = FALSE

-------------------------------------------------------------------------------
(* POST /mission.                                                          *)

Posting == \E h \in Handlers : post[h].at # "idle"

\* The assignment of the converter begins under its lock; who reads now, reads a mixture.
BeginPost(h, m) ==
    /\ post[h].at = "idle" /\ posts < MaxPosts
    /\ \A o \in Handlers : post[o].at # "center"
    /\ post' = [post EXCEPT ![h] = [NoPost EXCEPT !.at = "center", !.mission = m]]
    /\ posts' = posts + 1
    /\ converter' = "torn" /\ disturbed' = TRUE
    /\ alone' = ~Posting /\ settled' = FALSE
    /\ UNCHANGED <<params, planVars, uploadVars>>

SetConverter(h) ==
    /\ post[h].at = "center"
    /\ converter' = post[h].mission
    /\ post' = [post EXCEPT ![h].at = "copy"]
    /\ UNCHANGED <<params, posts, alone, settled, planVars, uploadVars, disturbed>>

PreviousConverter == params.frame

CurrentConverter == converter

\* The argument of setMission.
CopyConverter(h) ==
    /\ post[h].at = "copy"
    /\ post' = [post EXCEPT ![h].at = "set", ![h].frame = CurrentConverter]
    /\ UNCHANGED <<converter, params, posts, alone, settled, planVars, uploadVars, disturbed>>

SetMission(h) ==
    /\ post[h].at = "set"
    /\ params' = IF post[h].mission \in Rejected
                 THEN params
                 ELSE [mission |-> post[h].mission, frame |-> post[h].frame]
    /\ settled' = (alone /\ post[h].mission \notin Rejected)
    /\ post' = [post EXCEPT ![h] = NoPost]
    /\ UNCHANGED <<converter, posts, alone, planVars, uploadVars, disturbed>>

-------------------------------------------------------------------------------
(* Planning.                                                               *)

StartPathGeneration ==
    /\ tick' = "gen"
    /\ job' = [j \in Jobs |-> NoJob]
    /\ disturbed' = Posting
    /\ UNCHANGED <<groundVars, path, uploadVars>>

MissionPrepTick == tick = "prep" /\ params.mission # "none" /\ StartPathGeneration

Extended(p, converts) ==
    [parts  |-> IF converts THEN p.parts ELSE p.parts \cup {params},
     frames |-> IF converts THEN p.frames \cup {converter} ELSE p.frames]

\* A further lap plans the initial path again.
Running == CASE tick = "gen" -> Jobs [] tick = "lap" -> {"init"} [] OTHER -> {}

\* generateInitialPath and generateSearchPath, one read at a time.
Read(j) ==
    LET n == job[j].read + 1 IN
    /\ j \in Running /\ n <= Len(Reads[j])
    /\ job' = [job EXCEPT ![j] = [read |-> n,
                                  path |-> Extended(@.path, Reads[j][n] \in Conversions)]]
    /\ UNCHANGED <<groundVars, tick, path, uploadVars, disturbed>>

\* The paths are set, and the jobs are gone with the tick.
PathGenTick ==
    /\ tick = "gen" /\ \A j \in Jobs : job[j].read = Len(Reads[j])
    /\ path' = [j \in Jobs |-> job[j].path]
    /\ job' = [j \in Jobs |-> NoJob]
    /\ tick' = "validate"
    /\ UNCHANGED <<groundVars, uploadVars, disturbed>>

Reject == tick = "validate" /\ StartPathGeneration

-------------------------------------------------------------------------------
(* Uploading.                                                              *)

Begins(at, what, next) ==
    /\ tick' = "upload"
    /\ upload' = [at |-> at, left |-> Attempts, mission |-> "none", what |-> what,
                  next |-> next]
    /\ UNCHANGED <<groundVars, fence, onboard, disturbed>>

Approve ==
    /\ tick = "validate" /\ Begins("begin", "init", "takeoff")
    /\ gaveUp' = FALSE /\ UNCHANGED <<job, path>>

TakesOff ==
    /\ tick = "takeoff"
    /\ tick' = "fly"
    /\ UNCHANGED <<groundVars, job, path, uploadVars, disturbed>>

TakeoffFails ==
    /\ tick = "takeoff"
    /\ tick' = "prep"
    /\ UNCHANGED <<groundVars, job, path, uploadVars, disturbed>>

\* FlyWaypointsTick goes on to the search, whose upload has no geofence.
BeginSearch ==
    /\ tick = "fly" /\ Begins("waypoints", "search", "search")
    /\ UNCHANGED <<gaveUp, job, path>>

\* While laps are left it waits for a new initial path.
PlanLap ==
    /\ tick = "fly"
    /\ tick' = "lap"
    /\ UNCHANGED <<groundVars, job, path, uploadVars, disturbed>>

LapPath == job["init"].path

LapPlanned ==
    /\ tick = "lap" /\ job["init"].read = Len(Reads["init"])
    /\ job' = [job EXCEPT !["init"] = NoJob]

BeginLap ==
    /\ LapPlanned
    /\ path' = [path EXCEPT !["init"] = LapPath]
    /\ Begins("waypoints", "init", "fly") /\ UNCHANGED gaveUp

\* After 2.5 s the path is thrown away once it is there, and the next tick plans another.
LapTooLate ==
    /\ LapPlanned
    /\ tick' = "fly"
    /\ UNCHANGED <<groundVars, path, uploadVars, disturbed>>

FenceOnce == IF fence = "none" THEN params.mission ELSE fence

FenceMission == params.mission

\* The flight boundary is taken from the cached mission of this moment.
ReadFlightBoundary ==
    /\ tick = "upload" /\ upload.at = "begin"
    /\ upload' = [upload EXCEPT !.at = "fence", !.mission = FenceMission]
    /\ UNCHANGED <<groundVars, planVars, fence, onboard, gaveUp, disturbed>>

FenceAccepted ==
    /\ tick = "upload" /\ upload.at = "fence"
    /\ fence' = upload.mission
    /\ upload' = [upload EXCEPT !.at = "waypoints"]
    /\ UNCHANGED <<groundVars, planVars, onboard, gaveUp, disturbed>>

GivesUp == upload.left = 0

\* After the last attempt the geofence is given up, and the upload goes on without.
FenceRefused ==
    /\ tick = "upload" /\ upload.at = "fence"
    /\ \/ /\ GivesUp
          /\ upload' = [upload EXCEPT !.at = "waypoints"] /\ gaveUp' = TRUE
       \/ /\ ~GivesUp
          /\ upload' = [upload EXCEPT !.left = @ - 1] /\ UNCHANGED gaveUp
    /\ UNCHANGED <<groundVars, planVars, fence, onboard, disturbed>>

\* A refusal is tried again, for ever.
WaypointsAccepted ==
    /\ tick = "upload" /\ upload.at = "waypoints"
    /\ onboard' = path[upload.what]
    /\ upload' = [upload EXCEPT !.at = "done"]
    /\ tick' = upload.next
    /\ UNCHANGED <<groundVars, job, path, fence, gaveUp, disturbed>>

-------------------------------------------------------------------------------
Post(h) ==
    (\E m \in Posted : BeginPost(h, m)) \/ SetConverter(h) \/ CopyConverter(h) \/ SetMission(h)

Plan == MissionPrepTick \/ (\E j \in Jobs : Read(j)) \/ PathGenTick \/ Reject

Upload ==
    \/ Approve \/ TakesOff \/ TakeoffFails \/ BeginSearch \/ PlanLap \/ BeginLap \/ LapTooLate \/ ReadFlightBoundary \/ FenceAccepted \/ FenceRefused
    \/ WaypointsAccepted

Next == (\E h \in Handlers : Post(h)) \/ Plan \/ Upload

Spec == Init /\ [][Next]_vars

-------------------------------------------------------------------------------
Planned == tick \notin {"prep", "gen"}

\* The autopilot has a mission to fly.
Loaded == tick \in {"takeoff", "fly", "lap", "search"}

(* Once a mission was accepted that was posted alone, parameters and converter are all of it,
   whatever rejected and overlapping posts came before.  And while nobody posts, from the begin
   of the planning on, both paths are planned from the parameters and converted with the
   converter there are, also when the plan is a second one after a rejection or a failed takeoff,
   or that of a further lap: together, such a plan is of that mission, in its own frame.  (After
   a rejected or overlapping post the frame may be another mission's.) *)
PlanIsOfTheMission ==
    /\ settled => params.frame = params.mission /\ converter = params.mission
    /\ Planned /\ ~disturbed =>
           \A j \in Jobs : path[j] = [parts |-> {params}, frames |-> {converter}]

(* What flies is fenced by its own mission, although the geofence is taken from the parameters
   much later than the path, and not for the search; unless a mission was posted in between, or the
   geofence was given up, which leaves the fence of an earlier flight. *)
FenceFitsPath ==
    Loaded /\ ~disturbed /\ ~gaveUp =>
        \A part \in onboard.parts : part.mission = fence

-------------------------------------------------------------------------------
(* Statements of the repository the code does not keep.                    *)

\* mission_parameters.hpp:37-39 of the getter of all values: "Important to use this instead
\* of the singular getters to avoid race conditions"; what a path is planned from is of one
\* mission.
PartsAreOfOneMission == \A j \in Jobs : \A p, q \in path[j].parts : p = q
===============================================================================
