------------------------------ MODULE ObcMission ------------------------------
(***************************************************************************)
(* The mission state machine of the onboard computer (OBC).                *)
(*                                                                         *)
(* One thread, OBC::run, calls MissionState::doTick for ever: it runs      *)
(* tick() of the current Tick under tick_mut and, when tick() returns a    *)
(* new Tick, replaces the current one and runs init() of the new one.      *)
(* The worker threads of the ground station (GCS) HTTP server run their    *)
(* handlers at the same time; long jobs (path generation, upload, takeoff) *)
(* run in std::async threads whose futures the ticks poll.                 *)
(*                                                                         *)
(* A handler looks the current tick up before it locks tick_mut, and reads *)
(* state->getCV() several times.  What matters of such a pointer is only   *)
(* whether it still is the object the mission state holds, so a handler's  *)
(* reference is "current" or "stale" and objects need no identities.       *)
(*                                                                         *)
(* Abstracted: positions, images and path points.  A path is its kind, the *)
(* airdrop of an approach, and the planning attempt it was made in: an     *)
(* attempt begins with each init() of a PathGenTick, and as with pointers  *)
(* what matters is only whether it is the present one or an earlier one.   *)
(* External: the autopilot behind MAVSDK, which answers every query and    *)
(* command nondeterministically.                                           *)
(***************************************************************************)
EXTENDS Integers, FiniteSets

CONSTANTS
    Handlers,     \* worker threads of the GCS HTTP server
    NumAirdrops,  \* NUM_AIRDROPS; airdrop 1 is Water, 2 is Beacon
    Laps,         \* config.pathing.laps
    Operations,   \* the GCS operations the operators use
    Postings      \* the sets of targets an operator may post to /targets/matched

AllOperations == {"mission", "validate", "new", "manual", "autonomous",
                  "matched", "runpipeline", "rtl"}

ASSUME NumAirdropsAssumption == NumAirdrops \in Nat \ {0}
ASSUME LapsAssumption        == Laps \in Nat
ASSUME OperationsAssumption  == Operations \subseteq AllOperations

Airdrops == 1..NumAirdrops

ASSUME PostingsAssumption == Postings \subseteq SUBSET Airdrops

VARIABLES
    alive,          \* the process runs, and its tick thread is in no planning without end
    mavConnected,   \* state->mav is not nullptr
    mission,        \* cached_mission: absent, or the shape of its airdrop boundary
    tick,           \* ID of state->tick
    status,         \* its status, for the two ticks an operator decides on
    future,         \* the future of the job its init() started
    upload,         \* next_tick, waypoints and upload_geofence of a MavUploadTick
    started,        \* mission_started of a FlySearchTick
    initPath, coveragePath, airdropPath,
    laps,           \* laps_remaining
    cvStatus,
    cv,             \* state->cv is not nullptr
    accepting,      \* accepting_images of the current aggregator
    matched,        \* airdrops whose target was posted to the current aggregator
    dropped,        \* dropped_airdrops
    nextDrop,       \* next_airdrop_to_drop, 0 for nullopt
    mappingIsDone,
    onboard,        \* the path of the waypoint mission the autopilot holds
    released,       \* airdrops whose relay command succeeded (history)
    pc, ref         \* of each handler thread: where it is, what its pointer is

jobVars     == <<future, upload, started>>
tickVars    == <<tick, status, future, upload, started, laps>>
pathVars    == <<initPath, coveragePath, airdropPath>>
cvVars      == <<cvStatus, cv, accepting, matched>>
dropVars    == <<dropped, nextDrop, released>>
handlerVars == <<pc, ref>>
vars == <<alive, mavConnected, mission, tickVars, pathVars, cvVars, dropVars,
          mappingIsDone, onboard, handlerVars>>

-------------------------------------------------------------------------------
TickIDs == {"MissionPrep", "PathGen", "PathValidate", "MavUpload",
            "WaitForTakeoff", "Takeoff", "ActiveTakeoff", "FlyWaypoints",
            "FlySearch", "CVLoiter", "AirdropPrep", "AirdropApproach",
            "ManualLanding"}

PathKinds == {"none", "empty", "planned", "approved", "replanned", "coverage", "approach"}

Paths == [kind : PathKinds, airdrop : 0..NumAirdrops, attempt : {"present", "earlier"}]

PathOf(kind) == [kind |-> kind, airdrop |-> 0, attempt |-> "present"]

\* The same path once another planning attempt has begun.
Outdated(path) == [path EXCEPT !.attempt = "earlier"]

Uploads == [next : {"WaitForTakeoff", "FlyWaypoints", "FlySearch", "AirdropApproach"},
            waypoints : Paths,
            geofence : BOOLEAN]

TickOps == {"validate", "new", "manual", "autonomous"}  \* hold a tick pointer
CVOps   == {"terminate", "write"}                    \* hold an aggregator pointer

\* The tick an operation of TickOps asks getTickLockPtr for, and the status it sets.
TickFor(op)   == IF op \in {"validate", "new"} THEN "PathValidate" ELSE "WaitForTakeoff"
StatusFor(op) == CASE op = "validate"   -> "Validated"
                   [] op = "new"        -> "Rejected"
                   [] op = "manual"     -> "Manual"
                   [] op = "autonomous" -> "Autonomous"

\* The object behind a pointer of a handler in one of ops has been replaced.
Detached(ops) == [h \in Handlers |-> IF pc[h] \in ops THEN "stale" ELSE ref[h]]

\* laps_remaining once the laps are flown: with 0 configured one is flown all the same.
LastLap == IF Laps = 0 THEN -1 ELSE 0

TypeOK ==
    /\ alive \in BOOLEAN /\ mavConnected \in BOOLEAN
    /\ mission \in {"None", "Rectangle", "Polygon"}
    /\ tick \in TickIDs
    /\ status \in {"None", "Validated", "Rejected", "Manual", "Autonomous"}
    /\ future \in {"none", "pending", "ok", "failed"}
    /\ upload \in Uploads
    /\ started \in BOOLEAN
    /\ initPath \in Paths /\ coveragePath \in Paths /\ airdropPath \in Paths
    /\ laps \in LastLap..Laps
    /\ cvStatus \in {"None", "Validated"}
    /\ cv \in BOOLEAN /\ accepting \in BOOLEAN
    /\ matched \subseteq Airdrops /\ dropped \subseteq Airdrops
    /\ nextDrop \in 0..NumAirdrops
    /\ mappingIsDone \in BOOLEAN
    /\ onboard \in Paths
    /\ released \subseteq Airdrops
    /\ pc \in [Handlers -> TickOps \cup CVOps \cup {"idle", "getResults", "publish"}]
    /\ ref \in [Handlers -> {"current", "stale"}]

\* mappingIsDone has no initialiser: it starts with whatever the memory held.
Init ==
    /\ alive = TRUE /\ mavConnected = FALSE
    /\ mission = "None"
    /\ tick = "MissionPrep" /\ status = "None" /\ future = "none" /\ started = FALSE
    /\ upload = [next |-> "WaitForTakeoff", waypoints |-> PathOf("none"), geofence |-> FALSE]
    /\ initPath = PathOf("none") /\ coveragePath = PathOf("none")
    /\ airdropPath = PathOf("none")
    /\ laps = Laps
    /\ cvStatus = "None" /\ cv = FALSE /\ accepting = FALSE /\ matched = {}
    /\ dropped = {} /\ nextDrop = 0 /\ released = {}
    /\ mappingIsDone \in BOOLEAN
    /\ onboard = PathOf("none")
    /\ pc = [h \in Handlers |-> "idle"] /\ ref = [h \in Handlers |-> "stale"]

-------------------------------------------------------------------------------
(* Replacing the current tick, with the init() of the new one.             *)

\* MissionState::_setTick: the old tick goes, the new one starts with status None.
SetTick(id, job) ==
    /\ tick' = id
    /\ status' = "None"
    /\ future' = job
    /\ ref' = Detached(TickOps)
    /\ UNCHANGED <<alive, pc>>

Enter(id) == SetTick(id, "none") /\ UNCHANGED <<upload, started, laps>>

EnterJob(id) == SetTick(id, "pending") /\ UNCHANGED <<upload, started, laps>>

\* PathGenTick::init starts to plan anew: the paths there are belong to an earlier attempt.
OutdatePaths ==
    /\ initPath' = Outdated(initPath) /\ coveragePath' = Outdated(coveragePath)
    /\ onboard' = Outdated(onboard)
    /\ UNCHANGED airdropPath

EnterMavUpload(next, waypoints, geofence) ==
    /\ SetTick("MavUpload", "pending")
    /\ upload' = [next |-> next, waypoints |-> waypoints, geofence |-> geofence]
    /\ UNCHANGED <<started, laps>>

EnterSameLap ==
    /\ SetTick("FlyWaypoints", "none")
    /\ UNCHANGED <<upload, started, laps>>

EnterFlyWaypoints ==
    /\ SetTick("FlyWaypoints", "none")
    /\ laps' = laps - 1
    /\ UNCHANGED <<upload, started>>

EnterFlySearch ==
    /\ SetTick("FlySearch", "none")
    /\ started' \in BOOLEAN
    /\ UNCHANGED <<upload, laps>>

\* MissionState::setCV with a new aggregator.
ReplaceCVNotAccepting ==
    /\ cv' = TRUE /\ accepting' = FALSE /\ matched' = {}

ReplaceCV ==
    /\ cv' = TRUE /\ accepting' = TRUE /\ matched' = {}

-------------------------------------------------------------------------------
(* The ticks.  Each is one run of tick() under tick_mut.                   *)

KeepMappingDone == UNCHANGED mappingIsDone

ResetMappingDone == mappingIsDone' = FALSE

MissionPrepTick ==
    /\ alive /\ tick = "MissionPrep" /\ mission # "None"
    /\ ReplaceCV
    /\ ResetMappingDone
    /\ tick' = "PathGen" /\ status' = "None" /\ future' = "pending"
    /\ ref' = Detached(TickOps \cup CVOps)
    /\ OutdatePaths
    /\ UNCHANGED <<alive, mavConnected, mission, upload, started, laps, cvStatus,
                   dropVars, pc>>

\* generateInitialPath and generateSearchPath run to their end.
PathGenJob ==
    /\ alive /\ tick = "PathGen" /\ future = "pending"
    /\ mavConnected /\ mission = "Rectangle"
    /\ future' = "ok"
    /\ UNCHANGED <<alive, mavConnected, mission, tick, status, upload, started, laps,
                   pathVars, cvVars, dropVars, mappingIsDone, onboard, handlerVars>>

\* getCurrentLoc dereferences getMav() unchecked, and HoverCoveragePathing::run (the
\* coverage method of configs/jetson.json) aborts unless the airdrop boundary has four corners.
PathGenCrash ==
    /\ alive /\ tick = "PathGen" /\ future = "pending"
    /\ ~mavConnected \/ mission = "Polygon"
    /\ alive' = FALSE
    /\ UNCHANGED <<mavConnected, mission, tickVars, pathVars, cvVars, dropVars,
                   mappingIsDone, onboard, handlerVars>>

PathGenTick ==
    /\ alive /\ tick = "PathGen" /\ future = "ok"
    /\ initPath' = PathOf("planned")
    /\ coveragePath' \in {PathOf("coverage"), PathOf("empty")}
    /\ Enter("PathValidate")
    /\ UNCHANGED <<mavConnected, mission, airdropPath, cvVars, dropVars, mappingIsDone,
                   onboard>>

Approved == status = "Validated" /\ mavConnected

PathValidateTick ==
    /\ alive /\ tick = "PathValidate"
    /\ \/ /\ Approved
          /\ EnterMavUpload("WaitForTakeoff", initPath, TRUE)
          /\ UNCHANGED <<pathVars, onboard>>
       \/ /\ status = "Rejected"
          /\ EnterJob("PathGen")
          /\ OutdatePaths
    /\ UNCHANGED <<mavConnected, mission, cvVars, dropVars, mappingIsDone>>

\* The geofence's mission or initial path is missing.
UploadRefused == upload.geofence /\ (mission = "None" \/ initPath.kind = "none")

SendsFirstWaypoints == upload.waypoints.kind # "empty" /\ onboard.kind # "approved"

\* A path without a point is not sent.
SendsWaypoints == upload.waypoints.kind # "empty"

\* MavlinkClient::uploadMissionUntilSuccess: it tries until the autopilot takes the
\* mission, and returns false only if it refuses the upload.
UploadJob ==
    /\ alive /\ tick = "MavUpload" /\ future = "pending"
    /\ future' = IF UploadRefused THEN "failed" ELSE "ok"
    /\ onboard' = IF ~UploadRefused /\ SendsWaypoints THEN upload.waypoints ELSE onboard
    /\ UNCHANGED <<alive, mavConnected, mission, tick, status, upload, started, laps,
                   pathVars, cvVars, dropVars, mappingIsDone, handlerVars>>

MavUploadTick ==
    /\ alive /\ tick = "MavUpload" /\ future \in {"ok", "failed"}
    /\ IF future = "failed"
       THEN EnterMavUpload(upload.next, upload.waypoints, upload.geofence)
       ELSE \/ upload.next = "FlyWaypoints" /\ EnterFlyWaypoints
            \/ upload.next = "FlySearch" /\ EnterFlySearch
            \/ upload.next \in {"WaitForTakeoff", "AirdropApproach"} /\ Enter(upload.next)
    /\ UNCHANGED <<mavConnected, mission, pathVars, cvVars, dropVars, mappingIsDone, onboard>>

WaitForTakeoffTick ==
    /\ alive /\ tick = "WaitForTakeoff"
    /\ \/ status = "Manual" /\ Enter("Takeoff")
       \/ status = "Autonomous" /\ EnterJob("ActiveTakeoff")
    /\ UNCHANGED <<mavConnected, mission, pathVars, cvVars, dropVars, mappingIsDone, onboard>>

\* The pilot has switched the plane to mission mode.
TakeoffTick ==
    /\ alive /\ tick = "Takeoff"
    /\ EnterFlyWaypoints
    /\ UNCHANGED <<mavConnected, mission, pathVars, cvVars, dropVars, mappingIsDone, onboard>>

\* MavlinkClient::armAndHover succeeds or fails at one of its commands.
ArmAndHoverJob ==
    /\ alive /\ tick = "ActiveTakeoff" /\ future = "pending"
    /\ future' \in {"ok", "failed"}
    /\ UNCHANGED <<alive, mavConnected, mission, tick, status, upload, started, laps,
                   pathVars, cvVars, dropVars, mappingIsDone, onboard, handlerVars>>

\* Both of the code's successors are a FlyWaypointsTick, whose next_tick is never used.
ActiveTakeoffTick ==
    /\ alive /\ tick = "ActiveTakeoff" /\ future \in {"ok", "failed"}
    /\ \/ Enter("MissionPrep")                    \* armAndHover or startMission failed
       \/ future = "ok" /\ EnterFlyWaypoints
    /\ UNCHANGED <<mavConnected, mission, pathVars, cvVars, dropVars, mappingIsDone, onboard>>

LapsLeft == laps > 0

\* The autopilot reports the lap finished.  A path not generated in 2.5 s changes
\* nothing: the next tick tries again.
FlyWaypointsTick ==
    /\ alive /\ tick = "FlyWaypoints"
    /\ IF LapsLeft
       THEN /\ initPath' = PathOf("replanned")
            /\ EnterMavUpload("FlyWaypoints", initPath', FALSE)
       ELSE /\ EnterMavUpload("FlySearch", coveragePath, FALSE)
            /\ UNCHANGED initPath
    /\ UNCHANGED <<mavConnected, mission, coveragePath, airdropPath, cvVars, dropVars,
                   mappingIsDone, onboard>>

\* The path of the next lap is never found: the future of the planning is destroyed at
\* the end of tick(), which waits for it under tick_mut.
FlyWaypointsLost ==
    /\ alive /\ tick = "FlyWaypoints" /\ LapsLeft
    /\ alive' = FALSE
    /\ UNCHANGED <<mavConnected, mission, tickVars, pathVars, cvVars, dropVars,
                   mappingIsDone, onboard, handlerVars>>

FlySearchTick ==
    /\ alive /\ tick = "FlySearch"
    /\ IF cvStatus = "Validated"
       THEN /\ cvStatus' = "None"
            /\ Enter("AirdropPrep")
       ELSE /\ UNCHANGED cvStatus
            /\ IF started
               THEN Enter("CVLoiter")             \* the autopilot reports the end
               ELSE /\ started' = TRUE            \* startMission succeeds this time
                    /\ UNCHANGED <<alive, tick, status, future, upload, laps, handlerVars>>
    /\ UNCHANGED <<mavConnected, mission, pathVars, cv, accepting, matched, dropVars,
                   mappingIsDone, onboard>>

LoiterUntilAccepting ==
    /\ alive /\ tick = "CVLoiter" /\ cvStatus = "Validated" /\ accepting
    /\ Enter("AirdropPrep")
    /\ UNCHANGED <<mavConnected, mission, pathVars, cvVars, dropVars, mappingIsDone, onboard>>

\* CVStatus::Rejected is tested here, but nothing in the program ever sets it.
CVLoiterTick ==
    /\ alive /\ tick = "CVLoiter" /\ cvStatus = "Validated"
    /\ Enter("AirdropPrep")
    /\ UNCHANGED <<mavConnected, mission, pathVars, cvVars, dropVars, mappingIsDone, onboard>>

\* The first airdrop that is not in dropped_airdrops.
NextAirdrop == CHOOSE a \in Airdrops \ dropped : \A b \in Airdrops \ dropped : a <= b

AllButOneDropped == Cardinality(dropped) >= NumAirdrops - 1

AllDropped == Cardinality(dropped) >= NumAirdrops

ForgetDropped == UNCHANGED dropped

MarkDropped == dropped' = dropped \cup {NextAirdrop}

NeverThrows(path) == FALSE

\* MissionPath::generateForwardCommands reads the first point of the path; without one
\* it throws, and nothing on the tick thread catches that.
ForwardPathThrows(path) == path.kind = "empty"

\* generateAirdropApproach erases the first two points of the path it planned: none may
\* be left.
AirdropPrepTick ==
    /\ alive /\ tick = "AirdropPrep"
    /\ \/ /\ AllDropped
          /\ Enter("ManualLanding") /\ UNCHANGED <<dropped, nextDrop, airdropPath>>
       \/ /\ ~AllDropped /\ NextAirdrop \in matched
          /\ MarkDropped
          /\ \E kind \in {"approach", "empty"} :
                airdropPath' = [PathOf(kind) EXCEPT !.airdrop = NextAirdrop]
          /\ ~ForwardPathThrows(airdropPath')
          /\ nextDrop' = NextAirdrop
          /\ EnterMavUpload("AirdropApproach", airdropPath', FALSE)
    /\ UNCHANGED <<mavConnected, mission, initPath, coveragePath, cvVars, released,
                   mappingIsDone, onboard>>

\* The path is too short and MissionPath throws, or no path to the target is found and
\* RRTIteration calls itself for ever under tick_mut: so it is for the (0, 0) a new
\* aggregator's targets start with, which is out of bounds, and may be for a posted target.
AirdropPrepLost ==
    /\ alive /\ tick = "AirdropPrep" /\ ~AllDropped
    /\ MarkDropped
    /\ alive' = FALSE
    /\ UNCHANGED <<mavConnected, mission, tickVars, pathVars, cvVars, nextDrop, released,
                   mappingIsDone, onboard, handlerVars>>

\* atFinal and finished are two reads of the mission progress; sent is the answer to
\* the relay command, which the tick ignores.
AirdropApproachTick(atFinal, sent, finished) ==
    /\ alive /\ tick = "AirdropApproach"
    /\ released' = IF atFinal /\ nextDrop # 0 /\ sent
                   THEN released \cup {nextDrop} ELSE released
    /\ IF finished
       THEN Enter(IF AllDropped THEN "ManualLanding" ELSE "AirdropPrep")
       ELSE UNCHANGED <<alive, tickVars, handlerVars>>
    /\ UNCHANGED <<mavConnected, mission, pathVars, cvVars, dropped, nextDrop,
                   mappingIsDone, onboard>>

\* With every airdrop dropped it stitches the map once.  Its other branch returns
\* next_tick, which is nullptr wherever the tick is made.
ManualLandingTick ==
    /\ alive /\ tick = "ManualLanding"
    /\ AllDropped /\ ~mappingIsDone
    /\ mappingIsDone' = TRUE
    /\ UNCHANGED <<alive, mavConnected, mission, tickVars, pathVars, cvVars, dropVars,
                   onboard, handlerVars>>

-------------------------------------------------------------------------------
(* The handlers of the GCS server and the connection threads.              *)

Goto(h, label) == pc' = [pc EXCEPT ![h] = label]

ConnectMavAnew ==
    /\ alive
    /\ mavConnected' = ~mavConnected
    /\ UNCHANGED <<alive, mission, tickVars, pathVars, cvVars, dropVars, mappingIsDone,
                   onboard, handlerVars>>

\* OBC::connectMavlink
ConnectMav ==
    /\ alive /\ ~mavConnected
    /\ mavConnected' = TRUE
    /\ UNCHANGED <<alive, mission, tickVars, pathVars, cvVars, dropVars, mappingIsDone,
                   onboard, handlerVars>>

\* POST /mission, with a mission setMission accepts.
PostMission(h) ==
    /\ alive /\ pc[h] = "idle" /\ "mission" \in Operations
    /\ mission' \in {"Rectangle", "Polygon"}
    /\ UNCHANGED <<alive, mavConnected, tickVars, pathVars, cvVars, dropVars,
                   mappingIsDone, onboard, handlerVars>>

\* getTickLockPtr: the tick is looked up, and found to be of the asked type, without
\* tick_mut.
LookUpTick(h, op) ==
    /\ alive /\ pc[h] = "idle" /\ op \in Operations
    /\ tick = TickFor(op)
    /\ op = "validate" => initPath.kind # "none"
    /\ Goto(h, op)
    /\ ref' = [ref EXCEPT ![h] = "current"]
    /\ UNCHANGED <<alive, mavConnected, mission, tickVars, pathVars, cvVars, dropVars,
                   mappingIsDone, onboard>>

\* The handler has locked tick_mut and sets the status of the tick it looked up.
\* A path validated this way is the one the operator approved.
SetStatus(h) ==
    /\ alive /\ pc[h] \in TickOps
    /\ IF ref[h] = "current"
       THEN /\ status' = StatusFor(pc[h])
            /\ initPath' = IF pc[h] = "validate" THEN [initPath EXCEPT !.kind = "approved"]
                           ELSE initPath
       ELSE UNCHANGED <<status, initPath>>
    /\ Goto(h, "idle")
    /\ UNCHANGED <<alive, mavConnected, mission, tick, jobVars, laps, coveragePath,
                   airdropPath, cvVars, dropVars, mappingIsDone, onboard, ref>>

\* POST /targets/matched: there is an aggregator; getCV() is read ...
BeginMatched(h) ==
    /\ alive /\ pc[h] = "idle" /\ "matched" \in Operations
    /\ cv
    /\ Goto(h, "terminate")
    /\ ref' = [ref EXCEPT ![h] = "current"]
    /\ UNCHANGED <<alive, mavConnected, mission, tickVars, pathVars, cvVars, dropVars,
                   mappingIsDone, onboard>>

\* ... and told to terminate (module CVAggregator) ...
TerminateCV(h) ==
    /\ alive /\ pc[h] = "terminate"
    /\ accepting' = (accepting /\ ref[h] = "stale")
    /\ Goto(h, "getResults")
    /\ UNCHANGED <<alive, mavConnected, mission, tickVars, pathVars, cvStatus, cv, matched,
                   dropVars, mappingIsDone, onboard, ref>>

\* ... getCV() is read again for its matched results ...
LookUpCV(h) ==
    /\ alive /\ pc[h] = "getResults"
    /\ Goto(h, "write")
    /\ ref' = [ref EXCEPT ![h] = "current"]
    /\ UNCHANGED <<alive, mavConnected, mission, tickVars, pathVars, cvVars, dropVars,
                   mappingIsDone, onboard>>

\* ... under its lock the posted targets are stored ...
WriteMatched(h, targets) ==
    /\ alive /\ pc[h] = "write"
    /\ matched' = IF ref[h] = "current" THEN matched \cup targets ELSE matched
    /\ Goto(h, "publish")
    /\ UNCHANGED <<alive, mavConnected, mission, tickVars, pathVars, cvStatus, cv, accepting,
                   dropVars, mappingIsDone, onboard, ref>>

\* ... and the CV status is set.
PublishMatched(h) ==
    /\ alive /\ pc[h] = "publish"
    /\ cvStatus' = "Validated"
    /\ Goto(h, "idle")
    /\ UNCHANGED <<alive, mavConnected, mission, tickVars, pathVars, cv, accepting, matched,
                   dropVars, mappingIsDone, onboard, ref>>

\* POST /camera/runpipeline installs a new aggregator, whatever the mission is doing.
RunPipeline(h) ==
    /\ alive /\ pc[h] = "idle" /\ "runpipeline" \in Operations
    /\ ReplaceCV
    /\ ref' = Detached(CVOps)
    /\ UNCHANGED <<alive, mavConnected, mission, tickVars, pathVars, cvStatus, dropVars,
                   mappingIsDone, onboard, pc>>

\* POST /rtl dereferences getMav() unchecked.
ReturnToLaunch(h) ==
    /\ alive /\ pc[h] = "idle" /\ "rtl" \in Operations
    /\ alive' = mavConnected
    /\ UNCHANGED <<mavConnected, mission, tickVars, pathVars, cvVars, dropVars,
                   mappingIsDone, onboard, handlerVars>>

\* A crashed process does nothing any more.
Crashed == ~alive /\ UNCHANGED vars

-------------------------------------------------------------------------------
Job == PathGenJob \/ PathGenCrash \/ UploadJob \/ ArmAndHoverJob

Tick ==
    \/ MissionPrepTick \/ PathGenTick \/ PathValidateTick \/ MavUploadTick
    \/ WaitForTakeoffTick \/ TakeoffTick \/ ActiveTakeoffTick \/ FlyWaypointsTick
    \/ FlyWaypointsLost \/ FlySearchTick \/ CVLoiterTick \/ AirdropPrepTick \/ AirdropPrepLost
    \/ ManualLandingTick
    \/ \E atFinal, sent, finished \in BOOLEAN : AirdropApproachTick(atFinal, sent, finished)

Handle(h) ==
    \/ PostMission(h) \/ SetStatus(h) \/ RunPipeline(h) \/ ReturnToLaunch(h)
    \/ BeginMatched(h) \/ TerminateCV(h) \/ LookUpCV(h) \/ PublishMatched(h)
    \/ \E op \in TickOps : LookUpTick(h, op)
    \/ \E targets \in Postings : WriteMatched(h, targets)

Next ==
    \/ Tick \/ Job \/ ConnectMav \/ Crashed
    \/ \E h \in Handlers : Handle(h)

Spec == Init /\ [][Next]_vars

\* OBC::run calls doTick for ever, and the autopilot sooner or later reports the mission it
\* flies finished.  No job need end: not the planning, nor the upload's endless loop.
Fairness == WF_vars(Tick)

FairSpec == Spec /\ Fairness

-------------------------------------------------------------------------------
(* Safety.                                                                 *)

AirTicks == {"FlyWaypoints", "FlySearch", "CVLoiter", "AirdropPrep", "AirdropApproach",
             "ManualLanding"}

\* From the first upload on every tick calls getMav() without a test, so the machine must
\* not get there before the autopilot is connected, nor lose it (path_validate.cpp:22).
FlightTicksHaveMav ==
    tick \in AirTicks \cup {"MavUpload", "WaitForTakeoff", "Takeoff", "ActiveTakeoff"}
        => mavConnected

\* "... should never happen due to how the state machine is set up" (mavlink.hpp:55-57):
\* the upload job never returns false, whatever operators post meanwhile.
UploadNeverFails == tick = "MavUpload" => future # "failed"

\* The plane takes off with the path an operator approved in the present attempt: the
\* autopilot holds the path the mission state holds, and neither is one planned before a
\* rejection or a failed takeoff, approved or not.
TakeoffFliesApprovedPath ==
    tick \in {"WaitForTakeoff", "Takeoff", "ActiveTakeoff"} =>
        /\ onboard = initPath
        /\ onboard.kind = "approved" /\ onboard.attempt = "present"

\* decrementLapsRemaining runs in init() of every FlyWaypointsTick, laps are tested in
\* its tick(): together they fly config.pathing.laps laps, also when a failed takeoff
\* sends the machine back to MissionPrep.  With 0 configured, which obc_config.cpp does not
\* refuse, one lap is flown and the counter ends at -1.
LapsAccounted ==
    /\ tick \in {"MissionPrep", "PathGen", "PathValidate", "WaitForTakeoff", "Takeoff",
                 "ActiveTakeoff"} => laps = Laps
    /\ tick = "FlyWaypoints" => laps < Laps
    /\ tick \in AirTicks \ {"FlyWaypoints"} => laps = LastLap

\* Airdrops are taken in order, none twice, and the path the plane flies in the approach
\* is to the target of the airdrop the relay is about to release.
AirdropOrder ==
    /\ alive => dropped = 1..nextDrop
    /\ released \subseteq dropped
    /\ tick = "AirdropApproach" => onboard = airdropPath /\ airdropPath.airdrop = nextDrop

\* While the plane searches, its aggregator takes the pictures, unless an operator has
\* posted the matches or is posting them (terminate() makes runPipeline drop them).
SearchPicturesAreTaken ==
    tick \in {"FlyWaypoints", "FlySearch", "CVLoiter"} /\ ~accepting =>
        \/ cvStatus = "Validated"
        \/ \E h \in Handlers : pc[h] \in {"getResults", "write", "publish"}

\* mappingIsDone has no initialiser; even so the map is stitched when, and only when,
\* the machine waits for landing with every airdrop dropped.
MappingWaitsForLanding ==
    /\ tick = "ManualLanding" => dropped = Airdrops
    /\ mappingIsDone => tick \in {"MissionPrep", "ManualLanding"}

-------------------------------------------------------------------------------
(* The mission plan the state machine carries out (module MissionPlan).    *)

Phase ==
    CASE tick \in {"MissionPrep", "PathGen", "PathValidate"} -> "Planning"
      [] tick \in {"WaitForTakeoff", "Takeoff", "ActiveTakeoff"} -> "Approved"
      [] tick = "FlyWaypoints" -> "Airborne"
      [] tick \in {"FlySearch", "CVLoiter"} -> "Searching"
      [] tick \in {"AirdropPrep", "AirdropApproach"} -> "Delivering"
      [] tick = "ManualLanding" -> "Landing"
      [] OTHER -> IF upload.next = "WaitForTakeoff" THEN "Approved"
                  ELSE IF upload.next = "AirdropApproach" THEN "Delivering" ELSE "Airborne"

Plan == INSTANCE MissionPlan WITH phase <- Phase, lapsLeft <- laps, delivered <- nextDrop

\* The thirteen ticks and their uploads carry out the plan: approval, then the laps, then
\* the search, then every airdrop, then landing; a step of the plan is never skipped,
\* repeated or taken back, except that a failed takeoff needs a new approval.
ImplementsPlan == Plan!Spec

-------------------------------------------------------------------------------
(* Liveness, under Fairness.                                               *)

\* The upload waits for an autopilot that never takes the mission (mavlink.cpp:312).
UploadPending == tick = "MavUpload" /\ future = "pending"


\* Matches an operator posts during the search lead to the first airdrop.
MatchIsActedOn ==
    cvStatus = "Validated" /\ tick \in {"FlySearch", "CVLoiter"} ~> tick = "AirdropPrep"

\* Once delivery has begun, every airdrop is flown and the machine waits for landing, unless
\* planning an approach never ends or throws, or the autopilot never takes its path.
DeliveryCompletes ==
    tick = "AirdropPrep" ~> (tick = "ManualLanding" \/ ~alive \/ []UploadPending)

-------------------------------------------------------------------------------
(* Statements of the repository the code does not keep.                    *)

\* airdrop_prep.cpp:38-39: "everything theoretically should be matched when the matched
\* route is posted"; no approach is planned to the dummy target of a new aggregator.
AirdropTargetsMatched == tick = "AirdropPrep" /\ ~AllDropped => NextAirdrop \in matched
===============================================================================
