--------------------------- MODULE ObcMissionProofs ---------------------------
(***************************************************************************)
(* The safety of the mission state machine, and its refinement of          *)
(* MissionPlan, for any handlers, airdrops, laps and operations.           *)
(*                                                                         *)
(* The invariants of ObcMission say little about an upload in progress;    *)
(* what is known before it starts must reach the tick that follows.  Each  *)
(* part below carries one such fact through MavUpload.                     *)
(***************************************************************************)
EXTENDS ObcMission, FiniteSetTheorems, TLAPS

UploadingFor(next) == tick = "MavUpload" /\ upload.next = next

(* Nothing is planned without a mission, nothing uploaded without a path or an autopilot. *)
Prepared ==
    /\ tick # "MissionPrep" => mission # "None"
    /\ tick \notin {"MissionPrep", "PathGen"} => initPath.kind # "none"
    /\ FlightTicksHaveMav
    /\ UploadNeverFails

(* A pointer that is current leads to a tick of the type it was looked up with, so only
   PathValidate is validated, and only together with its path. *)
PointersMatch ==
    \A h \in Handlers : pc[h] \in TickOps /\ ref[h] = "current" => tick = TickFor(pc[h])

Approval ==
    /\ tick = "PathValidate" => initPath.attempt = "present"
    /\ tick = "PathValidate" /\ status = "Validated" => initPath.kind = "approved"
    /\ UploadingFor("WaitForTakeoff") =>
           /\ initPath.kind = "approved" /\ initPath.attempt = "present"
           /\ upload.waypoints = initPath
           /\ future = "ok" => onboard = initPath
    /\ TakeoffFliesApprovedPath

(* An upload keeps the laps its next tick relies on. *)
LapCount ==
    /\ UploadingFor("WaitForTakeoff") => laps = Laps
    /\ UploadingFor("FlyWaypoints") => 0 < laps /\ laps < Laps
    /\ UploadingFor("FlySearch") \/ UploadingFor("AirdropApproach") => laps = LastLap
    /\ LapsAccounted

(* The airdrops are begun in order, and none is before the deliveries. *)
Airdropping == tick \in {"AirdropPrep", "AirdropApproach", "ManualLanding"}
                   \/ UploadingFor("AirdropApproach")

DropOrder ==
    /\ UploadingFor("AirdropApproach") =>
           /\ upload.waypoints = airdropPath /\ airdropPath.kind = "approach"
           /\ airdropPath.airdrop = nextDrop
           /\ future = "ok" => onboard = airdropPath
    /\ ~Airdropping => nextDrop = 0
    /\ AirdropOrder

(* An aggregator that refuses pictures was told to by a handler that will say so. *)
Pictures ==
    tick # "MissionPrep" /\ ~Airdropping /\ ~accepting =>
        \/ cvStatus = "Validated"
        \/ \E h \in Handlers : pc[h] \in {"getResults", "write", "publish"}

IInv ==
    /\ TypeOK /\ Prepared /\ PointersMatch /\ Approval /\ LapCount /\ DropOrder
    /\ Pictures /\ MappingWaitsForLanding

-------------------------------------------------------------------------------
(* Frames: what the handlers, the jobs and a tick's successor leave alone. *)

\* A handler never moves the machine: it sets statuses, the approved path and the
\* aggregator.
LEMMA HandlerFrame ==
    ASSUME NEW h \in Handlers, Handle(h)
    PROVE  /\ UNCHANGED <<mavConnected, tick, future, upload, started, laps, coveragePath,
                         airdropPath, dropVars, mappingIsDone, onboard>>
           /\ alive' => alive
BY DEF Handle, PostMission, SetStatus, RunPipeline, ReturnToLaunch, BeginMatched, TerminateCV,
       LookUpCV, PublishMatched, LookUpTick, WriteMatched, ReplaceCV, jobVars, tickVars,
       pathVars, cvVars, dropVars, handlerVars

\* Neither does a job or a connection: it reports a result to the tick that polls it.
LEMMA JobFrame ==
    ASSUME Job \/ ConnectMav \/ UNCHANGED vars
    PROVE  /\ UNCHANGED <<mission, tick, status, upload, started, laps, pathVars, cvVars,
                         dropVars, mappingIsDone, handlerVars>>
           /\ alive' => alive
           /\ mavConnected => mavConnected'
BY DEF Job, PathGenJob, PathGenCrash, UploadJob, ArmAndHoverJob, ConnectMav, vars, tickVars,
       pathVars, cvVars, dropVars, handlerVars

\* Every step is a tick, a job, a connection, a handler's step, or changes nothing.
LEMMA StepCases ==
    ASSUME [Next]_vars
    PROVE  \/ MissionPrepTick \/ PathGenTick \/ PathValidateTick \/ MavUploadTick
           \/ WaitForTakeoffTick \/ TakeoffTick \/ ActiveTakeoffTick \/ FlyWaypointsTick
           \/ FlySearchTick \/ CVLoiterTick \/ AirdropPrepTick \/ AirdropPrepLost
           \/ FlyWaypointsLost
           \/ ManualLandingTick
           \/ \E atFinal, sent, finished \in BOOLEAN : AirdropApproachTick(atFinal, sent, finished)
           \/ Job \/ ConnectMav \/ UNCHANGED vars
           \/ \E h \in Handlers : Handle(h)
BY DEF Next, Tick, Crashed

-------------------------------------------------------------------------------
(* Paths, as they are made, approved and outdated. *)

LEMMA NewPath ==
    ASSUME NEW kind \in PathKinds, NEW a \in 0..NumAirdrops
    PROVE  /\ PathOf(kind) \in Paths
           /\ [PathOf(kind) EXCEPT !.airdrop = a]
                 = [kind |-> kind, airdrop |-> a, attempt |-> "present"]
           /\ [PathOf(kind) EXCEPT !.airdrop = a] \in Paths
<1>1. 0 \in 0..NumAirdrops
  BY NumAirdropsAssumption
<1> QED
  BY <1>1 DEF PathOf, Paths

LEMMA ApprovedPath ==
    ASSUME NEW path \in Paths, NEW after, after = [path EXCEPT !.kind = "approved"]
    PROVE  after \in Paths /\ after.kind = "approved" /\ after.attempt = path.attempt
BY DEF Paths, PathKinds

LEMMA OutdatedPath ==
    ASSUME NEW path \in Paths
    PROVE  Outdated(path) \in Paths /\ Outdated(path).kind = path.kind
BY DEF Paths, Outdated

-------------------------------------------------------------------------------
(* The airdrops taken are the first nextDrop ones. *)

LEMMA DroppedCount ==
    ASSUME TypeOK, alive, AirdropOrder
    PROVE  Cardinality(dropped) = nextDrop
<1>1. nextDrop \in Nat /\ dropped = 1..nextDrop
  BY NumAirdropsAssumption DEF TypeOK, AirdropOrder
<1>2. Cardinality(1..nextDrop) = nextDrop
  BY <1>1, FS_Interval
<1> QED
  BY <1>1, <1>2

\* With NUM_AIRDROPS airdrops in dropped_airdrops, all are in it ...
LEMMA AllDroppedMeansAll ==
    ASSUME TypeOK, alive, AirdropOrder, AllDropped
    PROVE  dropped = Airdrops /\ nextDrop = NumAirdrops
<1>1. nextDrop = NumAirdrops
  BY DroppedCount, NumAirdropsAssumption DEF TypeOK, AllDropped
<1> QED
  BY <1>1 DEF AirdropOrder, Airdrops

\* ... and with fewer the next one is the successor of the last.
LEMMA NextAirdropIsNext ==
    ASSUME TypeOK, alive, AirdropOrder, ~AllDropped
    PROVE  NextAirdrop = nextDrop + 1 /\ nextDrop + 1 \in Airdrops
<1>1. nextDrop \in 0..NumAirdrops /\ nextDrop < NumAirdrops
  BY DroppedCount, NumAirdropsAssumption DEF TypeOK, AllDropped
<1>2. Airdrops \ dropped = (nextDrop + 1)..NumAirdrops
  BY <1>1, NumAirdropsAssumption DEF AirdropOrder, Airdrops
<1>3. \A a \in Airdrops \ dropped :
          (\A b \in Airdrops \ dropped : a <= b) <=> a = nextDrop + 1
  BY <1>1, <1>2, NumAirdropsAssumption
<1>4. nextDrop + 1 \in Airdrops \ dropped
  BY <1>1, <1>2, NumAirdropsAssumption
<1> QED
  BY <1>3, <1>4 DEF NextAirdrop

-------------------------------------------------------------------------------
(* Types, in parts. *)

TypedProcess ==
    /\ alive \in BOOLEAN /\ mavConnected \in BOOLEAN /\ mappingIsDone \in BOOLEAN
    /\ mission \in {"None", "Rectangle", "Polygon"}

TypedTick ==
    /\ tick \in TickIDs
    /\ status \in {"None", "Validated", "Rejected", "Manual", "Autonomous"}
    /\ future \in {"none", "pending", "ok", "failed"}
    /\ upload \in Uploads /\ started \in BOOLEAN /\ laps \in LastLap..Laps

TypedPaths ==
    initPath \in Paths /\ coveragePath \in Paths /\ airdropPath \in Paths /\ onboard \in Paths

TypedTargets ==
    /\ cvStatus \in {"None", "Validated"} /\ cv \in BOOLEAN /\ accepting \in BOOLEAN
    /\ matched \subseteq Airdrops /\ dropped \subseteq Airdrops /\ released \subseteq Airdrops
    /\ nextDrop \in 0..NumAirdrops

TypedHandlers ==
    /\ pc \in [Handlers -> TickOps \cup CVOps \cup {"idle", "getResults", "publish"}]
    /\ ref \in [Handlers -> {"current", "stale"}]

LEMMA TypeParts ==
    /\ TypeOK <=> TypedProcess /\ TypedTick /\ TypedPaths /\ TypedTargets /\ TypedHandlers
    /\ TypeOK' <=> TypedProcess' /\ TypedTick' /\ TypedPaths' /\ TypedTargets' /\ TypedHandlers'
BY DEF TypeOK, TypedProcess, TypedTick, TypedPaths, TypedTargets, TypedHandlers

-------------------------------------------------------------------------------
(* The parts of the invariant, one by one. *)

\* The map waits for landing, and landing for the last airdrop.
LEMMA MappingPreserved ==
    ASSUME IInv, [Next]_vars
    PROVE  MappingWaitsForLanding'
<1> USE DEF IInv, MappingWaitsForLanding, DropOrder, tickVars, dropVars, MarkDropped, SetTick,
        Enter, EnterJob, EnterMavUpload, EnterFlyWaypoints, EnterFlySearch
<1>1. CASE MissionPrepTick
  BY <1>1 DEF MissionPrepTick, ResetMappingDone
<1>2. CASE PathGenTick
  BY <1>2 DEF PathGenTick
<1>3. CASE PathValidateTick
  BY <1>3 DEF PathValidateTick
<1>4. CASE MavUploadTick
  BY <1>4 DEF MavUploadTick
<1>5. CASE WaitForTakeoffTick
  BY <1>5 DEF WaitForTakeoffTick
<1>6. CASE TakeoffTick
  BY <1>6 DEF TakeoffTick
<1>7. CASE ActiveTakeoffTick
  BY <1>7 DEF ActiveTakeoffTick
<1>8. CASE FlyWaypointsTick
  BY <1>8 DEF FlyWaypointsTick
<1>9. CASE FlySearchTick
  BY <1>9 DEF FlySearchTick
<1>10. CASE CVLoiterTick
  BY <1>10 DEF CVLoiterTick
<1>11. CASE AirdropPrepTick
  <2>1. CASE AllDropped /\ Enter("ManualLanding") /\ UNCHANGED <<dropped, nextDrop, airdropPath>>
    BY <1>11, <2>1, AllDroppedMeansAll DEF AirdropPrepTick
  <2>2. CASE EnterMavUpload("AirdropApproach", airdropPath', FALSE)
    BY <1>11, <2>2 DEF AirdropPrepTick
  <2> QED
    BY <1>11, <2>1, <2>2 DEF AirdropPrepTick
<1>12. CASE AirdropPrepLost
  BY <1>12 DEF AirdropPrepLost
<1>17. CASE FlyWaypointsLost
  BY <1>17 DEF FlyWaypointsLost
<1>13. CASE ManualLandingTick
  BY <1>13 DEF ManualLandingTick
<1>14. ASSUME NEW atFinal \in BOOLEAN, NEW sent \in BOOLEAN, NEW finished \in BOOLEAN,
             AirdropApproachTick(atFinal, sent, finished)
      PROVE  MappingWaitsForLanding'
  <2>1. CASE Enter("ManualLanding") /\ AllDropped
    BY <1>14, <2>1, AllDroppedMeansAll DEF AirdropApproachTick
  <2>2. CASE Enter("AirdropPrep")
    BY <1>14, <2>2 DEF AirdropApproachTick
  <2>3. CASE UNCHANGED tickVars
    BY <1>14, <2>3 DEF AirdropApproachTick, tickVars
  <2> QED
    BY <1>14, <2>1, <2>2, <2>3 DEF AirdropApproachTick
<1>15. CASE Job \/ ConnectMav \/ UNCHANGED vars
  BY <1>15, JobFrame
<1>16. ASSUME NEW h \in Handlers, Handle(h)
      PROVE  MappingWaitsForLanding'
  BY <1>16, HandlerFrame
<1> QED
  BY <1>1, <1>2, <1>3, <1>4, <1>5, <1>6, <1>7, <1>8, <1>9, <1>10, <1>11, <1>12, <1>13, <1>14,
     <1>15, <1>16, <1>17, StepCases

\* The laps: one is begun by each FlyWaypointsTick, in its init().
LEMMA LapCountPreserved ==
    ASSUME IInv, [Next]_vars
    PROVE  LapCount'
<1> USE LapsAssumption DEF IInv, TypeOK, LastLap, LapCount, LapsAccounted, UploadingFor, AirTicks,
        LapsLeft, tickVars, pathVars, dropVars, cvVars, MarkDropped, SetTick, Enter, EnterJob,
        EnterMavUpload, EnterFlyWaypoints, EnterFlySearch
<1>1. CASE MissionPrepTick
  BY <1>1 DEF MissionPrepTick
<1>2. CASE PathGenTick
  BY <1>2 DEF PathGenTick
<1>3. CASE PathValidateTick
  <2>1. CASE EnterMavUpload("WaitForTakeoff", initPath, TRUE)
    BY <1>3, <2>1 DEF PathValidateTick, Approved
  <2>2. CASE EnterJob("PathGen")
    BY <1>3, <2>2 DEF PathValidateTick, Approved
  <2> QED
    BY <1>3, <2>1, <2>2 DEF PathValidateTick, Approved
<1>4. CASE MavUploadTick
  <2>1. CASE EnterMavUpload(upload.next, upload.waypoints, upload.geofence)
    BY <1>4, <2>1 DEF MavUploadTick
  <2>2. CASE upload.next = "FlyWaypoints" /\ EnterFlyWaypoints
    BY <1>4, <2>2 DEF MavUploadTick
  <2>3. CASE upload.next = "FlySearch" /\ EnterFlySearch
    BY <1>4, <2>3 DEF MavUploadTick
  <2>4. CASE upload.next \in {"WaitForTakeoff", "AirdropApproach"} /\ Enter(upload.next)
    BY <1>4, <2>4 DEF MavUploadTick
  <2> QED
    BY <1>4, <2>1, <2>2, <2>3, <2>4 DEF MavUploadTick
<1>5. CASE WaitForTakeoffTick
  BY <1>5 DEF WaitForTakeoffTick
<1>6. CASE TakeoffTick
  BY <1>6 DEF TakeoffTick
<1>7. CASE ActiveTakeoffTick
  <2>1. CASE Enter("MissionPrep")
    BY <1>7, <2>1 DEF ActiveTakeoffTick
  <2>2. CASE EnterFlyWaypoints
    BY <1>7, <2>2 DEF ActiveTakeoffTick
  <2> QED
    BY <1>7, <2>1, <2>2 DEF ActiveTakeoffTick
<1>8. CASE FlyWaypointsTick
  <2>1. CASE LapsLeft
    BY <1>8, <2>1 DEF FlyWaypointsTick, LapsLeft
  <2>2. CASE ~LapsLeft
    BY <1>8, <2>2 DEF FlyWaypointsTick, LapsLeft
  <2> QED
    BY <1>8, <2>1, <2>2 DEF FlyWaypointsTick, LapsLeft
<1>9. CASE FlySearchTick
  <2>1. CASE cvStatus = "Validated"
    BY <1>9, <2>1 DEF FlySearchTick, handlerVars
  <2>2. CASE cvStatus # "Validated" /\ started
    BY <1>9, <2>2 DEF FlySearchTick, handlerVars
  <2>3. CASE cvStatus # "Validated" /\ ~started
    BY <1>9, <2>3 DEF FlySearchTick, handlerVars
  <2> QED
    BY <1>9, <2>1, <2>2, <2>3 DEF FlySearchTick, handlerVars
<1>10. CASE CVLoiterTick
  BY <1>10 DEF CVLoiterTick
<1>11. CASE AirdropPrepTick
  <2>1. CASE AllDropped /\ Enter("ManualLanding")
    BY <1>11, <2>1, AllDroppedMeansAll DEF AirdropPrepTick
  <2>2. CASE EnterMavUpload("AirdropApproach", airdropPath', FALSE)
    BY <1>11, <2>2, NextAirdropIsNext DEF AirdropPrepTick
  <2> QED
    BY <1>11, <2>1, <2>2 DEF AirdropPrepTick
<1>12. CASE AirdropPrepLost
  BY <1>12 DEF AirdropPrepLost
<1>17. CASE FlyWaypointsLost
  BY <1>17 DEF FlyWaypointsLost
<1>13. CASE ManualLandingTick
  BY <1>13 DEF ManualLandingTick
<1>14. ASSUME NEW atFinal \in BOOLEAN, NEW sent \in BOOLEAN, NEW finished \in BOOLEAN,
             AirdropApproachTick(atFinal, sent, finished)
      PROVE  LapCount'
  <2>1. CASE finished /\ AllDropped
    BY <1>14, <2>1, AllDroppedMeansAll DEF AirdropApproachTick, handlerVars
  <2>2. CASE finished /\ ~AllDropped
    BY <1>14, <2>2 DEF AirdropApproachTick, handlerVars
  <2>3. CASE ~finished
    BY <1>14, <2>3 DEF AirdropApproachTick, handlerVars
  <2> QED
    BY <1>14, <2>1, <2>2, <2>3 DEF AirdropApproachTick, handlerVars
<1>15. CASE Job \/ ConnectMav \/ UNCHANGED vars
  BY <1>15, JobFrame
<1>16. ASSUME NEW h \in Handlers, Handle(h)
      PROVE  LapCount'
  BY <1>16, HandlerFrame
<1> QED
  BY <1>1, <1>2, <1>3, <1>4, <1>5, <1>6, <1>7, <1>8, <1>9, <1>10, <1>11, <1>12, <1>13, <1>14,
     <1>15, <1>16, <1>17, StepCases

\* What must be there before the machine gets to a tick that uses it.
LEMMA PreparedPreserved ==
    ASSUME IInv, [Next]_vars
    PROVE  Prepared'
<1> USE DEF IInv, TypeOK, Prepared, FlightTicksHaveMav, UploadNeverFails, PathOf, OutdatePaths,
        Outdated, UploadingFor,
        AirTicks, tickVars, pathVars, dropVars, cvVars, MarkDropped, SetTick, Enter, EnterJob,
        EnterMavUpload, EnterFlyWaypoints, EnterFlySearch
<1>1. CASE MissionPrepTick
  BY <1>1 DEF MissionPrepTick
<1>2. CASE PathGenTick
  BY <1>2 DEF PathGenTick
<1>3. CASE PathValidateTick
  <2>1. CASE EnterMavUpload("WaitForTakeoff", initPath, TRUE)
    BY <1>3, <2>1 DEF PathValidateTick, Approved
  <2>2. CASE EnterJob("PathGen")
    BY <1>3, <2>2 DEF PathValidateTick, Approved
  <2> QED
    BY <1>3, <2>1, <2>2 DEF PathValidateTick, Approved
<1>4. CASE MavUploadTick
  <2>1. CASE EnterMavUpload(upload.next, upload.waypoints, upload.geofence)
    BY <1>4, <2>1 DEF MavUploadTick
  <2>2. CASE upload.next = "FlyWaypoints" /\ EnterFlyWaypoints
    BY <1>4, <2>2 DEF MavUploadTick
  <2>3. CASE upload.next = "FlySearch" /\ EnterFlySearch
    BY <1>4, <2>3 DEF MavUploadTick
  <2>4. CASE upload.next \in {"WaitForTakeoff", "AirdropApproach"} /\ Enter(upload.next)
    BY <1>4, <2>4 DEF MavUploadTick
  <2> QED
    BY <1>4, <2>1, <2>2, <2>3, <2>4 DEF MavUploadTick
<1>5. CASE WaitForTakeoffTick
  BY <1>5 DEF WaitForTakeoffTick
<1>6. CASE TakeoffTick
  BY <1>6 DEF TakeoffTick
<1>7. CASE ActiveTakeoffTick
  BY <1>7 DEF ActiveTakeoffTick
<1>8. CASE FlyWaypointsTick
  <2>1. CASE LapsLeft
    BY <1>8, <2>1 DEF FlyWaypointsTick, LapsLeft
  <2>2. CASE ~LapsLeft
    BY <1>8, <2>2 DEF FlyWaypointsTick, LapsLeft
  <2> QED
    BY <1>8, <2>1, <2>2 DEF FlyWaypointsTick, LapsLeft
<1>9. CASE FlySearchTick
  <2>1. CASE cvStatus = "Validated"
    BY <1>9, <2>1 DEF FlySearchTick, handlerVars
  <2>2. CASE cvStatus # "Validated" /\ started
    BY <1>9, <2>2 DEF FlySearchTick, handlerVars
  <2>3. CASE cvStatus # "Validated" /\ ~started
    BY <1>9, <2>3 DEF FlySearchTick, handlerVars
  <2> QED
    BY <1>9, <2>1, <2>2, <2>3 DEF FlySearchTick, handlerVars
<1>10. CASE CVLoiterTick
  BY <1>10 DEF CVLoiterTick
<1>11. CASE AirdropPrepTick
  <2>1. CASE AllDropped /\ Enter("ManualLanding")
    BY <1>11, <2>1, AllDroppedMeansAll DEF AirdropPrepTick
  <2>2. CASE EnterMavUpload("AirdropApproach", airdropPath', FALSE)
    BY <1>11, <2>2, NextAirdropIsNext DEF AirdropPrepTick
  <2> QED
    BY <1>11, <2>1, <2>2 DEF AirdropPrepTick
<1>12. CASE AirdropPrepLost
  BY <1>12 DEF AirdropPrepLost
<1>17. CASE FlyWaypointsLost
  BY <1>17 DEF FlyWaypointsLost
<1>13. CASE ManualLandingTick
  BY <1>13 DEF ManualLandingTick
<1>14. ASSUME NEW atFinal \in BOOLEAN, NEW sent \in BOOLEAN, NEW finished \in BOOLEAN,
             AirdropApproachTick(atFinal, sent, finished)
      PROVE  Prepared'
  <2>1. CASE finished /\ AllDropped
    BY <1>14, <2>1, AllDroppedMeansAll DEF AirdropApproachTick, handlerVars
  <2>2. CASE finished /\ ~AllDropped
    BY <1>14, <2>2 DEF AirdropApproachTick, handlerVars
  <2>3. CASE ~finished
    BY <1>14, <2>3 DEF AirdropApproachTick, handlerVars
  <2> QED
    BY <1>14, <2>1, <2>2, <2>3 DEF AirdropApproachTick, handlerVars
<1>15. CASE Job \/ ConnectMav \/ UNCHANGED vars
  BY <1>15, JobFrame DEF Job, PathGenJob, PathGenCrash, UploadJob, ArmAndHoverJob, UploadRefused,
               ConnectMav, vars
<1>16. ASSUME NEW h \in Handlers, Handle(h)
      PROVE  Prepared'
  BY <1>16, HandlerFrame, ApprovedPath DEF Handle, PostMission, SetStatus, RunPipeline, ReturnToLaunch, BeginMatched,
               TerminateCV, LookUpCV, PublishMatched, LookUpTick, WriteMatched
<1> QED
  BY <1>1, <1>2, <1>3, <1>4, <1>5, <1>6, <1>7, <1>8, <1>9, <1>10, <1>11, <1>12, <1>13, <1>14,
     <1>15, <1>16, <1>17, StepCases

\* A tick that goes away makes every pointer to it stale.
LEMMA PointersPreserved ==
    ASSUME IInv, [Next]_vars
    PROVE  PointersMatch'
<1> USE DEF IInv, TypeOK, PointersMatch, TickFor, Detached, TickOps, CVOps, handlerVars,
        tickVars, pathVars, dropVars, cvVars, MarkDropped, SetTick, Enter, EnterJob,
        EnterMavUpload, EnterFlyWaypoints, EnterFlySearch
<1>1. CASE MissionPrepTick
  BY <1>1 DEF MissionPrepTick
<1>2. CASE PathGenTick
  BY <1>2 DEF PathGenTick
<1>3. CASE PathValidateTick
  <2>1. CASE EnterMavUpload("WaitForTakeoff", initPath, TRUE)
    BY <1>3, <2>1 DEF PathValidateTick, Approved
  <2>2. CASE EnterJob("PathGen")
    BY <1>3, <2>2 DEF PathValidateTick, Approved
  <2> QED
    BY <1>3, <2>1, <2>2 DEF PathValidateTick, Approved
<1>4. CASE MavUploadTick
  <2>1. CASE EnterMavUpload(upload.next, upload.waypoints, upload.geofence)
    BY <1>4, <2>1 DEF MavUploadTick
  <2>2. CASE upload.next = "FlyWaypoints" /\ EnterFlyWaypoints
    BY <1>4, <2>2 DEF MavUploadTick
  <2>3. CASE upload.next = "FlySearch" /\ EnterFlySearch
    BY <1>4, <2>3 DEF MavUploadTick
  <2>4. CASE upload.next \in {"WaitForTakeoff", "AirdropApproach"} /\ Enter(upload.next)
    BY <1>4, <2>4 DEF MavUploadTick
  <2> QED
    BY <1>4, <2>1, <2>2, <2>3, <2>4 DEF MavUploadTick
<1>5. CASE WaitForTakeoffTick
  BY <1>5 DEF WaitForTakeoffTick
<1>6. CASE TakeoffTick
  BY <1>6 DEF TakeoffTick
<1>7. CASE ActiveTakeoffTick
  <2>1. CASE Enter("MissionPrep")
    BY <1>7, <2>1 DEF ActiveTakeoffTick
  <2>2. CASE EnterFlyWaypoints
    BY <1>7, <2>2 DEF ActiveTakeoffTick
  <2> QED
    BY <1>7, <2>1, <2>2 DEF ActiveTakeoffTick
<1>8. CASE FlyWaypointsTick
  <2>1. CASE LapsLeft
    BY <1>8, <2>1 DEF FlyWaypointsTick, LapsLeft
  <2>2. CASE ~LapsLeft
    BY <1>8, <2>2 DEF FlyWaypointsTick, LapsLeft
  <2> QED
    BY <1>8, <2>1, <2>2 DEF FlyWaypointsTick, LapsLeft
<1>9. CASE FlySearchTick
  <2>1. CASE cvStatus = "Validated"
    BY <1>9, <2>1 DEF FlySearchTick, handlerVars
  <2>2. CASE cvStatus # "Validated" /\ started
    BY <1>9, <2>2 DEF FlySearchTick, handlerVars
  <2>3. CASE cvStatus # "Validated" /\ ~started
    BY <1>9, <2>3 DEF FlySearchTick, handlerVars
  <2> QED
    BY <1>9, <2>1, <2>2, <2>3 DEF FlySearchTick, handlerVars
<1>10. CASE CVLoiterTick
  BY <1>10 DEF CVLoiterTick
<1>11. CASE AirdropPrepTick
  <2>1. CASE AllDropped /\ Enter("ManualLanding")
    BY <1>11, <2>1, AllDroppedMeansAll DEF AirdropPrepTick
  <2>2. CASE EnterMavUpload("AirdropApproach", airdropPath', FALSE)
    BY <1>11, <2>2, NextAirdropIsNext DEF AirdropPrepTick
  <2> QED
    BY <1>11, <2>1, <2>2 DEF AirdropPrepTick
<1>12. CASE AirdropPrepLost
  BY <1>12 DEF AirdropPrepLost
<1>17. CASE FlyWaypointsLost
  BY <1>17 DEF FlyWaypointsLost
<1>13. CASE ManualLandingTick
  BY <1>13 DEF ManualLandingTick
<1>14. ASSUME NEW atFinal \in BOOLEAN, NEW sent \in BOOLEAN, NEW finished \in BOOLEAN,
             AirdropApproachTick(atFinal, sent, finished)
      PROVE  PointersMatch'
  <2>1. CASE finished /\ AllDropped
    BY <1>14, <2>1, AllDroppedMeansAll DEF AirdropApproachTick, handlerVars
  <2>2. CASE finished /\ ~AllDropped
    BY <1>14, <2>2 DEF AirdropApproachTick, handlerVars
  <2>3. CASE ~finished
    BY <1>14, <2>3 DEF AirdropApproachTick, handlerVars
  <2> QED
    BY <1>14, <2>1, <2>2, <2>3 DEF AirdropApproachTick, handlerVars
<1>15. CASE Job \/ ConnectMav \/ UNCHANGED vars
  BY <1>15, JobFrame
<1>16. ASSUME NEW h \in Handlers, Handle(h)
      PROVE  PointersMatch'
  BY <1>16, HandlerFrame DEF Handle, PostMission, SetStatus, RunPipeline, ReturnToLaunch, BeginMatched,
               TerminateCV, LookUpCV, PublishMatched, LookUpTick, WriteMatched, Goto
<1> QED
  BY <1>1, <1>2, <1>3, <1>4, <1>5, <1>6, <1>7, <1>8, <1>9, <1>10, <1>11, <1>12, <1>13, <1>14,
     <1>15, <1>16, <1>17, StepCases

\* The approved path from the operator to the autopilot.
LEMMA ApprovalPreserved ==
    ASSUME IInv, [Next]_vars
    PROVE  Approval'
<1> USE DEF IInv, TypeOK, Approval, TakeoffFliesApprovedPath, PathOf, Outdated, OutdatePaths, UploadingFor, tickVars,
        pathVars, dropVars, cvVars, MarkDropped, SetTick, Enter, EnterJob, EnterMavUpload,
        EnterFlyWaypoints, EnterFlySearch
<1>1. CASE MissionPrepTick
  BY <1>1 DEF MissionPrepTick
<1>2. CASE PathGenTick
  BY <1>2 DEF PathGenTick
<1>3. CASE PathValidateTick
  <2>1. CASE EnterMavUpload("WaitForTakeoff", initPath, TRUE)
    BY <1>3, <2>1 DEF PathValidateTick, Approved
  <2>2. CASE EnterJob("PathGen")
    BY <1>3, <2>2 DEF PathValidateTick, Approved
  <2> QED
    BY <1>3, <2>1, <2>2 DEF PathValidateTick, Approved
<1>4. CASE MavUploadTick
  <2>1. CASE EnterMavUpload(upload.next, upload.waypoints, upload.geofence)
    BY <1>4, <2>1 DEF MavUploadTick
  <2>2. CASE upload.next = "FlyWaypoints" /\ EnterFlyWaypoints
    BY <1>4, <2>2 DEF MavUploadTick
  <2>3. CASE upload.next = "FlySearch" /\ EnterFlySearch
    BY <1>4, <2>3 DEF MavUploadTick
  <2>4. CASE upload.next \in {"WaitForTakeoff", "AirdropApproach"} /\ Enter(upload.next)
    BY <1>4, <2>4 DEF MavUploadTick
  <2> QED
    BY <1>4, <2>1, <2>2, <2>3, <2>4 DEF MavUploadTick
<1>5. CASE WaitForTakeoffTick
  BY <1>5 DEF WaitForTakeoffTick
<1>6. CASE TakeoffTick
  BY <1>6 DEF TakeoffTick
<1>7. CASE ActiveTakeoffTick
  <2>1. CASE Enter("MissionPrep")
    BY <1>7, <2>1 DEF ActiveTakeoffTick
  <2>2. CASE EnterFlyWaypoints
    BY <1>7, <2>2 DEF ActiveTakeoffTick
  <2> QED
    BY <1>7, <2>1, <2>2 DEF ActiveTakeoffTick
<1>8. CASE FlyWaypointsTick
  <2>1. CASE LapsLeft
    BY <1>8, <2>1 DEF FlyWaypointsTick, LapsLeft
  <2>2. CASE ~LapsLeft
    BY <1>8, <2>2 DEF FlyWaypointsTick, LapsLeft
  <2> QED
    BY <1>8, <2>1, <2>2 DEF FlyWaypointsTick, LapsLeft
<1>9. CASE FlySearchTick
  <2>1. CASE cvStatus = "Validated"
    BY <1>9, <2>1 DEF FlySearchTick, handlerVars
  <2>2. CASE cvStatus # "Validated" /\ started
    BY <1>9, <2>2 DEF FlySearchTick, handlerVars
  <2>3. CASE cvStatus # "Validated" /\ ~started
    BY <1>9, <2>3 DEF FlySearchTick, handlerVars
  <2> QED
    BY <1>9, <2>1, <2>2, <2>3 DEF FlySearchTick, handlerVars
<1>10. CASE CVLoiterTick
  BY <1>10 DEF CVLoiterTick
<1>11. CASE AirdropPrepTick
  <2>1. CASE AllDropped /\ Enter("ManualLanding")
    BY <1>11, <2>1, AllDroppedMeansAll DEF AirdropPrepTick
  <2>2. CASE EnterMavUpload("AirdropApproach", airdropPath', FALSE)
    BY <1>11, <2>2, NextAirdropIsNext DEF AirdropPrepTick
  <2> QED
    BY <1>11, <2>1, <2>2 DEF AirdropPrepTick
<1>12. CASE AirdropPrepLost
  BY <1>12 DEF AirdropPrepLost
<1>17. CASE FlyWaypointsLost
  BY <1>17 DEF FlyWaypointsLost
<1>13. CASE ManualLandingTick
  BY <1>13 DEF ManualLandingTick
<1>14. ASSUME NEW atFinal \in BOOLEAN, NEW sent \in BOOLEAN, NEW finished \in BOOLEAN,
             AirdropApproachTick(atFinal, sent, finished)
      PROVE  Approval'
  <2>1. CASE finished /\ AllDropped
    BY <1>14, <2>1, AllDroppedMeansAll DEF AirdropApproachTick, handlerVars
  <2>2. CASE finished /\ ~AllDropped
    BY <1>14, <2>2 DEF AirdropApproachTick, handlerVars
  <2>3. CASE ~finished
    BY <1>14, <2>3 DEF AirdropApproachTick, handlerVars
  <2> QED
    BY <1>14, <2>1, <2>2, <2>3 DEF AirdropApproachTick, handlerVars
<1>15. CASE Job \/ ConnectMav \/ UNCHANGED vars
  BY <1>15, JobFrame DEF Job, PathGenJob, PathGenCrash, UploadJob, ArmAndHoverJob, Prepared,
               UploadRefused, SendsWaypoints, UploadNeverFails, ConnectMav, vars
<1>16. ASSUME NEW h \in Handlers, Handle(h)
      PROVE  Approval'
  BY <1>16, HandlerFrame, ApprovedPath DEF Handle, PostMission, SetStatus, RunPipeline, ReturnToLaunch, BeginMatched,
               TerminateCV, LookUpCV, PublishMatched, LookUpTick, WriteMatched, PointersMatch,
               TickFor, StatusFor, TickOps, CVOps, jobVars
<1> QED
  BY <1>1, <1>2, <1>3, <1>4, <1>5, <1>6, <1>7, <1>8, <1>9, <1>10, <1>11, <1>12, <1>13, <1>14,
     <1>15, <1>16, <1>17, StepCases

\* The airdrops: each approach is planned, uploaded and flown for the next one.
LEMMA DropOrderPreserved ==
    ASSUME IInv, [Next]_vars
    PROVE  DropOrder'
<1> USE DEF IInv, TypeOK, DropOrder, AirdropOrder, Airdropping, UploadingFor, Airdrops,
        tickVars, pathVars, dropVars, cvVars, MarkDropped, SetTick, Enter, EnterJob,
        EnterMavUpload, EnterFlyWaypoints, EnterFlySearch
<1>1. CASE MissionPrepTick
  BY <1>1 DEF MissionPrepTick
<1>2. CASE PathGenTick
  BY <1>2 DEF PathGenTick
<1>3. CASE PathValidateTick
  <2>1. CASE EnterMavUpload("WaitForTakeoff", initPath, TRUE)
    BY <1>3, <2>1 DEF PathValidateTick, Approved
  <2>2. CASE EnterJob("PathGen")
    BY <1>3, <2>2 DEF PathValidateTick, Approved
  <2> QED
    BY <1>3, <2>1, <2>2 DEF PathValidateTick, Approved
<1>4. CASE MavUploadTick
  <2>1. CASE EnterMavUpload(upload.next, upload.waypoints, upload.geofence)
    BY <1>4, <2>1 DEF MavUploadTick
  <2>2. CASE upload.next = "FlyWaypoints" /\ EnterFlyWaypoints
    BY <1>4, <2>2 DEF MavUploadTick
  <2>3. CASE upload.next = "FlySearch" /\ EnterFlySearch
    BY <1>4, <2>3 DEF MavUploadTick
  <2>4. CASE upload.next \in {"WaitForTakeoff", "AirdropApproach"} /\ Enter(upload.next)
    BY <1>4, <2>4 DEF MavUploadTick
  <2> QED
    BY <1>4, <2>1, <2>2, <2>3, <2>4 DEF MavUploadTick
<1>5. CASE WaitForTakeoffTick
  BY <1>5 DEF WaitForTakeoffTick
<1>6. CASE TakeoffTick
  BY <1>6 DEF TakeoffTick
<1>7. CASE ActiveTakeoffTick
  <2>1. CASE Enter("MissionPrep")
    BY <1>7, <2>1 DEF ActiveTakeoffTick
  <2>2. CASE EnterFlyWaypoints
    BY <1>7, <2>2 DEF ActiveTakeoffTick
  <2> QED
    BY <1>7, <2>1, <2>2 DEF ActiveTakeoffTick
<1>8. CASE FlyWaypointsTick
  <2>1. CASE LapsLeft
    BY <1>8, <2>1 DEF FlyWaypointsTick, LapsLeft
  <2>2. CASE ~LapsLeft
    BY <1>8, <2>2 DEF FlyWaypointsTick, LapsLeft
  <2> QED
    BY <1>8, <2>1, <2>2 DEF FlyWaypointsTick, LapsLeft
<1>9. CASE FlySearchTick
  <2>1. CASE cvStatus = "Validated"
    BY <1>9, <2>1 DEF FlySearchTick, handlerVars
  <2>2. CASE cvStatus # "Validated" /\ started
    BY <1>9, <2>2 DEF FlySearchTick, handlerVars
  <2>3. CASE cvStatus # "Validated" /\ ~started
    BY <1>9, <2>3 DEF FlySearchTick, handlerVars
  <2> QED
    BY <1>9, <2>1, <2>2, <2>3 DEF FlySearchTick, handlerVars
<1>10. CASE CVLoiterTick
  BY <1>10 DEF CVLoiterTick
<1>11. CASE AirdropPrepTick
  <2>1. CASE AllDropped /\ Enter("ManualLanding") /\ UNCHANGED <<dropped, nextDrop, airdropPath>>
    BY <1>11, <2>1 DEF AirdropPrepTick
  <2>2. CASE ~AllDropped /\ EnterMavUpload("AirdropApproach", airdropPath', FALSE)
    <3>1. NextAirdrop = nextDrop + 1 /\ NextAirdrop \in 0..NumAirdrops
      BY <1>11, <2>2, NextAirdropIsNext DEF AirdropPrepTick
    <3>2. /\ airdropPath' = [kind |-> "approach", airdrop |-> NextAirdrop, attempt |-> "present"]
          /\ nextDrop' = NextAirdrop /\ dropped' = dropped \cup {NextAirdrop}
      <4>1. PICK kind \in {"approach", "empty"} :
               airdropPath' = [PathOf(kind) EXCEPT !.airdrop = NextAirdrop]
        BY <1>11, <2>2 DEF AirdropPrepTick
      <4>2. airdropPath' = [kind |-> kind, airdrop |-> NextAirdrop, attempt |-> "present"]
        BY <3>1, <4>1, NewPath DEF PathKinds
      <4>3. /\ airdropPath'.kind # "empty"
            /\ nextDrop' = NextAirdrop /\ dropped' = dropped \cup {NextAirdrop}
        BY <1>11, <2>2 DEF AirdropPrepTick, ForwardPathThrows
      <4>4. airdropPath'.kind = kind
        BY <4>2
      <4>5. kind = "approach"
        BY <4>1, <4>3, <4>4
      <4> QED
        BY <4>2, <4>3, <4>5
    <3>3. dropped' = 1..nextDrop'
      BY <1>11, <3>2, <3>1, NumAirdropsAssumption DEF AirdropPrepTick
    <3> QED
      BY <1>11, <2>2, <3>2, <3>3 DEF AirdropPrepTick
  <2> QED
    BY <1>11, <2>1, <2>2 DEF AirdropPrepTick
<1>12. CASE AirdropPrepLost
  BY <1>12 DEF AirdropPrepLost
<1>17. CASE FlyWaypointsLost
  BY <1>17 DEF FlyWaypointsLost
<1>13. CASE ManualLandingTick
  BY <1>13 DEF ManualLandingTick
<1>14. ASSUME NEW atFinal \in BOOLEAN, NEW sent \in BOOLEAN, NEW finished \in BOOLEAN,
             AirdropApproachTick(atFinal, sent, finished)
      PROVE  DropOrder'
  <2>1. CASE finished /\ AllDropped
    BY <1>14, <2>1, AllDroppedMeansAll DEF AirdropApproachTick, handlerVars
  <2>2. CASE finished /\ ~AllDropped
    BY <1>14, <2>2 DEF AirdropApproachTick, handlerVars
  <2>3. CASE ~finished
    BY <1>14, <2>3 DEF AirdropApproachTick, handlerVars
  <2> QED
    BY <1>14, <2>1, <2>2, <2>3 DEF AirdropApproachTick, handlerVars
<1>15. CASE Job \/ ConnectMav \/ UNCHANGED vars
  BY <1>15, JobFrame DEF Job, PathGenJob, PathGenCrash, UploadJob, ArmAndHoverJob, Prepared,
               UploadRefused, SendsWaypoints, UploadNeverFails, ConnectMav, vars
<1>16. ASSUME NEW h \in Handlers, Handle(h)
      PROVE  DropOrder'
  BY <1>16, HandlerFrame
<1> QED
  BY <1>1, <1>2, <1>3, <1>4, <1>5, <1>6, <1>7, <1>8, <1>9, <1>10, <1>11, <1>12, <1>13, <1>14,
     <1>15, <1>16, <1>17, StepCases

\* Only a handler on its way to publish the matches stops the aggregator.
LEMMA PicturesPreserved ==
    ASSUME IInv, [Next]_vars
    PROVE  Pictures'
<1> USE DEF IInv, TypeOK, Pictures, Airdropping, UploadingFor, TickOps, CVOps, handlerVars,
        tickVars, pathVars, dropVars, cvVars, MarkDropped, SetTick, Enter, EnterJob,
        EnterMavUpload, EnterFlyWaypoints, EnterFlySearch
<1>1. CASE MissionPrepTick
  BY <1>1 DEF MissionPrepTick, ReplaceCV
<1>2. CASE PathGenTick
  BY <1>2 DEF PathGenTick
<1>3. CASE PathValidateTick
  <2>1. CASE EnterMavUpload("WaitForTakeoff", initPath, TRUE)
    BY <1>3, <2>1 DEF PathValidateTick, Approved
  <2>2. CASE EnterJob("PathGen")
    BY <1>3, <2>2 DEF PathValidateTick, Approved
  <2> QED
    BY <1>3, <2>1, <2>2 DEF PathValidateTick, Approved
<1>4. CASE MavUploadTick
  <2>1. CASE EnterMavUpload(upload.next, upload.waypoints, upload.geofence)
    BY <1>4, <2>1 DEF MavUploadTick
  <2>2. CASE upload.next = "FlyWaypoints" /\ EnterFlyWaypoints
    BY <1>4, <2>2 DEF MavUploadTick
  <2>3. CASE upload.next = "FlySearch" /\ EnterFlySearch
    BY <1>4, <2>3 DEF MavUploadTick
  <2>4. CASE upload.next \in {"WaitForTakeoff", "AirdropApproach"} /\ Enter(upload.next)
    BY <1>4, <2>4 DEF MavUploadTick
  <2> QED
    BY <1>4, <2>1, <2>2, <2>3, <2>4 DEF MavUploadTick
<1>5. CASE WaitForTakeoffTick
  BY <1>5 DEF WaitForTakeoffTick
<1>6. CASE TakeoffTick
  BY <1>6 DEF TakeoffTick
<1>7. CASE ActiveTakeoffTick
  <2>1. CASE Enter("MissionPrep")
    BY <1>7, <2>1 DEF ActiveTakeoffTick
  <2>2. CASE EnterFlyWaypoints
    BY <1>7, <2>2 DEF ActiveTakeoffTick
  <2> QED
    BY <1>7, <2>1, <2>2 DEF ActiveTakeoffTick
<1>8. CASE FlyWaypointsTick
  <2>1. CASE LapsLeft
    BY <1>8, <2>1 DEF FlyWaypointsTick, LapsLeft
  <2>2. CASE ~LapsLeft
    BY <1>8, <2>2 DEF FlyWaypointsTick, LapsLeft
  <2> QED
    BY <1>8, <2>1, <2>2 DEF FlyWaypointsTick, LapsLeft
<1>9. CASE FlySearchTick
  <2>1. CASE cvStatus = "Validated"
    BY <1>9, <2>1 DEF FlySearchTick, handlerVars
  <2>2. CASE cvStatus # "Validated" /\ started
    BY <1>9, <2>2 DEF FlySearchTick, handlerVars
  <2>3. CASE cvStatus # "Validated" /\ ~started
    BY <1>9, <2>3 DEF FlySearchTick, handlerVars
  <2> QED
    BY <1>9, <2>1, <2>2, <2>3 DEF FlySearchTick, handlerVars
<1>10. CASE CVLoiterTick
  BY <1>10 DEF CVLoiterTick
<1>11. CASE AirdropPrepTick
  <2>1. CASE AllDropped /\ Enter("ManualLanding")
    BY <1>11, <2>1, AllDroppedMeansAll DEF AirdropPrepTick
  <2>2. CASE EnterMavUpload("AirdropApproach", airdropPath', FALSE)
    BY <1>11, <2>2, NextAirdropIsNext DEF AirdropPrepTick
  <2> QED
    BY <1>11, <2>1, <2>2 DEF AirdropPrepTick
<1>12. CASE AirdropPrepLost
  BY <1>12 DEF AirdropPrepLost
<1>17. CASE FlyWaypointsLost
  BY <1>17 DEF FlyWaypointsLost
<1>13. CASE ManualLandingTick
  BY <1>13 DEF ManualLandingTick
<1>14. ASSUME NEW atFinal \in BOOLEAN, NEW sent \in BOOLEAN, NEW finished \in BOOLEAN,
             AirdropApproachTick(atFinal, sent, finished)
      PROVE  Pictures'
  <2>1. CASE finished /\ AllDropped
    BY <1>14, <2>1, AllDroppedMeansAll DEF AirdropApproachTick, handlerVars
  <2>2. CASE finished /\ ~AllDropped
    BY <1>14, <2>2 DEF AirdropApproachTick, handlerVars
  <2>3. CASE ~finished
    BY <1>14, <2>3 DEF AirdropApproachTick, handlerVars
  <2> QED
    BY <1>14, <2>1, <2>2, <2>3 DEF AirdropApproachTick, handlerVars
<1>15. CASE Job \/ ConnectMav \/ UNCHANGED vars
  BY <1>15, JobFrame
<1>16. ASSUME NEW h \in Handlers, Handle(h)
      PROVE  Pictures'
  BY <1>16, HandlerFrame DEF Handle, PostMission, SetStatus, RunPipeline, ReturnToLaunch, BeginMatched,
               TerminateCV, LookUpCV, PublishMatched, LookUpTick, WriteMatched, Goto,
               ReplaceCV
<1> QED
  BY <1>1, <1>2, <1>3, <1>4, <1>5, <1>6, <1>7, <1>8, <1>9, <1>10, <1>11, <1>12, <1>13, <1>14,
     <1>15, <1>16, <1>17, StepCases

\* A new tick leaves the handlers where they are and makes what they look at stale.
LEMMA DetachedIsTyped ==
    ASSUME TypedHandlers, ref' = Detached(TickOps), pc' = pc
    PROVE  TypedHandlers'
BY DEF TypedHandlers, Detached

\* Types: a successor tick is typed, and laps do not go below zero.
LEMMA TypePreserved ==
    ASSUME IInv, [Next]_vars
    PROVE  TypeOK'
<1> USE LapsAssumption, NumAirdropsAssumption DEF IInv, TypeOK, TypedProcess, TypedTick,
        TypedPaths, TypedTargets, TypedHandlers, TickIDs, Paths, PathKinds, PathOf, Uploads,
        Detached, TickOps, CVOps, Airdrops, handlerVars, jobVars, tickVars, pathVars, dropVars,
        cvVars, MarkDropped, SetTick, Enter, EnterJob, EnterMavUpload, EnterFlyWaypoints,
        EnterFlySearch
<1>1. CASE MissionPrepTick
  <2>1. TypedProcess'
    BY <1>1 DEF MissionPrepTick, ReplaceCV, ResetMappingDone
  <2>2. TypedTick'
    BY <1>1 DEF MissionPrepTick, ReplaceCV, ResetMappingDone
  <2>3. TypedPaths'
    BY <1>1, OutdatedPath DEF MissionPrepTick, OutdatePaths, TypedPaths
  <2>4. TypedTargets'
    BY <1>1 DEF MissionPrepTick, ReplaceCV, ResetMappingDone
  <2>5. TypedHandlers'
    BY <1>1 DEF MissionPrepTick, ReplaceCV, ResetMappingDone
  <2> QED
    BY <2>1, <2>2, <2>3, <2>4, <2>5, TypeParts
<1>2. CASE PathGenTick
  BY <1>2 DEF PathGenTick
<1>3. CASE PathValidateTick
  <2>1. CASE EnterMavUpload("WaitForTakeoff", initPath, TRUE)
    BY <1>3, <2>1 DEF PathValidateTick, Approved
  <2>2. CASE EnterJob("PathGen") /\ OutdatePaths
    <3>1. TypedPaths'
      BY <2>2, OutdatedPath DEF OutdatePaths
    <3>2. TypedProcess' /\ TypedTick' /\ TypedTargets' /\ TypedHandlers'
      BY <1>3, <2>2 DEF PathValidateTick
    <3> QED
      BY <3>1, <3>2, TypeParts
  <2> QED
    BY <1>3, <2>1, <2>2 DEF PathValidateTick, Approved
<1>4. CASE MavUploadTick
  <2>1. CASE EnterMavUpload(upload.next, upload.waypoints, upload.geofence)
    BY <1>4, <2>1 DEF MavUploadTick, UploadingFor, LapCount
  <2>2. CASE upload.next = "FlyWaypoints" /\ EnterFlyWaypoints
    <3>1. laps' = laps - 1 /\ laps' \in LastLap..Laps
      BY <1>4, <2>2 DEF MavUploadTick, UploadingFor, LapCount, LastLap
    <3> QED
      BY <1>4, <2>2, <3>1 DEF MavUploadTick
  <2>3. CASE upload.next = "FlySearch" /\ EnterFlySearch
    BY <1>4, <2>3 DEF MavUploadTick, UploadingFor, LapCount
  <2>4. CASE upload.next \in {"WaitForTakeoff", "AirdropApproach"} /\ Enter(upload.next)
    BY <1>4, <2>4 DEF MavUploadTick, UploadingFor, LapCount
  <2> QED
    BY <1>4, <2>1, <2>2, <2>3, <2>4 DEF MavUploadTick, UploadingFor, LapCount
<1>5. CASE WaitForTakeoffTick
  <2>1. CASE Enter("Takeoff")
    BY <1>5, <2>1 DEF WaitForTakeoffTick
  <2>2. CASE EnterJob("ActiveTakeoff")
    BY <1>5, <2>2 DEF WaitForTakeoffTick
  <2> QED
    BY <1>5, <2>1, <2>2 DEF WaitForTakeoffTick
<1>6. CASE TakeoffTick
  <2>0. laps' = laps - 1 /\ laps' \in LastLap..Laps
    BY <1>6 DEF TakeoffTick, LapCount, LapsAccounted, LastLap
  <2>1. TypedProcess'
    BY <1>6 DEF TakeoffTick
  <2>2. TypedTick'
    BY <1>6, <2>0 DEF TakeoffTick
  <2>3. TypedPaths'
    BY <1>6 DEF TakeoffTick, LapCount, LapsAccounted
  <2>4. TypedTargets'
    BY <1>6 DEF TakeoffTick, LapCount, LapsAccounted
  <2>5. TypedHandlers'
    BY <1>6 DEF TakeoffTick, LapCount, LapsAccounted
  <2> QED
    BY <2>1, <2>2, <2>3, <2>4, <2>5, TypeParts
<1>7. CASE ActiveTakeoffTick
  <2>1. CASE Enter("MissionPrep")
    BY <1>7, <2>1 DEF ActiveTakeoffTick, LapCount, LapsAccounted
  <2>2. CASE EnterFlyWaypoints
    <3>1. laps' = laps - 1 /\ laps' \in LastLap..Laps
      BY <1>7, <2>2 DEF ActiveTakeoffTick, LapCount, LapsAccounted, LastLap
    <3> QED
      BY <1>7, <2>2, <3>1 DEF ActiveTakeoffTick
  <2> QED
    BY <1>7, <2>1, <2>2 DEF ActiveTakeoffTick, LapCount, LapsAccounted
<1>8. CASE FlyWaypointsTick
  <2>0. initPath' \in Paths /\ upload' \in Uploads
    <3>1. CASE LapsLeft
      <4>1. initPath' = PathOf("replanned")
        BY <1>8, <3>1 DEF FlyWaypointsTick
      <4>2. initPath' \in Paths
        BY <4>1, NewPath
      <4>3. upload' = [next |-> "FlyWaypoints", waypoints |-> initPath', geofence |-> FALSE]
        BY <1>8, <3>1 DEF FlyWaypointsTick
      <4> QED
        BY <4>2, <4>3
    <3>2. CASE ~LapsLeft
      <4>1. /\ upload' = [next |-> "FlySearch", waypoints |-> coveragePath, geofence |-> FALSE]
            /\ initPath' = initPath
        BY <1>8, <3>2 DEF FlyWaypointsTick
      <4> QED
        BY <4>1
    <3> QED
      BY <3>1, <3>2
  <2>1. TypedProcess'
    BY <1>8, <2>0 DEF FlyWaypointsTick
  <2>2. TypedTick'
    BY <1>8, <2>0 DEF FlyWaypointsTick
  <2>3. TypedPaths'
    BY <1>8, <2>0 DEF FlyWaypointsTick
  <2>4. TypedTargets'
    BY <1>8, <2>0 DEF FlyWaypointsTick
  <2>5. TypedHandlers'
    <3>1. ref' = Detached(TickOps) /\ pc' = pc
      BY <1>8 DEF FlyWaypointsTick
    <3>2. TypedHandlers
      OBVIOUS
    <3> QED
      BY <3>1, <3>2, DetachedIsTyped
  <2> QED
    BY <2>1, <2>2, <2>3, <2>4, <2>5, TypeParts
<1>9. CASE FlySearchTick
  <2>1. CASE cvStatus = "Validated"
    BY <1>9, <2>1 DEF FlySearchTick, handlerVars
  <2>2. CASE cvStatus # "Validated" /\ started
    BY <1>9, <2>2 DEF FlySearchTick, handlerVars
  <2>3. CASE cvStatus # "Validated" /\ ~started
    BY <1>9, <2>3 DEF FlySearchTick, handlerVars
  <2> QED
    BY <1>9, <2>1, <2>2, <2>3 DEF FlySearchTick, handlerVars
<1>10. CASE CVLoiterTick
  BY <1>10 DEF CVLoiterTick
<1>11. CASE AirdropPrepTick
  <2>0. /\ airdropPath' \in Paths /\ upload' \in Uploads
        /\ dropped' \subseteq Airdrops /\ nextDrop' \in 0..NumAirdrops
    <3>1. CASE AllDropped /\ Enter("ManualLanding") /\ UNCHANGED <<dropped, nextDrop, airdropPath>>
      BY <1>11, <3>1 DEF AirdropPrepTick
    <3>2. CASE ~AllDropped /\ EnterMavUpload("AirdropApproach", airdropPath', FALSE)
      <4>1. NextAirdrop \in Airdrops
        BY <1>11, <3>2, NextAirdropIsNext DEF AirdropPrepTick, DropOrder
      <4>2. /\ \E kind \in {"approach", "empty"} :
                   airdropPath' = [PathOf(kind) EXCEPT !.airdrop = NextAirdrop]
            /\ dropped' = dropped \cup {NextAirdrop} /\ nextDrop' = NextAirdrop
            /\ upload' = [next |-> "AirdropApproach", waypoints |-> airdropPath', geofence |-> FALSE]
        BY <1>11, <3>2 DEF AirdropPrepTick
      <4>3. airdropPath' \in Paths
        BY <4>1, <4>2, NewPath
      <4> QED
        BY <4>1, <4>2, <4>3
    <3> QED
      BY <1>11, <3>1, <3>2 DEF AirdropPrepTick
  <2>1. TypedProcess'
    BY <1>11, <2>0 DEF AirdropPrepTick
  <2>2. TypedTick'
    BY <1>11, <2>0 DEF AirdropPrepTick
  <2>3. TypedPaths'
    BY <1>11, <2>0 DEF AirdropPrepTick
  <2>4. TypedTargets'
    BY <1>11, <2>0 DEF AirdropPrepTick
  <2>5. TypedHandlers'
    <3>1. ref' = Detached(TickOps) /\ pc' = pc
      BY <1>11 DEF AirdropPrepTick
    <3>2. TypedHandlers
      OBVIOUS
    <3> QED
      BY <3>1, <3>2, DetachedIsTyped
  <2> QED
    BY <2>1, <2>2, <2>3, <2>4, <2>5, TypeParts
<1>12. CASE AirdropPrepLost
  <2>0. NextAirdrop \in Airdrops
    BY <1>12, NextAirdropIsNext DEF AirdropPrepLost, DropOrder
  <2>1. TypedProcess'
    BY <1>12, <2>0 DEF AirdropPrepLost
  <2>2. TypedTick'
    BY <1>12, <2>0 DEF AirdropPrepLost
  <2>3. TypedPaths'
    BY <1>12, <2>0 DEF AirdropPrepLost
  <2>4. TypedTargets'
    BY <1>12, <2>0 DEF AirdropPrepLost
  <2>5. TypedHandlers'
    BY <1>12, <2>0 DEF AirdropPrepLost
  <2> QED
    BY <2>1, <2>2, <2>3, <2>4, <2>5, TypeParts
<1>17. CASE FlyWaypointsLost
  <2>1. TypedProcess'
    BY <1>17 DEF FlyWaypointsLost
  <2>2. TypedTick'
    BY <1>17 DEF FlyWaypointsLost
  <2>3. TypedPaths'
    BY <1>17 DEF FlyWaypointsLost
  <2>4. TypedTargets'
    BY <1>17 DEF FlyWaypointsLost
  <2>5. TypedHandlers'
    BY <1>17 DEF FlyWaypointsLost
  <2> QED
    BY <2>1, <2>2, <2>3, <2>4, <2>5, TypeParts
<1>13. CASE ManualLandingTick
  BY <1>13 DEF ManualLandingTick
<1>14. ASSUME NEW atFinal \in BOOLEAN, NEW sent \in BOOLEAN, NEW finished \in BOOLEAN,
             AirdropApproachTick(atFinal, sent, finished)
      PROVE  TypeOK'
  <2>1. CASE finished /\ AllDropped
    BY <1>14, <2>1, AllDroppedMeansAll DEF AirdropApproachTick, handlerVars
  <2>2. CASE finished /\ ~AllDropped
    BY <1>14, <2>2 DEF AirdropApproachTick, handlerVars
  <2>3. CASE ~finished
    BY <1>14, <2>3 DEF AirdropApproachTick, handlerVars
  <2> QED
    BY <1>14, <2>1, <2>2, <2>3 DEF AirdropApproachTick, handlerVars
<1>15. CASE Job \/ ConnectMav \/ UNCHANGED vars
  <2>1. TypedProcess'
    BY <1>15 DEF Job, PathGenJob, PathGenCrash, UploadJob, ArmAndHoverJob, ConnectMav, vars
  <2>2. TypedTick'
    BY <1>15 DEF Job, PathGenJob, PathGenCrash, UploadJob, ArmAndHoverJob, ConnectMav, vars
  <2>3. TypedPaths'
    BY <1>15 DEF Job, PathGenJob, PathGenCrash, UploadJob, ArmAndHoverJob, ConnectMav, vars
  <2>4. TypedTargets'
    BY <1>15 DEF Job, PathGenJob, PathGenCrash, UploadJob, ArmAndHoverJob, ConnectMav, vars
  <2>5. TypedHandlers'
    BY <1>15 DEF Job, PathGenJob, PathGenCrash, UploadJob, ArmAndHoverJob, ConnectMav, vars
  <2> QED
    BY <2>1, <2>2, <2>3, <2>4, <2>5, TypeParts
<1>16. ASSUME NEW h \in Handlers, Handle(h)
      PROVE  TypeOK'
  <2>1. TypedProcess'
    BY <1>16, PostingsAssumption DEF Handle, PostMission, SetStatus, RunPipeline, ReturnToLaunch, BeginMatched,
               TerminateCV, LookUpCV, PublishMatched, LookUpTick, WriteMatched,
           ReplaceCV, Goto, StatusFor
  <2>2. TypedTick'
    BY <1>16, PostingsAssumption DEF Handle, PostMission, SetStatus, RunPipeline, ReturnToLaunch, BeginMatched,
               TerminateCV, LookUpCV, PublishMatched, LookUpTick, WriteMatched,
           ReplaceCV, Goto, StatusFor
  <2>3. TypedPaths'
    BY <1>16, PostingsAssumption DEF Handle, PostMission, SetStatus, RunPipeline, ReturnToLaunch, BeginMatched,
               TerminateCV, LookUpCV, PublishMatched, LookUpTick, WriteMatched,
           ReplaceCV, Goto, StatusFor
  <2>4. TypedTargets'
    BY <1>16, PostingsAssumption DEF Handle, PostMission, SetStatus, RunPipeline, ReturnToLaunch, BeginMatched,
               TerminateCV, LookUpCV, PublishMatched, LookUpTick, WriteMatched,
           ReplaceCV, Goto, StatusFor
  <2>5. TypedHandlers'
    BY <1>16, PostingsAssumption DEF Handle, PostMission, SetStatus, RunPipeline, ReturnToLaunch, BeginMatched,
               TerminateCV, LookUpCV, PublishMatched, LookUpTick, WriteMatched,
           ReplaceCV, Goto, StatusFor
  <2> QED
    BY <2>1, <2>2, <2>3, <2>4, <2>5, TypeParts
<1> QED
  BY <1>1, <1>2, <1>3, <1>4, <1>5, <1>6, <1>7, <1>8, <1>9, <1>10, <1>11, <1>12, <1>13, <1>14,
     <1>15, <1>16, <1>17, StepCases

-------------------------------------------------------------------------------
(* The inductive invariant, and what follows from it. *)

LEMMA InitInv == Init => IInv
<1> SUFFICES ASSUME Init PROVE IInv
  OBVIOUS
<1> USE LapsAssumption, NumAirdropsAssumption DEF Init, PathOf, UploadingFor
<1>1. TypeOK
  <2>1. TypedProcess /\ TypedHandlers
    BY DEF TypedProcess, TypedHandlers
  <2>2. TypedTargets
    <3>1. nextDrop \in 0..NumAirdrops
      OBVIOUS
    <3> QED
      BY <3>1 DEF TypedTargets
  <2>3. PathOf("none") \in Paths
    BY NewPath DEF PathKinds
  <2>4. TypedPaths
    BY <2>3 DEF TypedPaths
  <2>5. TypedTick
    <3>1. upload \in Uploads
      BY <2>3 DEF Uploads
    <3>2. tick \in TickIDs
      BY DEF TickIDs
    <3>3. laps \in LastLap..Laps
      BY DEF LastLap
    <3> QED
      BY <3>1, <3>2, <3>3 DEF TypedTick
  <2> QED
    BY <2>1, <2>2, <2>4, <2>5, TypeParts
<1>2. Prepared /\ PointersMatch /\ Approval
  BY DEF Prepared, FlightTicksHaveMav, UploadNeverFails, PointersMatch, TickOps, Approval,
         TakeoffFliesApprovedPath, AirTicks
<1>3. LapCount /\ Pictures
  BY DEF LapCount, LapsAccounted, AirTicks, Pictures
<1>4. DropOrder /\ MappingWaitsForLanding
  BY DEF DropOrder, AirdropOrder, Airdropping, MappingWaitsForLanding
<1> QED
  BY <1>1, <1>2, <1>3, <1>4 DEF IInv

\* IInv holds in every reachable state: each part is kept by every step, given the others.
THEOREM Inductive == Spec => []IInv
<1>1. IInv /\ [Next]_vars => IInv'
  BY TypePreserved, PreparedPreserved, PointersPreserved, ApprovalPreserved,
     LapCountPreserved, DropOrderPreserved, PicturesPreserved, MappingPreserved DEF IInv
<1> QED
  BY <1>1, InitInv, PTL DEF Spec

\* The state of the mission, of its ticks and of the handlers keeps its types; in
\* particular laps_remaining never goes below zero, and not below -1 if 0 is configured.
THEOREM TypeCorrect == Spec => []TypeOK
<1>1. IInv => TypeOK
  BY DEF IInv, TypeOK
<1> QED
  BY <1>1, Inductive, PTL

\* From the first upload on the ticks call getMav() without a test, and it is there:
\* nobody gets past PathGenTick and PathValidateTick before it is, and it stays.
THEOREM FlightHasMav == Spec => []FlightTicksHaveMav
<1>1. IInv => FlightTicksHaveMav
  BY DEF IInv, Prepared
<1> QED
  BY <1>1, Inductive, PTL

\* The path and the mission a geofence needs are there before any upload, so
\* MavUploadTick never has to repeat one, whatever the operators post.
THEOREM UploadsSucceed == Spec => []UploadNeverFails
<1>1. IInv => UploadNeverFails
  BY DEF IInv, Prepared
<1> QED
  BY <1>1, Inductive, PTL

\* The plane takes off with the path the operator approved in the present attempt, also
\* after rejections and failed takeoffs that leave earlier paths behind, approved ones on
\* the autopilot included, and with handlers that hold a tick that is gone.
THEOREM TakeoffIsApproved == Spec => []TakeoffFliesApprovedPath
<1>1. IInv => TakeoffFliesApprovedPath
  BY DEF IInv, Approval
<1> QED
  BY <1>1, Inductive, PTL

\* The laps are counted down from config.pathing.laps, one in each FlyWaypointsTick, to
\* zero for any number of laps above zero; for 0 one is flown and the counter ends at -1.
THEOREM LapsFlown == Spec => []LapsAccounted
<1>1. IInv => LapsAccounted
  BY DEF IInv, LapCount
<1> QED
  BY <1>1, Inductive, PTL

\* Airdrops are taken in order, none twice, and while an approach is flown the autopilot
\* holds the path planned for the airdrop to be released, for any NUM_AIRDROPS, also where
\* planning an approach ends in a path without a point or does not end.
THEOREM AirdropsInOrder == Spec => []AirdropOrder
<1>1. IInv => AirdropOrder
  BY DEF IInv, DropOrder
<1> QED
  BY <1>1, Inductive, PTL

\* The aggregator of a search takes pictures unless matches are posted, for any number of
\* handlers at any of their steps.
THEOREM SearchTakesPictures == Spec => []SearchPicturesAreTaken
<1>1. IInv => SearchPicturesAreTaken
  BY DEF IInv, Pictures, SearchPicturesAreTaken, Airdropping, UploadingFor
<1> QED
  BY <1>1, Inductive, PTL

\* Landing waits for the last airdrop and the stitched map for landing, whatever value
\* mappingIsDone started with.
THEOREM MappingIsLast == Spec => []MappingWaitsForLanding
<1>1. IInv => MappingWaitsForLanding
  BY DEF IInv, MappingWaitsForLanding
<1> QED
  BY <1>1, Inductive, PTL

-------------------------------------------------------------------------------
(* The refinement. *)

\* Every step of the machine is a step of the plan, or leaves the plan where it is.
LEMMA PlanStep ==
    ASSUME IInv, [Next]_vars
    PROVE  [Plan!Next]_(Plan!vars)
<1> USE DEF IInv, Phase, Plan!Next, Plan!vars, Plan!Move, Plan!Approve, Plan!Abort,
        Plan!Depart, Plan!NextLap, Plan!BeginSearch, Plan!BeginDelivery, Plan!Deliver,
        Plan!Land, UploadingFor, LapCount, LapsAccounted, AirTicks, DropOrder, Airdropping,
        tickVars, pathVars, dropVars, cvVars, MarkDropped, SetTick, Enter, EnterJob,
        EnterMavUpload, EnterFlyWaypoints, EnterFlySearch
<1>1. CASE MissionPrepTick
  BY <1>1 DEF MissionPrepTick
<1>2. CASE PathGenTick
  BY <1>2 DEF PathGenTick
<1>3. CASE PathValidateTick
  <2>1. CASE EnterMavUpload("WaitForTakeoff", initPath, TRUE)
    BY <1>3, <2>1 DEF PathValidateTick, Approved
  <2>2. CASE EnterJob("PathGen")
    BY <1>3, <2>2 DEF PathValidateTick, Approved
  <2> QED
    BY <1>3, <2>1, <2>2 DEF PathValidateTick, Approved
<1>4. CASE MavUploadTick
  <2>1. CASE EnterMavUpload(upload.next, upload.waypoints, upload.geofence)
    BY <1>4, <2>1 DEF MavUploadTick
  <2>2. CASE upload.next = "FlyWaypoints" /\ EnterFlyWaypoints
    BY <1>4, <2>2 DEF MavUploadTick
  <2>3. CASE upload.next = "FlySearch" /\ EnterFlySearch
    <3>1. laps = LastLap /\ LastLap <= 0
      BY <1>4, <2>3 DEF MavUploadTick, LastLap
    <3> QED
      BY <1>4, <2>3, <3>1 DEF MavUploadTick
  <2>4. CASE upload.next \in {"WaitForTakeoff", "AirdropApproach"} /\ Enter(upload.next)
    BY <1>4, <2>4 DEF MavUploadTick
  <2> QED
    BY <1>4, <2>1, <2>2, <2>3, <2>4 DEF MavUploadTick
<1>5. CASE WaitForTakeoffTick
  BY <1>5 DEF WaitForTakeoffTick
<1>6. CASE TakeoffTick
  BY <1>6 DEF TakeoffTick
<1>7. CASE ActiveTakeoffTick
  <2>1. CASE Enter("MissionPrep")
    BY <1>7, <2>1 DEF ActiveTakeoffTick
  <2>2. CASE EnterFlyWaypoints
    BY <1>7, <2>2 DEF ActiveTakeoffTick
  <2> QED
    BY <1>7, <2>1, <2>2 DEF ActiveTakeoffTick
<1>8. CASE FlyWaypointsTick
  <2>1. CASE LapsLeft
    BY <1>8, <2>1 DEF FlyWaypointsTick, LapsLeft
  <2>2. CASE ~LapsLeft
    BY <1>8, <2>2 DEF FlyWaypointsTick, LapsLeft
  <2> QED
    BY <1>8, <2>1, <2>2 DEF FlyWaypointsTick, LapsLeft
<1>9. CASE FlySearchTick
  <2>1. CASE cvStatus = "Validated"
    BY <1>9, <2>1 DEF FlySearchTick, handlerVars
  <2>2. CASE cvStatus # "Validated" /\ started
    BY <1>9, <2>2 DEF FlySearchTick, handlerVars
  <2>3. CASE cvStatus # "Validated" /\ ~started
    BY <1>9, <2>3 DEF FlySearchTick, handlerVars
  <2> QED
    BY <1>9, <2>1, <2>2, <2>3 DEF FlySearchTick, handlerVars
<1>10. CASE CVLoiterTick
  BY <1>10 DEF CVLoiterTick
<1>11. CASE AirdropPrepTick
  <2>1. CASE AllDropped /\ Enter("ManualLanding") /\ UNCHANGED <<dropped, nextDrop, airdropPath>>
    BY <1>11, <2>1, AllDroppedMeansAll DEF AirdropPrepTick
  <2>2. CASE ~AllDropped /\ EnterMavUpload("AirdropApproach", airdropPath', FALSE)
    <3>1. nextDrop' = nextDrop + 1 /\ nextDrop < NumAirdrops
      BY <1>11, <2>2, NextAirdropIsNext, NumAirdropsAssumption DEF AirdropPrepTick, Airdrops, TypeOK
    <3> QED
      BY <1>11, <2>2, <3>1 DEF AirdropPrepTick
  <2> QED
    BY <1>11, <2>1, <2>2 DEF AirdropPrepTick
<1>12. CASE AirdropPrepLost
  BY <1>12 DEF AirdropPrepLost
<1>17. CASE FlyWaypointsLost
  BY <1>17 DEF FlyWaypointsLost
<1>13. CASE ManualLandingTick
  BY <1>13 DEF ManualLandingTick
<1>14. ASSUME NEW atFinal \in BOOLEAN, NEW sent \in BOOLEAN, NEW finished \in BOOLEAN,
             AirdropApproachTick(atFinal, sent, finished)
      PROVE  [Plan!Next]_(Plan!vars)
  <2>1. CASE finished /\ AllDropped
    BY <1>14, <2>1, AllDroppedMeansAll DEF AirdropApproachTick, handlerVars
  <2>2. CASE finished /\ ~AllDropped
    BY <1>14, <2>2 DEF AirdropApproachTick, handlerVars
  <2>3. CASE ~finished
    BY <1>14, <2>3 DEF AirdropApproachTick, handlerVars
  <2> QED
    BY <1>14, <2>1, <2>2, <2>3 DEF AirdropApproachTick, handlerVars
<1>15. CASE Job \/ ConnectMav \/ UNCHANGED vars
  BY <1>15, JobFrame
<1>16. ASSUME NEW h \in Handlers, Handle(h)
      PROVE  [Plan!Next]_(Plan!vars)
  BY <1>16, HandlerFrame
<1> QED
  BY <1>1, <1>2, <1>3, <1>4, <1>5, <1>6, <1>7, <1>8, <1>9, <1>10, <1>11, <1>12, <1>13, <1>14,
     <1>15, <1>16, <1>17, StepCases

\* The machine carries out the plan of MissionPlan, for any handlers, laps and airdrops.
THEOREM CarriesOutPlan == Spec => ImplementsPlan
<1>1. Init => Plan!Init
  BY DEF Init, Plan!Init, Phase
<1>2. IInv /\ [Next]_vars => [Plan!Next]_(Plan!vars)
  BY PlanStep
<1> QED
  BY <1>1, <1>2, Inductive, PTL DEF Spec, ImplementsPlan, Plan!Spec
===============================================================================
