------------------------------ MODULE MissionPlan ------------------------------
(***************************************************************************)
(* What the mission state machine promises: the plan of one mission.       *)
(*                                                                         *)
(* A path is planned and approved, the plane takes off and flies its laps, *)
(* searches for targets, delivers the airdrops one after the other and     *)
(* lands.  A takeoff that fails goes back to planning.                     *)
(***************************************************************************)
EXTENDS Integers

CONSTANTS NumAirdrops, Laps

VARIABLES
    phase,      \* what the plane is doing
    lapsLeft,   \* laps not begun yet: -1 if none was asked for, as one is flown anyway
    delivered   \* airdrops begun: 1..delivered

vars == <<phase, lapsLeft, delivered>>

Init == phase = "Planning" /\ lapsLeft = Laps /\ delivered = 0

Move(from, to) == phase = from /\ phase' = to

Approve == Move("Planning", "Approved") /\ UNCHANGED <<lapsLeft, delivered>>

Abort == Move("Approved", "Planning") /\ UNCHANGED <<lapsLeft, delivered>>

Depart ==
    /\ Move("Approved", "Airborne")
    /\ lapsLeft = Laps /\ lapsLeft' = Laps - 1
    /\ UNCHANGED delivered

NextLap ==
    /\ phase = "Airborne" /\ lapsLeft > 0
    /\ lapsLeft' = lapsLeft - 1
    /\ UNCHANGED <<phase, delivered>>

BeginSearch ==
    /\ Move("Airborne", "Searching")
    /\ lapsLeft <= 0
    /\ UNCHANGED <<lapsLeft, delivered>>

BeginDelivery ==
    /\ Move("Searching", "Delivering")
    /\ delivered = 0
    /\ UNCHANGED <<lapsLeft, delivered>>

Deliver ==
    /\ phase = "Delivering" /\ delivered < NumAirdrops
    /\ delivered' = delivered + 1
    /\ UNCHANGED <<phase, lapsLeft>>

Land ==
    /\ Move("Delivering", "Landing")
    /\ delivered = NumAirdrops
    /\ UNCHANGED <<lapsLeft, delivered>>

Next == Approve \/ Abort \/ Depart \/ NextLap \/ BeginSearch \/ BeginDelivery \/ Deliver \/ Land

Spec == Init /\ [][Next]_vars
===============================================================================
