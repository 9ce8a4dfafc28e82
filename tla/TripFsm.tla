------------------------------- MODULE TripFsm -------------------------------
(***************************************************************************)
(* The status vocabularies of the domain model and the trip state machine *)
(* (app/models/enums.py, app/services/trip_fsm.py), with the two tables   *)
(* the services derive from them.  No state: every other module extends   *)
(* this one.                                                               *)
(***************************************************************************)

RideStatus == {"requested", "matching", "driver_assigned", "driver_arriving",
               "in_progress", "completed", "cancelled"}

TripStatus == {"REQUESTED", "MATCHING", "DRIVER_ASSIGNED", "DRIVER_ARRIVING",
               "IN_PROGRESS", "PAUSED", "COMPLETED", "CANCELLED"}

DriverStatus == {"online", "offline", "busy"}

(* A table without the row: session.get(...) is None. *)
NoRow == "none"

ActiveRideStatuses == RideStatus \ {"completed", "cancelled"}

(* Seeded fault: a trip still in matching is taken for a finished one. *)
TerminalOrMatching == {"COMPLETED", "CANCELLED", "MATCHING"}

TerminalTrip == {"COMPLETED", "CANCELLED"}

(* A trip a driver has worked on.  No code path reaches one of these       *)
(* without an accepted offer: DriverBehindTrip (Comet) says so.            *)
MovingTrip == {"DRIVER_ASSIGNED", "DRIVER_ARRIVING", "IN_PROGRESS", "PAUSED",
               "COMPLETED"}

(* The table _ALLOWED: the successors assert_transition lets through. *)
Allowed ==
  [s \in TripStatus |->
     CASE s = "REQUESTED"       -> {"MATCHING", "CANCELLED"}
       [] s = "MATCHING"        -> {"DRIVER_ASSIGNED", "CANCELLED"}
       [] s = "DRIVER_ASSIGNED" -> {"DRIVER_ARRIVING", "IN_PROGRESS", "CANCELLED"}
       [] s = "DRIVER_ARRIVING" -> {"IN_PROGRESS", "CANCELLED"}
       [] s = "IN_PROGRESS"     -> {"PAUSED", "COMPLETED", "CANCELLED"}
       [] s = "PAUSED"          -> {"IN_PROGRESS", "CANCELLED"}
       [] s \in TerminalTrip    -> {}]

(* Seeded fault: only the end of a trip is final, every other move passes. *)
NotTerminal(current, new) == current \notin TerminalTrip

MayTransition(current, new) == new \in Allowed[current]

(* The ride status a trip status stands for (_align_ride_status, plus the  *)
(* pair create_ride inserts).                                              *)
RideStatusOf(t) ==
  CASE t = "MATCHING"               -> "matching"
    [] t = "DRIVER_ASSIGNED"        -> "driver_assigned"
    [] t = "DRIVER_ARRIVING"        -> "driver_arriving"
    [] t \in {"IN_PROGRESS", "PAUSED"} -> "in_progress"
    [] t = "COMPLETED"              -> "completed"
    [] t = "CANCELLED"              -> "cancelled"
    [] OTHER                        -> NoRow

(* The four lifecycle endpoints of a trip and the status each asks for. *)
TripOps == {"start", "pause", "resume", "end"}

TripTarget(op) == CASE op \in {"start", "resume"} -> "IN_PROGRESS"
                    [] op = "pause"               -> "PAUSED"
                    [] op = "end"                 -> "COMPLETED"
==============================================================================
