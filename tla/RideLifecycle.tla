---------------------------- MODULE RideLifecycle ----------------------------
(***************************************************************************)
(* What the lifecycle of a ride promises: one status, which the two tables *)
(* show to their own readers as ride status and trip status; the moves of  *)
(* the trip state machine and no others; a driver from the assignment on,  *)
(* who works on one ride at a time.                                        *)
(***************************************************************************)
EXTENDS TripFsm

CONSTANTS Rides, Drivers, None

VARIABLES status,   \* a trip status, NoRow before the booking
          shown,    \* the ride status the rider is shown
          driver

vars == <<status, shown, driver>>

Init == /\ status = [r \in Rides |-> NoRow]
        /\ shown = [r \in Rides |-> NoRow]
        /\ driver = [r \in Rides |-> None]

Engaged(d) == \E r \in Rides : driver[r] = d /\ shown[r] \in ActiveRideStatuses

Become(r, t) == /\ status' = [status EXCEPT ![r] = t]
                /\ shown' = [shown EXCEPT ![r] = RideStatusOf(t)]

Book(r) == /\ status[r] = NoRow
           /\ Become(r, "MATCHING")
           /\ UNCHANGED driver

AssignDriver(r, d) ==
  /\ status[r] = "MATCHING" /\ ~Engaged(d)
  /\ Become(r, "DRIVER_ASSIGNED")
  /\ driver' = [driver EXCEPT ![r] = d]

Move(r, t) ==
  /\ status[r] # NoRow /\ MayTransition(status[r], t)
  /\ t # "DRIVER_ASSIGNED"
  /\ Become(r, t)
  /\ UNCHANGED driver

Next == \E r \in Rides : \/ Book(r)
                         \/ \E d \in Drivers : AssignDriver(r, d)
                         \/ \E t \in TripStatus : Move(r, t)

Spec == Init /\ [][Next]_vars
==============================================================================
