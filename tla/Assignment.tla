----------------------------- MODULE Assignment ------------------------------
(***************************************************************************)
(* What accepting an offer promises, with no offers, locks or handlers in  *)
(* sight: a ride gets a driver at most once and keeps it, and it gets one  *)
(* who was available and who, in the same step, no longer is.              *)
(***************************************************************************)
CONSTANTS Rides, Drivers, None

VARIABLES assigned,   \* the driver of each ride, None before the assignment
          available   \* the drivers that may be assigned

vars == <<assigned, available>>

Init == /\ assigned = [r \in Rides |-> None]
        /\ available \in SUBSET Drivers

Assign(r, d) ==
  /\ assigned[r] = None /\ d \in available
  /\ assigned' = [assigned EXCEPT ![r] = d]
  /\ available' = available \ {d}

(* A driver comes, leaves, or is released at the end of a trip. *)
ChangeAvailability(d) ==
  /\ available' \in {available \cup {d}, available \ {d}}
  /\ UNCHANGED assigned

Next == \E d \in Drivers : ChangeAvailability(d) \/ \E r \in Rides : Assign(r, d)

Spec == Init /\ [][Next]_vars
==============================================================================
