-------------------------------- MODULE Fares --------------------------------
(***************************************************************************)
(* What a trip costs: the multiplier booked with the ride                  *)
(* (endpoints/rides.py) and the fare end_trip computes and commits          *)
(* (services/trips.py).  Everything else that writes a trip's status       *)
(* (accept, start, pause, resume, cancel: modelled in Comet) is OtherMove, *)
(* which may come on a stale read and so from any status.                  *)
(***************************************************************************)
EXTENDS Pricing, TripFsm

CONSTANTS
  Trips,
  Zones,        \* fields of the HASH comet:surge:zones
  Multipliers,  \* values an operator may store there
  Distances,    \* trip_distance_km of a pickup and a destination
  OtherStatuses,\* statuses the other services write (all but COMPLETED)
  Enders,       \* requests POST /trips/{trip_id}/end in flight
  Faults        \* TRUE: a store call may raise

ASSUME FaresAssumption ==
  /\ Multipliers \subseteq Nat /\ Distances \subseteq Nat
  /\ OtherStatuses \subseteq TripStatus \ {"REQUESTED", "MATCHING", "COMPLETED"}
  /\ None \notin Trips \cup Zones \cup Multipliers \cup Nat
  /\ Faults \in BOOLEAN

VARIABLES
  trip,   \* the committed columns of a trip and its ride
  surge,  \* comet:surge:zones
  ender   \* the calls of end_trip

fareVars == <<trip, surge, ender>>

TripRow == [status: TripStatus \cup {NoRow}, zone: Zones \cup {None},
            booked: Nat \cup {None}, dist: Nat, fare: Nat \cup {None}]

NoTrip == [status |-> NoRow, zone |-> None, booked |-> None, dist |-> 0, fare |-> None]
NoEnd  == [at |-> "idle", trip |-> None, mult |-> None]

FaresInit == /\ trip = [t \in Trips |-> NoTrip]
             /\ surge = [z \in Zones |-> None]
             /\ ender = [e \in Enders |-> NoEnd]

(* Seeded fault: the field of the zone as it is. *)
RawBooked(z) == IF z = None THEN 100 ELSE surge[z]

(* post_ride asks for the multiplier with default 1.0 and stores it. *)
BookedSurge(z) == GetSurge(surge, z, 100)

Book(t, z, d) ==
  /\ trip[t].status = NoRow
  /\ trip' = [trip EXCEPT ![t] = [status |-> "MATCHING", zone |-> z, dist |-> d,
                                  booked |-> BookedSurge(z), fare |-> None]]
  /\ UNCHANGED <<surge, ender>>

OtherMove(t, s) ==
  /\ trip[t].status \notin {NoRow, s}
  /\ trip' = [trip EXCEPT ![t].status = s]
  /\ UNCHANGED <<surge, ender>>

(* HSET or HDEL by an operator; scripts/seed.py is the only writer at hand. *)
SetSurge(z, m) ==
  /\ surge' = [surge EXCEPT ![z] = m]
  /\ UNCHANGED <<trip, ender>>

------------------------------------------------------------------------------
(* end_trip: the rows, the transition check, then the multiplier of now. *)
EndBegin(e, t) ==
  /\ ender[e].at = "idle"
  /\ trip[t].status # NoRow /\ MayTransition(trip[t].status, "COMPLETED")
  /\ ender' = [ender EXCEPT ![e] = [at |-> "price", trip |-> t, mult |-> None]]
  /\ UNCHANGED <<trip, surge>>

(* "ride.surge_multiplier or 1.0". *)
BookedOrOne(booked) == IF booked \in {None, 0} THEN 100 ELSE booked

EndPrice(e) ==
  LET row == trip[ender[e].trip] IN
  /\ ender[e].at = "price"
  /\ ender' = [ender EXCEPT ![e] =
       [at |-> "commit", trip |-> ender[e].trip,
        mult |-> GetSurge(surge, row.zone, BookedOrOne(row.booked))]]
  /\ UNCHANGED <<trip, surge>>

(* Fare and status are written by one commit. *)
EndCommit(e) ==
  LET t == ender[e].trip
      row == trip[t] IN
  /\ ender[e].at = "commit"
  /\ trip' = [trip EXCEPT ![t] =
       [status |-> "COMPLETED", zone |-> row.zone, booked |-> row.booked,
        dist |-> row.dist, fare |-> FareOf(row.dist, ender[e].mult)]]
  /\ ender' = [ender EXCEPT ![e] = NoEnd]
  /\ UNCHANGED surge

EndFail(e) ==
  /\ Faults /\ ender[e].at # "idle"
  /\ ender' = [ender EXCEPT ![e] = NoEnd]
  /\ UNCHANGED <<trip, surge>>

FaresNext ==
  \/ \E t \in Trips : \/ \E z \in Zones \cup {None}, d \in Distances : Book(t, z, d)
                      \/ \E s \in OtherStatuses : OtherMove(t, s)
  \/ \E z \in Zones, m \in Multipliers \cup {None} : SetSurge(z, m)
  \/ \E e \in Enders : \/ \E t \in Trips : EndBegin(e, t)
                       \/ EndPrice(e) \/ EndCommit(e) \/ EndFail(e)
==============================================================================
