---------------------------- MODULE RideService ------------------------------
(***************************************************************************)
(* POST /rides and POST /rides/{ride_id}/cancel: app/services/rides.py and *)
(* the handlers of app/api/v1/endpoints/rides.py.                          *)
(***************************************************************************)
EXTENDS CometState

rideFrame == <<dstatus, locks, geo, assignLock, throttle, inbox>>

------------------------------------------------------------------------------
(* create_ride.  The uuid of the new ride is fixed when the call begins:   *)
(* nobody can know it before the insert.                                   *)

(* Seeded fault: only a ride still in matching blocks the next one. *)
MatchingRides(u) == {r \in Rides : rowner[r] = u /\ rstatus[r] = "matching"}

ActiveRides(u) == {r \in Rides : rowner[r] = u /\ rstatus[r] \in ActiveRideStatuses}

Fresh(r) == rstatus[r] = NoRow /\ \A q \in Procs : lv[q].ride # r

(* Seeded fault: no key is looked up. *)
NeverLookedUp(k) == FALSE

(* "if idempotency_key": an empty key is not looked up, and is stored.      *)
LookedUp(k) == k \notin {None, EmptyKey}

CreateBegin(p, u, k, r) ==
  /\ "create" \in Ops
  /\ MayBegin(p) /\ Fresh(r)
  /\ Begin(p, IF LookedUp(k) THEN "create_key" ELSE "create_active",
           [NoLocals EXCEPT !.rider = u, !.key = k, !.ride = r])
  /\ UNCHANGED <<rideFrame, book, rstatus, rdriver, tstatus, offer, index, queue>>

(* A ride with the key exists: it and its trip are the answer. *)
CreateReplay(p) ==
  /\ At(p, "create_key")
  /\ \E r \in Rides : rkey[r] = lv[p].key
  /\ Finish(p)
  /\ UNCHANGED <<rideFrame, book, rstatus, rdriver, tstatus, offer, index, queue>>

CreateNoReplay(p) ==
  /\ At(p, "create_key")
  /\ \A r \in Rides : rkey[r] # lv[p].key
  /\ Goto(p, "create_active")
  /\ UNCHANGED <<rideFrame, book, rstatus, rdriver, tstatus, offer, index, queue, lv>>

(* 409, "Rider already has an active ride". *)
CreateConflict(p) ==
  /\ At(p, "create_active")
  /\ ActiveRides(lv[p].rider) # {}
  /\ Finish(p)
  /\ UNCHANGED <<rideFrame, book, rstatus, rdriver, tstatus, offer, index, queue>>

CreateNoConflict(p) ==
  /\ At(p, "create_active")
  /\ ActiveRides(lv[p].rider) = {}
  /\ Goto(p, "create_rider")
  /\ UNCHANGED <<rideFrame, book, rstatus, rdriver, tstatus, offer, index, queue, lv>>

(* ensure_rider: the row is inserted if this read does not find it. *)
CreateEnsureRider(p) ==
  /\ At(p, "create_rider")
  /\ Begin(p, "create_commit",
           [lv[p] EXCEPT !.want = IF lv[p].rider \in riders THEN "" ELSE "new_rider"])
  /\ UNCHANGED <<rideFrame, book, rstatus, rdriver, tstatus, offer, index, queue>>

(* The primary key of riders and the unique index on rides.idempotency_key. *)
CreateUnique(p) ==
  /\ lv[p].want = "new_rider" => lv[p].rider \notin riders
  /\ lv[p].key # None => \A r \in Rides : rkey[r] # lv[p].key

(* The inserts of rider, ride and trip, and the commit.  Concurrent inserts *)
(* of one key wait for each other, so only the order of commits matters.   *)
CreateCommit(p) ==
  LET r == lv[p].ride IN
  /\ At(p, "create_commit")
  /\ CreateUnique(p)
  /\ riders' = riders \cup {lv[p].rider}
  /\ rowner' = [rowner EXCEPT ![r] = lv[p].rider]
  /\ rkey' = [rkey EXCEPT ![r] = lv[p].key]
  /\ rstatus' = [rstatus EXCEPT ![r] = "matching"]
  /\ tstatus' = [tstatus EXCEPT ![r] = "MATCHING"]
  /\ Goto(p, "create_enqueue")
  /\ UNCHANGED <<rideFrame, rdriver, offer, index, queue, lv>>

(* IntegrityError: the transaction is rolled back and the client gets 500. *)
CreateIntegrityError(p) ==
  /\ At(p, "create_commit")
  /\ ~CreateUnique(p)
  /\ Finish(p)
  /\ UNCHANGED <<rideFrame, book, rstatus, rdriver, tstatus, offer, index, queue>>

(* match_ride.delay(ride.id), after the commit. *)
CreateEnqueue(p) ==
  /\ At(p, "create_enqueue")
  /\ Enqueue(lv[p].ride)
  /\ Finish(p)
  /\ UNCHANGED <<rideFrame, book, rstatus, rdriver, tstatus, offer, index>>

------------------------------------------------------------------------------
(* post_cancel_ride and cancel_ride: two plain reads, the offer, then an   *)
(* UPDATE decided on the statuses read.  Only the owner gets past          *)
(* get_ride_for_rider, so the call names a ride that exists.               *)

CancelBegin(p, r) ==
  /\ "cancel" \in Ops
  /\ MayBegin(p) /\ rstatus[r] # NoRow
  /\ Begin(p, "cancel_trip", [NoLocals EXCEPT !.ride = r, !.rst = rstatus[r]])
  /\ UNCHANGED <<rideFrame, book, rstatus, rdriver, tstatus, offer, index, queue>>

CancelLoadTrip(p) ==
  /\ At(p, "cancel_trip")
  /\ Begin(p, "cancel_offer", [lv[p] EXCEPT !.tst = tstatus[lv[p].ride]])
  /\ UNCHANGED <<rideFrame, book, rstatus, rdriver, tstatus, offer, index, queue>>

CancelReadOffer(p) ==
  /\ At(p, "cancel_offer")
  /\ Begin(p, IF HasOffer(lv[p].ride) THEN "cancel_clear" ELSE "cancel_commit",
           [lv[p] EXCEPT !.driver = offer[lv[p].ride].driver])
  /\ UNCHANGED <<rideFrame, book, rstatus, rdriver, tstatus, offer, index, queue>>

CancelClear(p) ==
  /\ At(p, "cancel_clear")
  /\ ClearOffer(lv[p].ride, lv[p].driver)
  /\ Goto(p, "cancel_commit")
  /\ UNCHANGED <<rideFrame, book, rstatus, rdriver, tstatus, queue, lv>>

(* 409, "Ride cannot be cancelled". *)
CancelRefused(p) ==
  /\ At(p, "cancel_commit")
  /\ lv[p].rst \notin ActiveRideStatuses
  /\ Finish(p)
  /\ UNCHANGED <<rideFrame, book, rstatus, rdriver, tstatus, offer, index, queue>>

CancelCommit(p) ==
  LET r == lv[p].ride IN
  /\ At(p, "cancel_commit")
  /\ lv[p].rst \in ActiveRideStatuses
  /\ RideFree(r)
  /\ rstatus' = [rstatus EXCEPT ![r] = "cancelled"]
  /\ tstatus' = IF lv[p].tst \in TerminalTrip THEN tstatus
                ELSE [tstatus EXCEPT ![r] = "CANCELLED"]
  /\ Finish(p)
  /\ UNCHANGED <<rideFrame, book, rdriver, offer, index, queue>>

------------------------------------------------------------------------------
(* The steps of a call already taken up, and the calls themselves. *)
RideStep(p) ==
  \/ CreateReplay(p) \/ CreateNoReplay(p) \/ CreateConflict(p) \/ CreateNoConflict(p)
  \/ CreateEnsureRider(p) \/ CreateCommit(p) \/ CreateIntegrityError(p)
  \/ CreateEnqueue(p)
  \/ CancelLoadTrip(p) \/ CancelReadOffer(p) \/ CancelClear(p) \/ CancelRefused(p)
  \/ CancelCommit(p)

RideCall(p) ==
  \/ \E u \in Riders, k \in OrNone(Keys), r \in Rides : CreateBegin(p, u, k, r)
  \/ \E r \in Rides : CancelBegin(p, r)
==============================================================================
