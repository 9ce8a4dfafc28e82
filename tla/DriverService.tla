--------------------------- MODULE DriverService -----------------------------
(***************************************************************************)
(* The driver's calls: pending offer, accept, reject, availability and     *)
(* location (app/services/drivers_service.py, the handlers of              *)
(* app/api/v1/endpoints/drivers.py).                                       *)
(*                                                                         *)
(* A call that answers 4xx after its first read and has changed nothing is *)
(* not a step: the guards of the calls below are those first reads.        *)
(***************************************************************************)
EXTENDS CometState

offerFrame == <<book, geo, assignLock, throttle>>

------------------------------------------------------------------------------
(* GET /drivers/{driver_id}/offers/pending.  get_offer_for_driver_async is *)
(* two reads: the driver's index key, then the offer of the ride it names. *)

PendingBegin(p, d) ==
  /\ "pending" \in Ops
  /\ MayBegin(p) /\ index[d] # None
  /\ Begin(p, "pending_offer", [NoLocals EXCEPT !.driver = d, !.ride = index[d]])
  /\ UNCHANGED <<offerFrame, rstatus, rdriver, tstatus, dstatus, locks, offer, index,
                 queue, inbox>>

(* The answer carries the token and not the driver the offer was made to.  *)
PendingReadOffer(p) ==
  LET r == lv[p].ride IN
  /\ At(p, "pending_offer")
  /\ inbox' = [inbox EXCEPT ![lv[p].driver] =
                 IF HasOffer(r) THEN [ride |-> r, token |-> offer[r].token]
                                ELSE NoAnswer]
  /\ Finish(p)
  /\ UNCHANGED <<offerFrame, rstatus, rdriver, tstatus, dstatus, locks, offer, index,
                 queue>>

------------------------------------------------------------------------------
(* POST /drivers/{driver_id}/accept, with the ride and token the driver's  *)
(* app was given.                                                          *)

AcceptBegin(p, d) ==
  LET r == inbox[d].ride IN
  /\ "accept" \in Ops
  /\ MayBegin(p) /\ r # None /\ index[d] = r
  /\ Begin(p, "accept_offer", [NoLocals EXCEPT !.driver = d, !.ride = r,
                                               !.token = inbox[d].token])
  /\ UNCHANGED <<offerFrame, rstatus, rdriver, tstatus, dstatus, locks, offer, index,
                 queue, inbox>>

(* The ride and the token are compared; the driver of the offer is not. *)
AcceptReadOffer(p) ==
  /\ At(p, "accept_offer")
  /\ offer[lv[p].ride].token = lv[p].token
  /\ Begin(p, "accept_ride", [lv[p] EXCEPT !.token = None])
  /\ UNCHANGED <<offerFrame, rstatus, rdriver, tstatus, dstatus, locks, offer, index,
                 queue, inbox>>

(* 409, "Invalid or expired offer". *)
AcceptInvalidOffer(p) ==
  /\ At(p, "accept_offer")
  /\ offer[lv[p].ride].token # lv[p].token
  /\ Finish(p)
  /\ UNCHANGED <<offerFrame, rstatus, rdriver, tstatus, dstatus, locks, offer, index,
                 queue, inbox>>

(* SELECT ... FROM rides ... FOR UPDATE: the row as it is once the lock is *)
(* granted.                                                                *)
AcceptLockRide(p) ==
  LET r == lv[p].ride IN
  /\ At(p, "accept_ride")
  /\ RideFree(r)
  /\ LockRide(p, r)
  /\ Begin(p, "accept_driver", [lv[p] EXCEPT !.drv = rdriver[r]])
  /\ UNCHANGED <<offerFrame, rstatus, rdriver, tstatus, dstatus, driverLock, offer,
                 index, queue, inbox>>

AcceptLockDriver(p) ==
  LET d == lv[p].driver IN
  /\ At(p, "accept_driver")
  /\ DriverFree(d)
  /\ LockDriver(p, d)
  /\ Begin(p, "accept_commit", [lv[p] EXCEPT !.dst = dstatus[d]])
  /\ UNCHANGED <<offerFrame, rstatus, rdriver, tstatus, dstatus, rideLock, offer,
                 index, queue, inbox>>

(* Seeded fault: the ride's driver_id is not looked at. *)
AcceptIfOnline(p) == lv[p].dst = "online"

AcceptAllowed(p) == lv[p].drv = None /\ lv[p].dst = "online"

(* 409, "Ride already assigned" or "Driver not online". *)
AcceptRefused(p) ==
  /\ At(p, "accept_commit")
  /\ ~AcceptAllowed(p)
  /\ ReleaseLocks(p)
  /\ Finish(p)
  /\ UNCHANGED <<offerFrame, rstatus, rdriver, tstatus, dstatus, offer, index, queue,
                 inbox>>

(* Neither ride.status nor trip.status is looked at. *)
AcceptCommit(p) ==
  LET r == lv[p].ride
      d == lv[p].driver IN
  /\ At(p, "accept_commit")
  /\ AcceptAllowed(p)
  /\ rdriver' = [rdriver EXCEPT ![r] = d]
  /\ rstatus' = [rstatus EXCEPT ![r] = "driver_assigned"]
  /\ dstatus' = [dstatus EXCEPT ![d] = "busy"]
  /\ tstatus' = [tstatus EXCEPT ![r] = "DRIVER_ASSIGNED"]
  /\ ReleaseLocks(p)
  /\ Begin(p, "accept_clear", [NoLocals EXCEPT !.ride = r, !.driver = d])
  /\ UNCHANGED <<offerFrame, offer, index, queue, inbox>>

AcceptClear(p) ==
  /\ At(p, "accept_clear")
  /\ ClearOffer(lv[p].ride, lv[p].driver)
  /\ Finish(p)
  /\ UNCHANGED <<offerFrame, rstatus, rdriver, tstatus, dstatus, locks, queue, inbox>>

------------------------------------------------------------------------------
(* POST /drivers/{driver_id}/reject.  No token: the ride is enough. *)

RejectBegin(p, d) ==
  LET r == inbox[d].ride IN
  /\ "reject" \in Ops
  /\ MayBegin(p) /\ r # None /\ index[d] = r
  /\ Begin(p, "reject_offer", [NoLocals EXCEPT !.driver = d, !.ride = r])
  /\ UNCHANGED <<offerFrame, rstatus, rdriver, tstatus, dstatus, locks, offer, index,
                 queue, inbox>>

(* 404, "No pending offer for this ride", when the offer is gone. *)
RejectReadOffer(p) ==
  /\ At(p, "reject_offer")
  /\ IF HasOffer(lv[p].ride) THEN Goto(p, "reject_clear") /\ UNCHANGED lv
                             ELSE Finish(p)
  /\ UNCHANGED <<offerFrame, rstatus, rdriver, tstatus, dstatus, locks, offer, index,
                 queue, inbox>>

(* Seeded fault: the ride is not enqueued again. *)
RejectForget(p) ==
  /\ At(p, "reject_clear")
  /\ ClearOffer(lv[p].ride, lv[p].driver)
  /\ Finish(p)
  /\ UNCHANGED <<offerFrame, rstatus, rdriver, tstatus, dstatus, locks, queue, inbox>>

RejectClear(p) ==
  /\ At(p, "reject_clear")
  /\ ClearOffer(lv[p].ride, lv[p].driver)
  /\ Goto(p, "reject_enqueue")
  /\ UNCHANGED <<offerFrame, rstatus, rdriver, tstatus, dstatus, locks, queue, inbox,
                 lv>>

RejectEnqueue(p) ==
  /\ At(p, "reject_enqueue")
  /\ Enqueue(lv[p].ride)
  /\ Finish(p)
  /\ UNCHANGED <<offerFrame, rstatus, rdriver, tstatus, dstatus, locks, offer, index,
                 inbox>>

------------------------------------------------------------------------------
(* ensure_driver, shared by availability and location: a missing row is    *)
(* inserted (status offline) and stays uncommitted until the handler's     *)
(* commit.  A concurrent insert of the row waits for that commit.          *)

driverFrame == <<book, rstatus, rdriver, tstatus, rideLock, offer, index, assignLock,
                 queue, inbox>>

InsertDriver(p, next) ==
  LET d == lv[p].driver IN
  /\ DriverFree(d)
  /\ IF dstatus[d] = NoRow
     THEN /\ LockDriver(p, d)
          /\ Begin(p, next, [lv[p] EXCEPT !.dst = "offline"])
     ELSE Finish(p) /\ UNCHANGED driverLock    \* IntegrityError, 500
  /\ UNCHANGED <<driverFrame, dstatus, geo, throttle>>

(* POST /drivers/{driver_id}/availability. *)

OffDuty(d) == \A r \in Rides : rdriver[r] = d => rstatus[r] \notin ActiveRideStatuses

(* Seeded fault: going offline leaves the GEO set alone. *)
CommitAlways(s) == "avail_commit"

AfterEnsure(s) == IF s = "offline" THEN "avail_georem" ELSE "avail_commit"

AvailabilityBegin(p, d, s) ==
  /\ "availability" \in Ops
  /\ MayBegin(p) /\ (OffDutyOnly => OffDuty(d))
  /\ Begin(p, IF dstatus[d] = NoRow THEN "avail_insert" ELSE AfterEnsure(s),
           [NoLocals EXCEPT !.driver = d, !.want = s, !.dst = dstatus[d]])
  /\ UNCHANGED <<driverFrame, dstatus, driverLock, geo, throttle>>

AvailabilityInsert(p) == /\ At(p, "avail_insert")
                         /\ InsertDriver(p, AfterEnsure(lv[p].want))

AvailabilityGeoRem(p) ==
  /\ At(p, "avail_georem")
  /\ geo' = geo \ {lv[p].driver}
  /\ Goto(p, "avail_commit")
  /\ UNCHANGED <<driverFrame, dstatus, driverLock, throttle, lv>>

(* The UPDATE is emitted only when the new status differs from the one     *)
(* loaded, and waits for the row lock; the inserted row is committed with  *)
(* the new status.                                                         *)
AvailabilityCommit(p) ==
  LET d == lv[p].driver
      inserted == driverLock[d] = p
      writes == inserted \/ lv[p].want # lv[p].dst IN
  /\ At(p, "avail_commit")
  /\ (writes => inserted \/ DriverFree(d))
  /\ dstatus' = IF writes THEN [dstatus EXCEPT ![d] = lv[p].want] ELSE dstatus
  /\ driverLock' = IF inserted THEN [driverLock EXCEPT ![d] = None] ELSE driverLock
  /\ Finish(p)
  /\ UNCHANGED <<driverFrame, geo, throttle>>

(* POST /drivers/{driver_id}/location. *)

AfterLoad(s) == IF s = "online" THEN "loc_geo" ELSE "loc_throttle"

LocationBegin(p, d) ==
  /\ "location" \in Ops
  /\ MayBegin(p)
  /\ Begin(p, IF dstatus[d] = NoRow THEN "loc_insert" ELSE AfterLoad(dstatus[d]),
           [NoLocals EXCEPT !.driver = d, !.dst = dstatus[d]])
  /\ UNCHANGED <<driverFrame, dstatus, driverLock, geo, throttle>>

LocationInsert(p) == At(p, "loc_insert") /\ InsertDriver(p, "loc_throttle")

LocationGeoAdd(p) ==
  /\ At(p, "loc_geo")
  /\ geo' = geo \cup {lv[p].driver}
  /\ Goto(p, "loc_throttle")
  /\ UNCHANGED <<driverFrame, dstatus, driverLock, throttle, lv>>

(* SET NX on the throttle key: the winner commits the position (and the    *)
(* row, if it inserted one), the others roll back.                         *)
LocationThrottle(p) ==
  LET d == lv[p].driver IN
  /\ At(p, "loc_throttle")
  /\ throttle' = throttle \cup {d}
  /\ IF d \in throttle
     THEN /\ Finish(p)
          /\ driverLock' = [driverLock EXCEPT ![d] = IF @ = p THEN None ELSE @]
     ELSE Goto(p, "loc_commit") /\ UNCHANGED <<lv, driverLock>>
  /\ UNCHANGED <<driverFrame, dstatus, geo>>

(* Seeded fault: the whole row is written back, the loaded status included. *)
LocationCommitRow(p) ==
  /\ At(p, "loc_commit")
  /\ DriverFree(lv[p].driver) \/ driverLock[lv[p].driver] = p
  /\ dstatus' = [dstatus EXCEPT ![lv[p].driver] = lv[p].dst]
  /\ ReleaseLocks(p)
  /\ Finish(p)
  /\ UNCHANGED <<book, rstatus, rdriver, tstatus, redis, inbox>>

LocationCommit(p) ==
  LET d == lv[p].driver
      inserted == driverLock[d] = p IN
  /\ At(p, "loc_commit")
  /\ inserted \/ DriverFree(d)
  /\ dstatus' = IF inserted THEN [dstatus EXCEPT ![d] = "offline"] ELSE dstatus
  /\ driverLock' = IF inserted THEN [driverLock EXCEPT ![d] = None] ELSE driverLock
  /\ Finish(p)
  /\ UNCHANGED <<driverFrame, geo, throttle>>

------------------------------------------------------------------------------
DriverStep(p) ==
  \/ PendingReadOffer(p)
  \/ AcceptReadOffer(p) \/ AcceptInvalidOffer(p) \/ AcceptLockRide(p)
  \/ AcceptLockDriver(p) \/ AcceptRefused(p) \/ AcceptCommit(p) \/ AcceptClear(p)
  \/ RejectReadOffer(p) \/ RejectClear(p) \/ RejectEnqueue(p)
  \/ AvailabilityInsert(p) \/ AvailabilityGeoRem(p) \/ AvailabilityCommit(p)
  \/ LocationInsert(p) \/ LocationGeoAdd(p) \/ LocationThrottle(p) \/ LocationCommit(p)

DriverCall(p) ==
  \E d \in Drivers : \/ PendingBegin(p, d) \/ AcceptBegin(p, d) \/ RejectBegin(p, d)
                     \/ \E s \in DriverStatus : AvailabilityBegin(p, d, s)
                     \/ LocationBegin(p, d)
==============================================================================
