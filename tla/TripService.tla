----------------------------- MODULE TripService -----------------------------
(***************************************************************************)
(* POST /trips/{trip_id}/start, pause, resume and end                      *)
(* (app/services/trips.py).  A handler loads the trip, then the ride,      *)
(* checks the transition on what it loaded and writes at its commit.  The  *)
(* endpoints ask for a valid token and nothing more, so anybody may call   *)
(* them at any time.                                                       *)
(***************************************************************************)
EXTENDS CometState

tripFrame == <<book, rdriver, redis, inbox>>

TripBegin(p, op, r) ==
  /\ op \in Ops
  /\ MayBegin(p) /\ tstatus[r] # NoRow
  /\ Begin(p, "trip_ride", [NoLocals EXCEPT !.ride = r, !.want = op,
                                            !.tst = tstatus[r]])
  /\ UNCHANGED <<tripFrame, rstatus, tstatus, dstatus, locks>>

AfterCheck(op) == CASE op \in {"start", "resume"} -> "trip_commit"
                    [] op = "pause"               -> "pause_commit"
                    [] op = "end"                 -> "end_driver"

(* _trip_for_uuid's second read, and assert_transition. *)
TripLoadRide(p) ==
  LET r == lv[p].ride IN
  /\ At(p, "trip_ride")
  /\ MayTransition(lv[p].tst, TripTarget(lv[p].want))
  /\ Begin(p, AfterCheck(lv[p].want),
           [lv[p] EXCEPT !.rst = rstatus[r],
                         !.drv = IF lv[p].want = "end" THEN rdriver[r] ELSE None])
  /\ UNCHANGED <<tripFrame, rstatus, tstatus, dstatus, locks>>

(* 409, "Illegal trip transition". *)
TripRefused(p) ==
  /\ At(p, "trip_ride")
  /\ ~MayTransition(lv[p].tst, TripTarget(lv[p].want))
  /\ Finish(p)
  /\ UNCHANGED <<tripFrame, rstatus, tstatus, dstatus, locks>>

(* start and resume.  The ORM emits the UPDATE of the ride (first) only if *)
(* the status changes what was loaded; that UPDATE waits for the ride.     *)
TripCommit(p) ==
  LET r == lv[p].ride
      writesRide == lv[p].rst # "in_progress" IN
  /\ At(p, "trip_commit")
  /\ writesRide => RideFree(r)
  /\ rstatus' = IF writesRide THEN [rstatus EXCEPT ![r] = "in_progress"] ELSE rstatus
  /\ tstatus' = [tstatus EXCEPT ![r] = "IN_PROGRESS"]
  /\ Finish(p)
  /\ UNCHANGED <<tripFrame, dstatus, locks>>

(* pause writes the trip alone. *)
PauseCommit(p) ==
  /\ At(p, "pause_commit")
  /\ tstatus' = [tstatus EXCEPT ![lv[p].ride] = "PAUSED"]
  /\ Finish(p)
  /\ UNCHANGED <<tripFrame, rstatus, dstatus, locks>>

(* end, "if ride.driver_id": the ride has a driver by now (DriverBehindTrip *)
(* in Comet), so there is no other branch.  The flush writes drivers, then  *)
(* rides, then trips.                                                       *)
EndLoadDriver(p) ==
  /\ At(p, "end_driver")
  /\ lv[p].drv # None
  /\ Begin(p, IF dstatus[lv[p].drv] = "online" THEN "end_commit" ELSE "end_lock",
           [lv[p] EXCEPT !.dst = dstatus[lv[p].drv]])
  /\ UNCHANGED <<tripFrame, rstatus, tstatus, dstatus, locks>>

EndLockDriver(p) ==
  /\ At(p, "end_lock")
  /\ DriverFree(lv[p].drv)
  /\ LockDriver(p, lv[p].drv)
  /\ Goto(p, "end_commit")
  /\ UNCHANGED <<tripFrame, rstatus, tstatus, dstatus, rideLock, lv>>

EndCommit(p) ==
  LET r == lv[p].ride IN
  /\ At(p, "end_commit")
  /\ lv[p].rst # "completed" => RideFree(r)
  /\ tstatus' = [tstatus EXCEPT ![r] = "COMPLETED"]
  /\ rstatus' = IF lv[p].rst # "completed" THEN [rstatus EXCEPT ![r] = "completed"]
                                           ELSE rstatus
  /\ dstatus' = IF lv[p].dst # "online" THEN [dstatus EXCEPT ![lv[p].drv] = "online"]
                                        ELSE dstatus
  /\ ReleaseLocks(p)
  /\ Finish(p)
  /\ UNCHANGED tripFrame

TripStep(p) ==
  \/ TripLoadRide(p) \/ TripRefused(p) \/ TripCommit(p) \/ PauseCommit(p)
  \/ EndLoadDriver(p) \/ EndLockDriver(p) \/ EndCommit(p)

TripCall(p) == \E op \in TripOps, r \in Rides : TripBegin(p, op, r)
==============================================================================
