---------------------------- MODULE CometTypes ------------------------------
(***************************************************************************)
(* Type correctness of Comet, for any rides, drivers, riders, keys, tokens *)
(* and slots.  TypeOK alone is not inductive: a step that writes           *)
(* rstatus[lv[p].ride] keeps the type only if the slot has a ride, so the  *)
(* invariant also says which locals a slot has set at which step.          *)
(***************************************************************************)
EXTENDS Comet, TLAPS

CreateLabels == {"create_key", "create_active", "create_rider", "create_commit",
                 "create_enqueue"}
AvailLabels  == {"avail_insert", "avail_georem", "avail_commit"}
LocLabels    == {"loc_insert", "loc_geo", "loc_throttle", "loc_commit"}
DriverLabels == AvailLabels \cup LocLabels \cup
                {"pending_offer", "accept_offer", "accept_ride", "accept_driver",
                 "accept_commit", "accept_clear", "reject_offer", "reject_clear",
                 "reject_enqueue", "match_setnx", "match_store"}
RideLabels   == Labels \ ({"idle"} \cup AvailLabels \cup LocLabels)

ArgsOK ==
  \A p \in Procs :
    /\ pc[p] \in RideLabels => lv[p].ride \in Rides
    /\ pc[p] \in DriverLabels => lv[p].driver \in Drivers
    /\ pc[p] \in CreateLabels => lv[p].rider \in Riders
    /\ pc[p] \in AvailLabels => lv[p].want \in DriverStatus
    /\ pc[p] = "trip_ride" => lv[p].want \in TripOps
    /\ pc[p] \in {"end_lock", "end_commit"} => lv[p].drv \in Drivers

TypeInv == TypeOK /\ ArgsOK

(* The locals of an idle slot are locals. *)
LEMMA NoLocalsType == NoLocals \in Locals
  BY DEF Locals, NoLocals, Wants, OrNone, NoRow

------------------------------------------------------------------------------
(* Every step of create_ride and cancel_ride keeps TypeInv. *)
LEMMA RideServiceTypes ==
  ASSUME TypeInv, NEW p \in Handlers, RideStep(p) \/ RideCall(p)
  PROVE  TypeInv'
<1> p \in Procs BY DEF Procs
<1> USE NoLocalsType DEF TypeInv, TypeOK, ArgsOK, OrNone, Labels, CreateLabels,
          AvailLabels, LocLabels, DriverLabels, RideLabels
<1>1. ASSUME NEW u \in Riders, NEW k \in OrNone(Keys), NEW r \in Rides, CreateBegin(p, u, k, r)
      PROVE TypeInv'
  <2>1. [NoLocals EXCEPT !.rider = u, !.key = k, !.ride = r] \in Locals
    BY <1>1 DEF Locals, Wants, CreateBegin, At
  <2>2. TypeOK'
    BY <1>1, <2>1 DEF CreateBegin, Begin, book, rideFrame, Goto, At, locks
  <2>3. ArgsOK'
    BY <1>1, <2>1 DEF Locals, CreateBegin, Begin, book, rideFrame, Goto, At, locks
  <2> QED BY <2>2, <2>3
<1>2. ASSUME CreateReplay(p) PROVE TypeInv'
  BY <1>2 DEF CreateReplay, At, Finish, book, rideFrame, Goto, locks
<1>3. ASSUME CreateNoReplay(p) PROVE TypeInv'
  BY <1>3 DEF CreateNoReplay, At, Goto, book, rideFrame, locks
<1>4. ASSUME CreateConflict(p) PROVE TypeInv'
  BY <1>4 DEF CreateConflict, At, Finish, book, rideFrame, Goto, locks
<1>5. ASSUME CreateNoConflict(p) PROVE TypeInv'
  BY <1>5 DEF CreateNoConflict, At, Goto, book, rideFrame, locks
<1>6. ASSUME CreateEnsureRider(p) PROVE TypeInv'
  <2> DEFINE w == IF lv[p].rider \in riders THEN "" ELSE "new_rider"
  <2>1. w \in Wants
    BY DEF Wants
  <2>2. /\ pc' = [pc EXCEPT ![p] = "create_commit"]
        /\ lv' = [lv EXCEPT ![p] = [lv[p] EXCEPT !.want = w]]
        /\ pc[p] = "create_rider"
        /\ UNCHANGED <<book, rstatus, rdriver, tstatus, dstatus, locks, redis, inbox>>
    BY <1>6 DEF CreateEnsureRider, At, Begin, Goto, rideFrame, redis
  <2> HIDE DEF w
  <2>3. [lv[p] EXCEPT !.want = w] \in Locals
    BY <2>1 DEF Locals
  <2>4. TypeOK'
    BY <2>2, <2>3 DEF book, locks, redis
  <2>5. ArgsOK'
    BY <2>2 DEF Locals
  <2> QED BY <2>4, <2>5
<1>7. ASSUME CreateCommit(p) PROVE TypeInv'
  <2>1. lv[p].key \in OrNone(Keys)
    BY DEF Locals
  <2>2. lv[p].ride \in Rides /\ lv[p].rider \in Riders
    BY <1>7 DEF CreateCommit, At
  <2>3. TypeOK'
    BY <1>7, <2>1, <2>2 DEF CreateCommit, At, Goto, rideFrame, locks, NoRow, RideStatus,
       TripStatus
  <2>4. ArgsOK'
    BY <1>7 DEF CreateCommit, At, Goto
  <2> QED BY <2>3, <2>4
<1>8. ASSUME CreateIntegrityError(p) PROVE TypeInv'
  BY <1>8 DEF CreateIntegrityError, At, Finish, book, rideFrame, Goto, locks
<1>9. ASSUME CreateEnqueue(p) PROVE TypeInv'
  <2>1. queue' \in [Rides -> Nat]
    <3>1. queue' = [queue EXCEPT ![lv[p].ride] = @ + 1] /\ lv[p].ride \in Rides
      BY <1>9 DEF CreateEnqueue, At, Enqueue
    <3> QED BY <3>1
  <2> QED
    BY <1>9, <2>1 DEF CreateEnqueue, At, Finish, Goto, book, locks, rideFrame
<1>10. ASSUME NEW r \in Rides, CancelBegin(p, r) PROVE TypeInv'
  <2>1. [NoLocals EXCEPT !.ride = r, !.rst = rstatus[r]] \in Locals
    BY <1>10 DEF Locals, Wants, CancelBegin, At
  <2>2. TypeOK'
    BY <1>10, <2>1 DEF CancelBegin, Begin, book, rideFrame, Goto, At, locks
  <2>3. ArgsOK'
    BY <1>10, <2>1 DEF Locals, CancelBegin, Begin, book, rideFrame, Goto, At, locks
  <2> QED BY <2>2, <2>3
<1>11. ASSUME CancelLoadTrip(p) PROVE TypeInv'
  <2>1. [lv[p] EXCEPT !.tst = tstatus[lv[p].ride]] \in Locals
    BY ZenonT(60), <1>11 DEF Locals, Wants, CancelLoadTrip, At
  <2>2. TypeOK'
    BY <1>11, <2>1 DEF CancelLoadTrip, At, Begin, book, rideFrame, Goto, locks
  <2>3. ArgsOK'
    BY <1>11, <2>1 DEF Locals, CancelLoadTrip, At, Begin, book, rideFrame, Goto,
         locks
  <2> QED BY <2>2, <2>3
<1>12. ASSUME CancelReadOffer(p) PROVE TypeInv'
  <2>1. lv[p].ride \in Rides
    BY <1>12 DEF CancelReadOffer, At
  <2>2. offer[lv[p].ride].driver \in OrNone(Drivers)
    BY <2>1
  <2>3. [lv[p] EXCEPT !.driver = offer[lv[p].ride].driver] \in Locals
    BY ZenonT(60), <2>2 DEF Locals
  <2>4. TypeOK'
    BY <1>12, <2>3 DEF CancelReadOffer, Begin, At, Goto, book, locks, rideFrame
  <2>5. ArgsOK'
    BY <1>12 DEF Locals, CancelReadOffer, Begin, At, Goto
  <2> QED BY <2>4, <2>5
<1>13. ASSUME CancelClear(p) PROVE TypeInv'
  BY ZenonT(60), <1>13 DEF CancelClear, At, ClearOffer, Goto, book, rideFrame, NoOffer, locks
<1>14. ASSUME CancelRefused(p) PROVE TypeInv'
  BY <1>14 DEF CancelRefused, At, Finish, book, rideFrame, Goto, locks
<1>15. ASSUME CancelCommit(p) PROVE TypeInv'
  BY <1>15 DEF CancelCommit, At, Finish, book, rideFrame, Goto, locks, RideStatus,
       TripStatus
<1> QED BY <1>1, <1>2, <1>3, <1>4, <1>5, <1>6, <1>7, <1>8, <1>9, <1>10, <1>11, <1>12,
     <1>13, <1>14, <1>15 DEF RideStep, RideCall

------------------------------------------------------------------------------
(* Every step of the driver's calls keeps TypeInv. *)
LEMMA DriverServiceTypes ==
  ASSUME TypeInv, NEW p \in Handlers, DriverStep(p) \/ DriverCall(p)
  PROVE  TypeInv'
<1> p \in Procs BY DEF Procs
<1> USE NoLocalsType DEF TypeInv, TypeOK, ArgsOK, OrNone, Labels, CreateLabels,
          AvailLabels, LocLabels, DriverLabels, RideLabels
<1>1. ASSUME NEW d \in Drivers, PendingBegin(p, d) PROVE TypeInv'
  <2>1. [NoLocals EXCEPT !.driver = d, !.ride = index[d]] \in Locals
    BY <1>1 DEF Locals, Wants, PendingBegin, At
  <2>2. TypeOK'
    BY <1>1, <2>1 DEF PendingBegin, Begin, locks, offerFrame, Goto, At, book
  <2>3. ArgsOK'
    BY <1>1, <2>1 DEF Locals, PendingBegin, Begin, locks, offerFrame, Goto, At, book
  <2> QED BY <2>2, <2>3
<1>2. ASSUME PendingReadOffer(p) PROVE TypeInv'
  BY ZenonT(60), <1>2 DEF PendingReadOffer, At, Finish, HasOffer, NoAnswer, locks, offerFrame,
       Goto, NoOffer, book
<1>3. ASSUME NEW d \in Drivers, AcceptBegin(p, d) PROVE TypeInv'
  <2>1. [NoLocals EXCEPT !.driver = d, !.ride = inbox[d].ride, !.token = inbox[d].token] \in Locals
    BY <1>3 DEF Locals, Wants, AcceptBegin, At
  <2>2. TypeOK'
    BY <1>3, <2>1 DEF AcceptBegin, Begin, locks, offerFrame, Goto, At, book
  <2>3. ArgsOK'
    BY <1>3, <2>1 DEF Locals, AcceptBegin, Begin, locks, offerFrame, Goto, At, book
  <2> QED BY <2>2, <2>3
<1>4. ASSUME AcceptReadOffer(p) PROVE TypeInv'
  <2>1. [lv[p] EXCEPT !.token = None] \in Locals
    BY ZenonT(60), <1>4 DEF Locals, Wants, AcceptReadOffer, At
  <2>2. TypeOK'
    BY <1>4, <2>1 DEF AcceptReadOffer, At, Begin, locks, offerFrame, Goto, book
  <2>3. ArgsOK'
    BY <1>4, <2>1 DEF Locals, AcceptReadOffer, At, Begin, locks, offerFrame, Goto,
         book
  <2> QED BY <2>2, <2>3
<1>5. ASSUME AcceptInvalidOffer(p) PROVE TypeInv'
  BY <1>5 DEF AcceptInvalidOffer, At, Finish, locks, offerFrame, Goto, book
<1>6. ASSUME AcceptLockRide(p) PROVE TypeInv'
  <2>1. [lv[p] EXCEPT !.drv = rdriver[lv[p].ride]] \in Locals
    BY ZenonT(60), <1>6 DEF Locals, Wants, AcceptLockRide, At
  <2>2. TypeOK'
    BY <1>6, <2>1 DEF AcceptLockRide, At, Begin, LockRide, offerFrame, Goto, book
  <2>3. ArgsOK'
    BY <1>6, <2>1 DEF Locals, AcceptLockRide, At, Begin, LockRide, offerFrame, Goto,
         book
  <2> QED BY <2>2, <2>3
<1>7. ASSUME AcceptLockDriver(p) PROVE TypeInv'
  <2>1. [lv[p] EXCEPT !.dst = dstatus[lv[p].driver]] \in Locals
    BY ZenonT(60), <1>7 DEF Locals, Wants, AcceptLockDriver, At
  <2>2. TypeOK'
    BY <1>7, <2>1 DEF AcceptLockDriver, At, Begin, LockDriver, offerFrame, Goto,
         book
  <2>3. ArgsOK'
    BY <1>7, <2>1 DEF Locals, AcceptLockDriver, At, Begin, LockDriver, offerFrame,
         Goto, book
  <2> QED BY <2>2, <2>3
<1>8. ASSUME AcceptRefused(p) PROVE TypeInv'
  BY <1>8 DEF AcceptRefused, At, Finish, ReleaseLocks, offerFrame, Goto, book
<1>9. ASSUME AcceptCommit(p) PROVE TypeInv'
  <2>1. [NoLocals EXCEPT !.ride = lv[p].ride, !.driver = lv[p].driver] \in Locals
    BY <1>9 DEF Locals, Wants, AcceptCommit, At
  <2>2. TypeOK'
    BY <1>9, <2>1 DEF AcceptCommit, At, Begin, ReleaseLocks, offerFrame, Goto, book,
         RideStatus, TripStatus, DriverStatus
  <2>3. ArgsOK'
    BY <1>9, <2>1 DEF Locals, AcceptCommit, At, Begin, ReleaseLocks, offerFrame,
         Goto, book, RideStatus, TripStatus, DriverStatus
  <2> QED BY <2>2, <2>3
<1>10. ASSUME AcceptClear(p) PROVE TypeInv'
  BY <1>10 DEF AcceptClear, At, ClearOffer, Finish, locks, offerFrame, NoOffer, Goto,
       book
<1>11. ASSUME NEW d \in Drivers, RejectBegin(p, d) PROVE TypeInv'
  <2>1. [NoLocals EXCEPT !.driver = d, !.ride = inbox[d].ride] \in Locals
    BY <1>11 DEF Locals, Wants, RejectBegin, At
  <2>2. TypeOK'
    BY <1>11, <2>1 DEF RejectBegin, Begin, locks, offerFrame, Goto, At, book
  <2>3. ArgsOK'
    BY <1>11, <2>1 DEF Locals, RejectBegin, Begin, locks, offerFrame, Goto, At, book
  <2> QED BY <2>2, <2>3
<1>12. ASSUME RejectReadOffer(p) PROVE TypeInv'
  <2>1. CASE HasOffer(lv[p].ride)
    <3>1. TypeOK'
      BY <1>12, <2>1 DEF RejectReadOffer, At, Finish, Goto, locks, offerFrame,
           NoOffer, book
    <3>2. ArgsOK'
      BY <1>12, <2>1 DEF Locals, RejectReadOffer, At, Finish, Goto, locks,
           offerFrame, NoOffer, book
    <3> QED BY <3>1, <3>2
  <2>2. CASE ~(HasOffer(lv[p].ride))
    <3>1. TypeOK'
      BY ZenonT(60), <1>12, <2>2 DEF RejectReadOffer, At, Finish, Goto, locks, offerFrame,
           NoOffer, book
    <3>2. ArgsOK'
      BY SMTT(30), <1>12, <2>2 DEF Locals, RejectReadOffer, At, Finish, Goto, locks,
           offerFrame, NoOffer, book
    <3> QED BY <3>1, <3>2
  <2> QED BY <2>1, <2>2
<1>13. ASSUME RejectClear(p) PROVE TypeInv'
  BY SMTT(30), <1>13 DEF RejectClear, At, ClearOffer, Goto, locks, offerFrame, NoOffer, book
<1>14. ASSUME RejectEnqueue(p) PROVE TypeInv'
  <2>1. queue' \in [Rides -> Nat]
    <3>1. queue' = [queue EXCEPT ![lv[p].ride] = @ + 1] /\ lv[p].ride \in Rides
      BY <1>14 DEF RejectEnqueue, At, Enqueue
    <3> QED BY <3>1
  <2> QED
    BY <1>14, <2>1 DEF RejectEnqueue, At, Finish, Goto, book, locks, offerFrame
<1>15. ASSUME NEW d \in Drivers, NEW s \in DriverStatus, AvailabilityBegin(p, d, s)
      PROVE TypeInv'
  <2>1. [NoLocals EXCEPT !.driver = d, !.want = s, !.dst = dstatus[d]] \in Locals
    BY <1>15 DEF Locals, Wants, AvailabilityBegin, At
  <2>2. TypeOK'
    BY <1>15, <2>1 DEF AvailabilityBegin, AfterEnsure, Begin, driverFrame, Goto, At,
         book
  <2>3. ArgsOK'
    BY <1>15, <2>1 DEF Locals, AvailabilityBegin, AfterEnsure, Begin, driverFrame,
         Goto, At, book
  <2> QED BY <2>2, <2>3
<1>16. ASSUME AvailabilityInsert(p) PROVE TypeInv'
  <2> DEFINE d == lv[p].driver
  <2>1. d \in Drivers /\ pc[p] = "avail_insert"
    BY <1>16 DEF AvailabilityInsert, At
  <2>2. UNCHANGED <<book, rstatus, rdriver, tstatus, dstatus, rideLock, redis, inbox>>
    BY <1>16 DEF AvailabilityInsert, InsertDriver, driverFrame, redis
  <2>3. CASE dstatus[d] = NoRow
    <3>1. /\ driverLock' = [driverLock EXCEPT ![d] = p]
          /\ pc' = [pc EXCEPT ![p] = AfterEnsure(lv[p].want)]
          /\ lv' = [lv EXCEPT ![p] = [lv[p] EXCEPT !.dst = "offline"]]
      BY <1>16, <2>3 DEF AvailabilityInsert, InsertDriver, LockDriver, Begin, Goto
    <3>2. [lv[p] EXCEPT !.dst = "offline"] \in Locals
      BY ZenonT(60) DEF Locals, DriverStatus
    <3>3. AfterEnsure(lv[p].want) \in {"avail_georem", "avail_commit", "loc_throttle"}
      BY DEF AfterEnsure
    <3>4. TypeOK'
      BY <2>1, <2>2, <3>1, <3>2, <3>3 DEF book, redis
    <3>5. ArgsOK'
      BY <2>1, <3>1, <3>3 DEF Locals, AfterEnsure
    <3> QED BY <3>4, <3>5
  <2>4. CASE dstatus[d] # NoRow
    <3>1. /\ UNCHANGED driverLock
          /\ pc' = [pc EXCEPT ![p] = "idle"]
          /\ lv' = [lv EXCEPT ![p] = NoLocals]
      BY <1>16, <2>4 DEF AvailabilityInsert, InsertDriver, Finish, Goto
    <3>2. TypeOK'
      BY <2>2, <3>1 DEF book, redis
    <3>3. ArgsOK'
      BY <3>1
    <3> QED BY <3>2, <3>3
  <2> QED BY <2>3, <2>4
<1>17. ASSUME AvailabilityGeoRem(p) PROVE TypeInv'
  BY <1>17 DEF AvailabilityGeoRem, At, Goto, driverFrame, book
<1>18. ASSUME AvailabilityCommit(p) PROVE TypeInv'
  BY <1>18 DEF AvailabilityCommit, At, Finish, driverFrame, Goto, book
<1>19. ASSUME NEW d \in Drivers, LocationBegin(p, d) PROVE TypeInv'
  <2>1. [NoLocals EXCEPT !.driver = d, !.dst = dstatus[d]] \in Locals
    BY <1>19 DEF Locals, Wants, LocationBegin, At
  <2>2. TypeOK'
    BY <1>19, <2>1 DEF LocationBegin, AfterLoad, Begin, driverFrame, Goto, At, book
  <2>3. ArgsOK'
    BY <1>19, <2>1 DEF Locals, LocationBegin, AfterLoad, Begin, driverFrame, Goto,
         At, book
  <2> QED BY <2>2, <2>3
<1>20. ASSUME LocationInsert(p) PROVE TypeInv'
  <2> DEFINE d == lv[p].driver
  <2>1. d \in Drivers /\ pc[p] = "loc_insert"
    BY <1>20 DEF LocationInsert, At
  <2>2. UNCHANGED <<book, rstatus, rdriver, tstatus, dstatus, rideLock, redis, inbox>>
    BY <1>20 DEF LocationInsert, InsertDriver, driverFrame, redis
  <2>3. CASE dstatus[d] = NoRow
    <3>1. /\ driverLock' = [driverLock EXCEPT ![d] = p]
          /\ pc' = [pc EXCEPT ![p] = "loc_throttle"]
          /\ lv' = [lv EXCEPT ![p] = [lv[p] EXCEPT !.dst = "offline"]]
      BY <1>20, <2>3 DEF LocationInsert, InsertDriver, LockDriver, Begin, Goto
    <3>2. [lv[p] EXCEPT !.dst = "offline"] \in Locals
      BY ZenonT(60) DEF Locals, DriverStatus
    <3>4. TypeOK'
      BY <2>1, <2>2, <3>1, <3>2 DEF book, redis
    <3>5. ArgsOK'
      BY <2>1, <3>1 DEF Locals
    <3> QED BY <3>4, <3>5
  <2>4. CASE dstatus[d] # NoRow
    <3>1. /\ UNCHANGED driverLock
          /\ pc' = [pc EXCEPT ![p] = "idle"]
          /\ lv' = [lv EXCEPT ![p] = NoLocals]
      BY <1>20, <2>4 DEF LocationInsert, InsertDriver, Finish, Goto
    <3>2. TypeOK'
      BY <2>2, <3>1 DEF book, redis
    <3>3. ArgsOK'
      BY <3>1
    <3> QED BY <3>2, <3>3
  <2> QED BY <2>3, <2>4
<1>21. ASSUME LocationGeoAdd(p) PROVE TypeInv'
  BY <1>21 DEF LocationGeoAdd, At, Goto, driverFrame, book
<1>22. ASSUME LocationThrottle(p) PROVE TypeInv'
  <2> DEFINE d == lv[p].driver
  <2>1. d \in Drivers /\ pc[p] = "loc_throttle"
    BY <1>22 DEF LocationThrottle, At
  <2>2. /\ throttle' = throttle \cup {d}
        /\ UNCHANGED <<book, rstatus, rdriver, tstatus, dstatus, rideLock, offer, index,
                       geo, assignLock, queue, inbox>>
    BY <1>22 DEF LocationThrottle, driverFrame
  <2>3. /\ pc' \in {[pc EXCEPT ![p] = "idle"], [pc EXCEPT ![p] = "loc_commit"]}
        /\ lv' \in {lv, [lv EXCEPT ![p] = NoLocals]}
        /\ pc' = [pc EXCEPT ![p] = "loc_commit"] => lv' = lv
    BY <1>22 DEF LocationThrottle, Finish, Goto
  <2>4. driverLock' \in [Drivers -> OrNone(Procs)]
    <3>1. driverLock' = driverLock
            \/ driverLock' = [driverLock EXCEPT ![d] = IF @ = p THEN None ELSE @]
      BY <1>22 DEF LocationThrottle
    <3>2. (IF driverLock[d] = p THEN None ELSE driverLock[d]) \in OrNone(Procs)
      BY <2>1
    <3> QED BY <3>1, <3>2
  <2>5. TypeOK'
    <3>1. pc' \in [Procs -> Labels]
      <4>1. [pc EXCEPT ![p] = "idle"] \in [Procs -> Labels]
        OBVIOUS
      <4>2. [pc EXCEPT ![p] = "loc_commit"] \in [Procs -> Labels]
        OBVIOUS
      <4> QED BY <2>3, <4>1, <4>2
    <3>2. lv' \in [Procs -> Locals]
      <4>1. [lv EXCEPT ![p] = NoLocals] \in [Procs -> Locals]
        OBVIOUS
      <4> QED BY <2>3, <4>1
    <3>3. throttle' \subseteq Drivers
      BY <2>1, <2>2
    <3> QED BY <2>2, <2>4, <3>1, <3>2, <3>3 DEF book
  <2>6. ArgsOK'
    BY <2>1, <2>3
  <2> QED BY <2>5, <2>6
<1>23. ASSUME LocationCommit(p) PROVE TypeInv'
  BY <1>23 DEF LocationCommit, At, Finish, driverFrame, Goto, book, DriverStatus
<1> QED BY <1>1, <1>2, <1>3, <1>4, <1>5, <1>6, <1>7, <1>8, <1>9, <1>10, <1>11, <1>12,
     <1>13, <1>14, <1>15, <1>16, <1>17, <1>18, <1>19, <1>20, <1>21, <1>22, <1>23 DEF DriverStep, DriverCall

------------------------------------------------------------------------------
(* Every step of the trip endpoints keeps TypeInv. *)
LEMMA TripServiceTypes ==
  ASSUME TypeInv, NEW p \in Handlers, TripStep(p) \/ TripCall(p)
  PROVE  TypeInv'
<1> p \in Procs BY DEF Procs
<1> USE NoLocalsType DEF TypeInv, TypeOK, ArgsOK, OrNone, Labels, CreateLabels,
          AvailLabels, LocLabels, DriverLabels, RideLabels
<1>1. ASSUME NEW op \in TripOps, NEW r \in Rides, TripBegin(p, op, r) PROVE TypeInv'
  <2>1. [NoLocals EXCEPT !.ride = r, !.want = op, !.tst = tstatus[r]] \in Locals
    BY <1>1 DEF Locals, Wants, TripBegin, At
  <2>2. TypeOK'
    BY <1>1, <2>1 DEF TripBegin, Begin, locks, tripFrame, Goto, At, book, redis,
         TripOps
  <2>3. ArgsOK'
    BY <1>1, <2>1 DEF Locals, TripBegin, Begin, locks, tripFrame, Goto, At, book,
         redis, TripOps
  <2> QED BY <2>2, <2>3
<1>2. ASSUME TripLoadRide(p) PROVE TypeInv'
  <2> DEFINE d == IF lv[p].want = "end" THEN rdriver[lv[p].ride] ELSE None
  <2>1. d \in OrNone(Drivers)
    BY <1>2 DEF Locals, Wants, TripOps, TripLoadRide, At
  <2> HIDE DEF d
  <2>2. [lv[p] EXCEPT !.rst = rstatus[lv[p].ride], !.drv = d] \in Locals
    BY ZenonT(60), <1>2, <2>1 DEF Locals, Wants, TripLoadRide, At
  <2> USE DEF d
  <2>3. TypeOK'
    BY <1>2, <2>2 DEF TripLoadRide, AfterCheck, At, Begin, locks, tripFrame, Goto,
         book, redis, TripOps
  <2>4. ArgsOK'
    BY <1>2, <2>2 DEF Locals, TripLoadRide, AfterCheck, At, Begin, locks, tripFrame,
         Goto, book, redis, TripOps
  <2> QED BY <2>3, <2>4
<1>3. ASSUME TripRefused(p) PROVE TypeInv'
  BY <1>3 DEF TripRefused, At, Finish, locks, tripFrame, Goto, book, redis
<1>4. ASSUME TripCommit(p) PROVE TypeInv'
  BY <1>4 DEF TripCommit, At, Finish, locks, tripFrame, Goto, book, redis,
       RideStatus, TripStatus
<1>5. ASSUME PauseCommit(p) PROVE TypeInv'
  BY <1>5 DEF PauseCommit, At, Finish, locks, tripFrame, Goto, book, redis,
       TripStatus
<1>6. ASSUME EndLoadDriver(p) PROVE TypeInv'
  <2>1. [lv[p] EXCEPT !.dst = dstatus[lv[p].drv]] \in Locals
    BY ZenonT(60), <1>6 DEF Locals, Wants, EndLoadDriver, At
  <2>2. TypeOK'
    BY <1>6, <2>1 DEF EndLoadDriver, At, Begin, locks, tripFrame, Goto, book, redis
  <2>3. ArgsOK'
    BY <1>6, <2>1 DEF Locals, EndLoadDriver, At, Begin, locks, tripFrame, Goto, book,
         redis
  <2> QED BY <2>2, <2>3
<1>7. ASSUME EndLockDriver(p) PROVE TypeInv'
  BY <1>7 DEF EndLockDriver, At, Goto, LockDriver, tripFrame, book, redis
<1>8. ASSUME EndCommit(p) PROVE TypeInv'
  BY <1>8 DEF EndCommit, At, Finish, ReleaseLocks, tripFrame, Goto, book, redis,
       RideStatus, TripStatus, DriverStatus
<1> QED BY <1>1, <1>2, <1>3, <1>4, <1>5, <1>6, <1>7, <1>8 DEF TripStep, TripCall

------------------------------------------------------------------------------
(* Every step of match_ride keeps TypeInv. *)
LEMMA MatchWorkerTypes ==
  ASSUME TypeInv, NEW p \in Workers, MatchStep(p) \/ MatchCall(p)
  PROVE  TypeInv'
<1> p \in Procs BY DEF Procs
<1> USE NoLocalsType DEF TypeInv, TypeOK, ArgsOK, OrNone, Labels, CreateLabels,
          AvailLabels, LocLabels, DriverLabels, RideLabels
<1>1. ASSUME NEW r \in Rides, MatchTake(p, r) PROVE TypeInv'
  <2>1. [NoLocals EXCEPT !.ride = r] \in Locals
    BY <1>1 DEF Locals, Wants, MatchTake, At
  <2>2. TypeOK'
    BY <1>1, <2>1 DEF MatchTake, Begin, matchFrame, Goto, At, book
  <2>3. ArgsOK'
    BY <1>1, <2>1 DEF Locals, MatchTake, Begin, matchFrame, Goto, At, book
  <2> QED BY <2>2, <2>3
<1>2. ASSUME MatchLockRide(p) PROVE TypeInv'
  BY <1>2 DEF MatchLockRide, At, Goto, LockRide, matchFrame, book
<1>3. ASSUME MatchNotWanted(p) PROVE TypeInv'
  BY <1>3 DEF MatchNotWanted, At, Finish, matchFrame, Goto, book
<1>4. ASSUME NEW near \in SUBSET Drivers, MatchGeoSearch(p, near) PROVE TypeInv'
  <2>1. [lv[p] EXCEPT !.near = near] \in Locals
    BY ZenonT(60), <1>4 DEF Locals, Wants, MatchGeoSearch, At
  <2>2. TypeOK'
    BY <1>4, <2>1 DEF MatchGeoSearch, At, Begin, matchFrame, Goto, book
  <2>3. ArgsOK'
    BY <1>4, <2>1 DEF Locals, MatchGeoSearch, At, Begin, matchFrame, Goto, book
  <2> QED BY <2>2, <2>3
<1>5. ASSUME MatchNoCandidates(p) PROVE TypeInv'
  BY <1>5 DEF MatchNoCandidates, At, MatchReturn, matchFrame, Finish, book, Goto
<1>6. ASSUME NEW d \in Drivers, MatchChoose(p, d) PROVE TypeInv'
  <2>1. [lv[p] EXCEPT !.driver = d, !.near = {}] \in Locals
    BY ZenonT(60), <1>6 DEF Locals, Wants, MatchChoose, At
  <2>2. TypeOK'
    BY <1>6, <2>1 DEF MatchChoose, At, Begin, matchFrame, Goto, book
  <2>3. ArgsOK'
    BY <1>6, <2>1 DEF Locals, MatchChoose, At, Begin, matchFrame, Goto, book
  <2> QED BY <2>2, <2>3
<1>7. ASSUME MatchNoneOnline(p) PROVE TypeInv'
  BY <1>7 DEF MatchNoneOnline, At, MatchReturn, matchFrame, Finish, book, Goto
<1>8. ASSUME MatchAssignLock(p) PROVE TypeInv'
  BY <1>8 DEF MatchAssignLock, At, Goto, matchFrame, book
<1>9. ASSUME MatchAssignBusy(p) PROVE TypeInv'
  BY <1>9 DEF MatchAssignBusy, At, MatchReturn, matchFrame, Finish, book, Goto
<1>10. ASSUME NEW t \in Tokens, MatchStore(p, t) PROVE TypeInv'
  BY <1>10 DEF MatchStore, At, Goto, StoreOffer, matchFrame, book
<1>11. ASSUME MatchRelease(p) PROVE TypeInv'
  BY <1>11 DEF MatchRelease, At, MatchReturn, matchFrame, Finish, book, Goto
<1> QED BY <1>1, <1>2, <1>3, <1>4, <1>5, <1>6, <1>7, <1>8, <1>9, <1>10, <1>11 DEF MatchStep, MatchCall

------------------------------------------------------------------------------
(* The stores' own steps, and the early end of a call, keep TypeInv. *)
LEMMA EnvironmentTypes ==
  ASSUME TypeInv, Environment
  PROVE  TypeInv'
<1> USE NoLocalsType DEF TypeInv, TypeOK, ArgsOK, OrNone, Labels, CreateLabels,
          AvailLabels, LocLabels, DriverLabels, RideLabels
<1>1. ASSUME NEW r \in Rides, OfferExpires(r) PROVE TypeInv'
  <2>1. offer[r].driver \in Drivers \cup {None}
    BY <1>1
  <2>2. index' \in [Drivers -> Rides \cup {None}]
    BY <1>1, <2>1 DEF OfferExpires
  <2> QED BY <1>1, <2>2 DEF OfferExpires, NoOffer, book, locks
<1>2. ASSUME NEW r \in Rides, AssignLockExpires(r) PROVE TypeInv'
  BY <1>2 DEF AssignLockExpires, book, locks
<1>3. ASSUME NEW d \in Drivers, IndexExpires(d) PROVE TypeInv'
  BY <1>3 DEF IndexExpires, book, locks
<1>4. ASSUME NEW d \in Drivers, ThrottleExpires(d) PROVE TypeInv'
  BY <1>4 DEF ThrottleExpires, book, locks
<1>5. ASSUME NEW p \in Procs, Abandon(p) PROVE TypeInv'
  BY <1>5 DEF Abandon, Finish, Goto, ReleaseLocks, book, redis
<1> QED
  BY <1>1, <1>2, <1>3, <1>4, <1>5 DEF Environment, Fail, DeadlockVictim

(* The initial state is well typed. *)
LEMMA InitTypes == Init => TypeInv
  BY NoLocalsType, ConstantsAssumption
     DEF Init, TypeInv, TypeOK, ArgsOK, OrNone, Labels, CreateLabels, AvailLabels,
         LocLabels, DriverLabels, RideLabels, NoOffer, NoAnswer, NoRow, DriverStatus,
         RideStatus, TripStatus

(* Every step of the system keeps TypeInv. *)
LEMMA NextTypes == TypeInv /\ [Next]_vars => TypeInv'
<1> SUFFICES ASSUME TypeInv, [Next]_vars PROVE TypeInv'
  OBVIOUS
<1>1. CASE Environment
  BY <1>1, EnvironmentTypes
<1>2. ASSUME NEW p \in Handlers, Call(p) PROVE TypeInv'
  BY <1>2, RideServiceTypes, DriverServiceTypes, TripServiceTypes DEF Call
<1>3. ASSUME NEW w \in Workers, MatchCall(w) PROVE TypeInv'
  BY <1>3, MatchWorkerTypes
<1>4. ASSUME NEW p \in Procs, Step(p) PROVE TypeInv'
  BY <1>4, RideServiceTypes, DriverServiceTypes, TripServiceTypes, MatchWorkerTypes
     DEF Step, Procs
<1>5. CASE UNCHANGED vars
  BY <1>5 DEF vars, book, locks, redis, TypeInv, TypeOK, ArgsOK
<1> QED BY <1>1, <1>2, <1>3, <1>4, <1>5 DEF Next

(* Type correctness, with what each step knows of its own locals. *)
THEOREM TypesAndArguments == Spec => []TypeInv
  BY InitTypes, NextTypes, PTL DEF Spec

(* Every variable of the stores and of the slots keeps to its domain. *)
THEOREM TypeCorrect == Spec => []TypeOK
<1>1. TypeInv => TypeOK
  BY DEF TypeInv
<1> QED BY <1>1, TypesAndArguments, PTL
==============================================================================
