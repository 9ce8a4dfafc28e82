---------------------------- MODULE CometLocks ------------------------------
(***************************************************************************)
(* What the row locks guarantee, for any number of slots: nobody keeps one *)
(* past its transaction, and what a slot read under a lock is still so     *)
(* when it writes.  Hence accepting an offer implements Assignment.        *)
(***************************************************************************)
EXTENDS CometTypes

(* LocksHeldInside, the other way round: who is past the step that takes a *)
(* lock has it.                                                            *)
LocksHeld ==
  \A p \in Procs :
    /\ pc[p] \in HoldsRide => rideLock[lv[p].ride] = p
    /\ pc[p] = "accept_commit" => driverLock[lv[p].driver] = p
    /\ pc[p] = "end_commit" /\ lv[p].dst # "online" => driverLock[lv[p].drv] = p

(* What was read under a lock is what the row holds: the ride's driver and *)
(* the driver's status in accept, the missing row in location.             *)
ReadsHold ==
  \A p \in Procs :
    /\ pc[p] \in {"accept_driver", "accept_commit"} => lv[p].drv = rdriver[lv[p].ride]
    /\ pc[p] = "accept_commit" => lv[p].dst = dstatus[lv[p].driver]
    /\ pc[p] \in {"loc_throttle", "loc_commit"} /\ driverLock[lv[p].driver] = p
         => lv[p].dst = "offline" /\ dstatus[lv[p].driver] = NoRow

LockInv == LocksHeldInside /\ LocksHeld /\ ReadsHold

(* What the proofs below use of the types. *)
SlotOK ==
  /\ pc \in [Procs -> Labels] /\ lv \in [Procs -> Locals]
  /\ rideLock \in [Rides -> Procs \cup {None}]
  /\ driverLock \in [Drivers -> Procs \cup {None}]
  /\ rdriver \in [Rides -> Drivers \cup {None}]
  /\ dstatus \in [Drivers -> DriverStatus \cup {NoRow}]
  /\ None \notin Procs
  /\ \A p \in Procs :
       /\ pc[p] \in RideLabels => lv[p].ride \in Rides
       /\ pc[p] \in DriverLabels => lv[p].driver \in Drivers
       /\ pc[p] \in {"end_lock", "end_commit"} => lv[p].drv \in Drivers
       /\ pc[p] = "trip_ride" => lv[p].want \in TripOps

LEMMA SlotFacts == TypeInv => SlotOK
  BY ConstantsAssumption DEF TypeInv, TypeOK, ArgsOK, OrNone, SlotOK

(* The labels at which a slot names the rows it may have locked. *)
LEMMA LabelFacts ==
  /\ HoldsRide \subseteq RideLabels
  /\ HoldsDriver \cup {"loc_throttle", "loc_commit"} \subseteq DriverLabels
  /\ "accept_commit" \in HoldsRide \cap HoldsDriver /\ "accept_driver" \in HoldsRide
  BY DEF HoldsRide, HoldsDriver, RideLabels, DriverLabels, Labels, AvailLabels, LocLabels

Holding == HoldsRide \cup HoldsDriver \cup {"end_commit"}

(* Nobody but p moves. *)
Alone(p) == \A q \in Procs \ {p} : pc'[q] = pc[q] /\ lv'[q] = lv[q]

(* Each step of a slot is one of four kinds.  Free: it has no lock and      *)
(* takes none.                                                             *)
Free(p) ==
  /\ Alone(p) /\ UNCHANGED <<rideLock, driverLock, rdriver, dstatus>>
  /\ pc[p] \notin Holding
  /\ pc'[p] \notin HoldsRide
  /\ pc'[p] = "end_commit" => lv'[p].dst = "online"

LEMMA FreeStep ==
  ASSUME SlotOK, SlotOK', LockInv, NEW p \in Procs, Free(p)
  PROVE  LockInv'
<1> USE LabelFacts DEF SlotOK, LockInv, Free, Alone
<1>1. \A r \in Rides : rideLock[r] # p
  BY DEF LocksHeldInside, Holding
<1>2. \A d \in Drivers : driverLock[d] # p
  BY DEF LocksHeldInside, Holding
<1>3. LocksHeldInside'
  BY <1>1, <1>2 DEF LocksHeldInside
<1>4. LocksHeld'
  BY DEF LocksHeld, HoldsRide
<1>5. ReadsHold'
  BY <1>2 DEF ReadsHold
<1> QED BY <1>3, <1>4, <1>5

(* Ending: it releases every lock it has, and wrote no row but those it had *)
(* locked, or could lock (the single UPDATE of the flush).                 *)
Ending(p) ==
  /\ Alone(p) /\ ReleaseLocks(p)
  /\ pc'[p] \in {"idle", "accept_clear"}
  /\ rdriver' \in [Rides -> Drivers \cup {None}]
  /\ \A r \in Rides : rdriver'[r] # rdriver[r] => rideLock[r] = p
  /\ \A d \in Drivers : dstatus'[d] # dstatus[d] => driverLock[d] \in {p, None}

LEMMA EndingStep ==
  ASSUME SlotOK, SlotOK', LockInv, NEW p \in Procs, Ending(p)
  PROVE  LockInv'
<1> USE LabelFacts DEF SlotOK, LockInv, Ending, Alone, ReleaseLocks
<1>1. LocksHeldInside'
  BY DEF LocksHeldInside
<1>2. LocksHeld'
  BY DEF LocksHeld, HoldsRide
<1>3. ReadsHold'
  <2>1. \A q \in Procs \ {p} : pc[q] \in {"accept_driver", "accept_commit"} =>
          lv[q].drv = rdriver'[lv[q].ride]
    BY DEF ReadsHold, LocksHeld
  <2>2. \A q \in Procs \ {p} : pc[q] = "accept_commit" =>
          lv[q].dst = dstatus'[lv[q].driver]
    BY DEF ReadsHold, LocksHeld
  <2>3. \A q \in Procs \ {p} :
          pc[q] \in {"loc_throttle", "loc_commit"} /\ driverLock'[lv[q].driver] = q
          => lv[q].dst = "offline" /\ dstatus'[lv[q].driver] = NoRow
    BY DEF ReadsHold
  <2> QED BY <2>1, <2>2, <2>3 DEF ReadsHold
<1> QED BY <1>1, <1>2, <1>3

(* Inside: it goes on with the locks it has. *)
Inside(p) ==
  /\ Alone(p) /\ UNCHANGED <<rideLock, driverLock, rdriver, dstatus>>
  /\ lv'[p].ride = lv[p].ride
  /\ \/ pc[p] \in {"match_geo", "match_rank", "match_setnx", "match_store"}
        /\ pc'[p] \in {"match_geo", "match_rank", "match_setnx", "match_store",
                       "match_release"}
     \/ /\ pc[p] \in {"avail_georem", "loc_throttle"}
        /\ pc'[p] = IF pc[p] = "avail_georem" THEN "avail_commit" ELSE "loc_commit"
        /\ lv'[p] = lv[p]

LEMMA InsideStep ==
  ASSUME SlotOK, SlotOK', LockInv, NEW p \in Procs, Inside(p)
  PROVE  LockInv'
<1> USE LabelFacts DEF SlotOK, LockInv, Inside, Alone
<1>1. LocksHeldInside'
  BY DEF LocksHeldInside, HoldsRide, HoldsDriver
<1>2. LocksHeld'
  BY DEF LocksHeld, HoldsRide
<1>3. ReadsHold'
  BY DEF ReadsHold
<1> QED BY <1>1, <1>2, <1>3

(* The end of a task releases the one lock it has. *)
LEMMA MatchReturnReleases ==
  ASSUME SlotOK, LockInv, NEW p \in Procs,
         pc[p] \in {"match_geo", "match_rank", "match_setnx", "match_release"},
         MatchReturn(p), driverLock' = driverLock
  PROVE  ReleaseLocks(p)
<1> USE LabelFacts DEF SlotOK, LockInv
<1>1. lv[p].ride \in Rides /\ rideLock[lv[p].ride] = p
  BY DEF LocksHeld, HoldsRide
<1>2. \A r \in Rides : rideLock[r] = p => r = lv[p].ride
  BY DEF LocksHeldInside
<1>3. \A d \in Drivers : driverLock[d] # p
  BY DEF LocksHeldInside, HoldsDriver
<1>4. rideLock' = [rideLock EXCEPT ![lv[p].ride] = None]
  BY DEF MatchReturn
<1>5. rideLock' = [r \in Rides |-> IF rideLock[r] = p THEN None ELSE rideLock[r]]
  BY <1>1, <1>2, <1>4
<1>6. driverLock' = [d \in Drivers |-> IF driverLock[d] = p THEN None ELSE driverLock[d]]
  BY <1>3
<1> QED BY <1>5, <1>6 DEF ReleaseLocks

------------------------------------------------------------------------------
(* create_ride and cancel_ride take no row lock across a step. *)
LEMMA RideServiceLocks ==
  ASSUME SlotOK, SlotOK', LockInv, NEW p \in Handlers, RideStep(p) \/ RideCall(p)
  PROVE  LockInv'
<1> p \in Procs BY DEF Procs
<1> USE LabelFacts DEF SlotOK
<1>1. ASSUME NEW u \in Riders, NEW k \in OrNone(Keys), NEW r \in Rides, CreateBegin(p, u, k, r) PROVE Free(p)
  BY <1>1, NoLocalsType DEF Free, Alone, Holding, HoldsRide, HoldsDriver, Locals,
       CreateBegin, Begin, MayBegin, book, rideFrame, Goto, At, locks
<1>2. ASSUME CreateReplay(p) PROVE Free(p)
  BY <1>2 DEF Free, Alone, Holding, HoldsRide, HoldsDriver, CreateReplay, At,
       Finish, book, rideFrame, Goto, locks
<1>3. ASSUME CreateNoReplay(p) PROVE Free(p)
  BY <1>3 DEF Free, Alone, Holding, HoldsRide, HoldsDriver, CreateNoReplay, At,
       Goto, book, rideFrame, locks
<1>4. ASSUME CreateConflict(p) PROVE Free(p)
  BY <1>4 DEF Free, Alone, Holding, HoldsRide, HoldsDriver, CreateConflict, At,
       Finish, book, rideFrame, Goto, locks
<1>5. ASSUME CreateNoConflict(p) PROVE Free(p)
  BY <1>5 DEF Free, Alone, Holding, HoldsRide, HoldsDriver, CreateNoConflict, At,
       Goto, book, rideFrame, locks
<1>6. ASSUME CreateEnsureRider(p) PROVE Free(p)
  BY <1>6 DEF Free, Alone, Holding, HoldsRide, HoldsDriver, CreateEnsureRider, At,
       Begin, book, rideFrame, Goto, locks
<1>7. ASSUME CreateCommit(p) PROVE Free(p)
  BY <1>7 DEF Free, Alone, Holding, HoldsRide, HoldsDriver, CreateCommit, At, Goto,
       rideFrame, locks
<1>8. ASSUME CreateIntegrityError(p) PROVE Free(p)
  BY <1>8 DEF Free, Alone, Holding, HoldsRide, HoldsDriver, CreateIntegrityError,
       At, Finish, book, rideFrame, Goto, locks
<1>9. ASSUME CreateEnqueue(p) PROVE Free(p)
  BY <1>9 DEF Free, Alone, Holding, HoldsRide, HoldsDriver, CreateEnqueue, At,
       Finish, book, rideFrame, Goto, locks
<1>10. ASSUME NEW r \in Rides, CancelBegin(p, r) PROVE Free(p)
  BY <1>10, NoLocalsType DEF Free, Alone, Holding, HoldsRide, HoldsDriver, Locals,
       CancelBegin, Begin, MayBegin, book, rideFrame, Goto, At, locks
<1>11. ASSUME CancelLoadTrip(p) PROVE Free(p)
  BY <1>11 DEF Free, Alone, Holding, HoldsRide, HoldsDriver, CancelLoadTrip, At,
       Begin, book, rideFrame, Goto, locks
<1>12. ASSUME CancelReadOffer(p) PROVE Free(p)
  BY <1>12 DEF Free, Alone, Holding, HoldsRide, HoldsDriver, CancelReadOffer, At,
       Begin, book, rideFrame, Goto, locks
<1>13. ASSUME CancelClear(p) PROVE Free(p)
  BY <1>13 DEF Free, Alone, Holding, HoldsRide, HoldsDriver, CancelClear, At, Goto,
       book, rideFrame, locks
<1>14. ASSUME CancelRefused(p) PROVE Free(p)
  BY <1>14 DEF Free, Alone, Holding, HoldsRide, HoldsDriver, CancelRefused, At,
       Finish, book, rideFrame, Goto, locks
<1>15. ASSUME CancelCommit(p) PROVE Free(p)
  BY <1>15 DEF Free, Alone, Holding, HoldsRide, HoldsDriver, CancelCommit, At,
       Finish, book, rideFrame, Goto, locks
<1> QED BY <1>1, <1>2, <1>3, <1>4, <1>5, <1>6, <1>7, <1>8, <1>9, <1>10, <1>11,
     <1>12, <1>13, <1>14, <1>15, FreeStep DEF RideStep, RideCall

------------------------------------------------------------------------------
(* The driver's calls keep LockInv. *)
LEMMA DriverServiceLocks ==
  ASSUME SlotOK, SlotOK', LockInv, NEW p \in Handlers, DriverStep(p) \/ DriverCall(p)
  PROVE  LockInv'
<1> p \in Procs BY DEF Procs
<1> USE LabelFacts DEF SlotOK
<1>1. ASSUME NEW d \in Drivers, PendingBegin(p, d) PROVE Free(p)
  BY <1>1, NoLocalsType DEF Free, Alone, Holding, HoldsRide, HoldsDriver, Locals,
       PendingBegin, Begin, MayBegin, locks, offerFrame, Goto, At, book
<1>2. ASSUME PendingReadOffer(p) PROVE Free(p)
  BY <1>2 DEF Free, Alone, Holding, HoldsRide, HoldsDriver, PendingReadOffer, At,
       Finish, locks, offerFrame, Goto, book
<1>3. ASSUME NEW d \in Drivers, AcceptBegin(p, d) PROVE Free(p)
  BY <1>3, NoLocalsType DEF Free, Alone, Holding, HoldsRide, HoldsDriver, Locals,
       AcceptBegin, Begin, MayBegin, locks, offerFrame, Goto, At, book
<1>4. ASSUME AcceptReadOffer(p) PROVE Free(p)
  BY <1>4 DEF Free, Alone, Holding, HoldsRide, HoldsDriver, AcceptReadOffer, At,
       Begin, locks, offerFrame, Goto, book
<1>5. ASSUME AcceptInvalidOffer(p) PROVE Free(p)
  BY <1>5 DEF Free, Alone, Holding, HoldsRide, HoldsDriver, AcceptInvalidOffer, At,
       Finish, locks, offerFrame, Goto, book
<1>6. ASSUME AcceptClear(p) PROVE Free(p)
  BY <1>6 DEF Free, Alone, Holding, HoldsRide, HoldsDriver, AcceptClear, At,
       Finish, locks, offerFrame, Goto, book
<1>7. ASSUME NEW d \in Drivers, RejectBegin(p, d) PROVE Free(p)
  BY <1>7, NoLocalsType DEF Free, Alone, Holding, HoldsRide, HoldsDriver, Locals,
       RejectBegin, Begin, MayBegin, locks, offerFrame, Goto, At, book
<1>8. ASSUME RejectReadOffer(p) PROVE Free(p)
  BY <1>8 DEF Free, Alone, Holding, HoldsRide, HoldsDriver, RejectReadOffer, At,
       Finish, Goto, locks, offerFrame, book
<1>9. ASSUME RejectClear(p) PROVE Free(p)
  BY <1>9 DEF Free, Alone, Holding, HoldsRide, HoldsDriver, RejectClear, At, Goto,
       locks, offerFrame, book
<1>10. ASSUME RejectEnqueue(p) PROVE Free(p)
  BY <1>10 DEF Free, Alone, Holding, HoldsRide, HoldsDriver, RejectEnqueue, At,
       Finish, locks, offerFrame, Goto, book
<1>11. ASSUME NEW d \in Drivers, NEW s \in DriverStatus, AvailabilityBegin(p, d, s) PROVE Free(p)
  BY <1>11, NoLocalsType DEF Free, Alone, Holding, HoldsRide, HoldsDriver,
       AfterEnsure, Locals, AvailabilityBegin, AfterEnsure, Begin, MayBegin,
       driverFrame, Goto, At, book
<1>12. ASSUME NEW d \in Drivers, LocationBegin(p, d) PROVE Free(p)
  BY <1>12, NoLocalsType DEF Free, Alone, Holding, HoldsRide, HoldsDriver, Locals,
       LocationBegin, AfterLoad, Begin, MayBegin, driverFrame, Goto, At, book
<1>13. ASSUME LocationGeoAdd(p) PROVE Free(p)
  BY <1>13 DEF Free, Alone, Holding, HoldsRide, HoldsDriver, LocationGeoAdd, At,
       Goto, driverFrame, book
<1>14. ASSUME AvailabilityGeoRem(p) PROVE Inside(p)
  BY <1>14 DEF Inside, Alone, Holding, HoldsRide, HoldsDriver, Locals,
       AvailabilityGeoRem, At, Goto, driverFrame, book
<1>15. ASSUME AcceptRefused(p) PROVE Ending(p)
  BY <1>15 DEF Ending, Alone, Holding, HoldsRide, HoldsDriver, LockInv,
       LocksHeldInside, LocksHeld, ReadsHold, AcceptRefused, AcceptAllowed, At,
       Finish, ReleaseLocks, offerFrame, Goto, book
<1>16. ASSUME AcceptCommit(p) PROVE Ending(p)
  BY <1>16 DEF Ending, Alone, Holding, HoldsRide, HoldsDriver, LockInv,
       LocksHeldInside, LocksHeld, ReadsHold, AcceptCommit, AcceptAllowed, At,
       Begin, ReleaseLocks, offerFrame, Goto, book
<1>17. ASSUME AvailabilityCommit(p) PROVE Ending(p)
  <2> DEFINE d == lv[p].driver
  <2>1. d \in Drivers /\ pc[p] \in HoldsDriver \ HoldsRide
    BY <1>17 DEF AvailabilityCommit, At, HoldsRide, HoldsDriver
  <2>2. \A r \in Rides : rideLock[r] # p
    BY <2>1 DEF LockInv, LocksHeldInside
  <2>3. \A c \in Drivers : driverLock[c] = p => c = d
    BY <2>1 DEF LockInv, LocksHeldInside, HoldsDriver
  <2>4. /\ Alone(p) /\ pc'[p] = "idle"
        /\ UNCHANGED <<rideLock, rdriver>>
        /\ dstatus' # dstatus => driverLock[d] \in {p, None}
        /\ \A c \in Drivers : c # d => dstatus'[c] = dstatus[c]
    BY <1>17, <2>1 DEF AvailabilityCommit, Alone, driverFrame, DriverFree, Finish, Goto
  <2>5. driverLock' = [c \in Drivers |-> IF driverLock[c] = p THEN None ELSE driverLock[c]]
    <3>1. CASE driverLock[d] = p
      <4>1. driverLock' = [driverLock EXCEPT ![d] = None]
        BY <1>17, <3>1 DEF AvailabilityCommit
      <4> QED BY <2>1, <2>3, <3>1, <4>1
    <3>2. CASE driverLock[d] # p
      <4>1. driverLock' = driverLock
        BY <1>17, <3>2 DEF AvailabilityCommit
      <4> QED BY <2>3, <3>2, <4>1
    <3> QED BY <3>1, <3>2
  <2>6. rideLock' = [r \in Rides |-> IF rideLock[r] = p THEN None ELSE rideLock[r]]
    BY <2>2, <2>4
  <2> QED BY <2>1, <2>4, <2>5, <2>6 DEF Ending, ReleaseLocks
<1>18. ASSUME LocationCommit(p) PROVE Ending(p)
  <2> DEFINE d == lv[p].driver
  <2>1. d \in Drivers /\ pc[p] \in HoldsDriver \ HoldsRide
    BY <1>18 DEF LocationCommit, At, HoldsRide, HoldsDriver
  <2>2. \A r \in Rides : rideLock[r] # p
    BY <2>1 DEF LockInv, LocksHeldInside
  <2>3. \A c \in Drivers : driverLock[c] = p => c = d
    BY <2>1 DEF LockInv, LocksHeldInside, HoldsDriver
  <2>4. /\ Alone(p) /\ pc'[p] = "idle"
        /\ UNCHANGED <<rideLock, rdriver>>
        /\ dstatus' # dstatus => driverLock[d] \in {p, None}
        /\ \A c \in Drivers : c # d => dstatus'[c] = dstatus[c]
    BY <1>18, <2>1 DEF LocationCommit, Alone, driverFrame, DriverFree, Finish, Goto
  <2>5. driverLock' = [c \in Drivers |-> IF driverLock[c] = p THEN None ELSE driverLock[c]]
    <3>1. CASE driverLock[d] = p
      <4>1. driverLock' = [driverLock EXCEPT ![d] = None]
        BY <1>18, <3>1 DEF LocationCommit
      <4> QED BY <2>1, <2>3, <3>1, <4>1
    <3>2. CASE driverLock[d] # p
      <4>1. driverLock' = driverLock
        BY <1>18, <3>2 DEF LocationCommit
      <4> QED BY <2>3, <3>2, <4>1
    <3> QED BY <3>1, <3>2
  <2>6. rideLock' = [r \in Rides |-> IF rideLock[r] = p THEN None ELSE rideLock[r]]
    BY <2>2, <2>4
  <2> QED BY <2>1, <2>4, <2>5, <2>6 DEF Ending, ReleaseLocks
<1>19. CASE AcceptLockRide(p)
  <2>1. LocksHeldInside'
    BY <1>19 DEF LockInv, LocksHeldInside, HoldsRide, HoldsDriver, Locals,
         AcceptLockRide, At, Begin, LockRide, offerFrame, Goto, book, RideFree,
         DriverFree
  <2>2. LocksHeld'
    BY <1>19 DEF LockInv, LocksHeld, HoldsRide, Locals, AcceptLockRide, At, Begin,
         LockRide, offerFrame, Goto, book, RideFree, DriverFree
  <2>3. ReadsHold'
    BY <1>19 DEF LockInv, ReadsHold, LocksHeldInside, HoldsDriver, Locals,
         AcceptLockRide, At, Begin, LockRide, offerFrame, Goto, book, RideFree,
         DriverFree
  <2> QED BY <2>1, <2>2, <2>3 DEF LockInv
<1>20. CASE AcceptLockDriver(p)
  <2>1. LocksHeldInside'
    BY <1>20 DEF LockInv, LocksHeldInside, HoldsRide, HoldsDriver, Locals,
         AcceptLockDriver, At, Begin, LockDriver, offerFrame, Goto, book, RideFree,
         DriverFree
  <2>2. LocksHeld'
    BY <1>20 DEF LockInv, LocksHeld, HoldsRide, Locals, AcceptLockDriver, At,
         Begin, LockDriver, offerFrame, Goto, book, RideFree, DriverFree
  <2>3. ReadsHold'
    BY <1>20 DEF LockInv, ReadsHold, LocksHeldInside, HoldsDriver, Locals,
         AcceptLockDriver, At, Begin, LockDriver, offerFrame, Goto, book, RideFree,
         DriverFree
  <2> QED BY <2>1, <2>2, <2>3 DEF LockInv
<1>21. CASE AvailabilityInsert(p)
  <2> DEFINE d == lv[p].driver
  <2>1. CASE dstatus[d] # NoRow
    <3>1. Free(p)
      BY <1>21, <2>1 DEF Free, Alone, Holding, HoldsRide, HoldsDriver, AvailabilityInsert, InsertDriver,
         driverFrame, At, Finish, Goto
    <3> QED BY <3>1, FreeStep
  <2>2. CASE dstatus[d] = NoRow
    <3>1. /\ pc[p] = "avail_insert" /\ d \in Drivers
          /\ driverLock[d] = None
          /\ driverLock' = [driverLock EXCEPT ![d] = p]
          /\ pc' = [pc EXCEPT ![p] = AfterEnsure(lv[p].want)]
          /\ lv' = [lv EXCEPT ![p] = [lv[p] EXCEPT !.dst = "offline"]]
          /\ UNCHANGED <<rideLock, rdriver, dstatus>>
      BY <1>21, <2>2 DEF AvailabilityInsert, InsertDriver, driverFrame, At, Begin, Goto, LockDriver,
         DriverFree, DriverLabels, AvailLabels, LocLabels
    <3>2. AfterEnsure(lv[p].want) \in {"avail_georem", "avail_commit", "loc_throttle"}
      BY DEF AfterEnsure
    <3>3. lv'[p].driver = d /\ lv'[p].dst = "offline"
      BY <3>1 DEF Locals
    <3>4. LocksHeldInside'
      BY <3>1, <3>2, <3>3 DEF LockInv, LocksHeldInside, HoldsRide, HoldsDriver
    <3>5. LocksHeld'
      BY <3>1, <3>2 DEF LockInv, LocksHeld, HoldsRide
    <3>6. ReadsHold'
      BY <2>2, <3>1, <3>2, <3>3 DEF LockInv, ReadsHold
    <3> QED BY <3>4, <3>5, <3>6 DEF LockInv
  <2> QED BY <2>1, <2>2
<1>22. CASE LocationInsert(p)
  <2> DEFINE d == lv[p].driver
  <2>1. CASE dstatus[d] # NoRow
    <3>1. Free(p)
      BY <1>22, <2>1 DEF Free, Alone, Holding, HoldsRide, HoldsDriver, LocationInsert, InsertDriver,
         driverFrame, At, Finish, Goto
    <3> QED BY <3>1, FreeStep
  <2>2. CASE dstatus[d] = NoRow
    <3>1. /\ pc[p] = "loc_insert" /\ d \in Drivers
          /\ driverLock[d] = None
          /\ driverLock' = [driverLock EXCEPT ![d] = p]
          /\ pc' = [pc EXCEPT ![p] = "loc_throttle"]
          /\ lv' = [lv EXCEPT ![p] = [lv[p] EXCEPT !.dst = "offline"]]
          /\ UNCHANGED <<rideLock, rdriver, dstatus>>
      BY <1>22, <2>2 DEF LocationInsert, InsertDriver, driverFrame, At, Begin, Goto, LockDriver,
         DriverFree, DriverLabels, AvailLabels, LocLabels
    <3>3. lv'[p].driver = d /\ lv'[p].dst = "offline"
      BY <3>1 DEF Locals
    <3>4. LocksHeldInside'
      BY <3>1, <3>3 DEF LockInv, LocksHeldInside, HoldsRide, HoldsDriver
    <3>5. LocksHeld'
      BY <3>1 DEF LockInv, LocksHeld, HoldsRide
    <3>6. ReadsHold'
      BY <2>2, <3>1, <3>3 DEF LockInv, ReadsHold
    <3> QED BY <3>4, <3>5, <3>6 DEF LockInv
  <2> QED BY <2>1, <2>2
<1>23. CASE LocationThrottle(p)
  <2> DEFINE d == lv[p].driver
  <2>1. CASE d \in throttle
    <3>1. Ending(p)
      BY <1>23, <2>1 DEF Ending, Alone, ReleaseLocks, LocationThrottle, driverFrame, At,
         Finish, Goto, LockInv, LocksHeldInside, HoldsRide, HoldsDriver
    <3> QED BY <3>1, EndingStep
  <2>2. CASE d \notin throttle
    <3>1. Inside(p)
      BY <1>23, <2>2 DEF Inside, Alone, LocationThrottle, driverFrame, At, Goto
    <3> QED BY <3>1, InsideStep
  <2> QED BY <2>1, <2>2
<1> QED BY <1>1, <1>2, <1>3, <1>4, <1>5, <1>6, <1>7, <1>8, <1>9, <1>10, <1>11,
     <1>12, <1>13, <1>14, <1>15, <1>16, <1>17, <1>18, <1>19, <1>20, <1>21, <1>22,
     <1>23, FreeStep, InsideStep, EndingStep DEF DriverStep, DriverCall

------------------------------------------------------------------------------
(* The trip endpoints keep LockInv. *)
LEMMA TripServiceLocks ==
  ASSUME SlotOK, SlotOK', LockInv, NEW p \in Handlers, TripStep(p) \/ TripCall(p)
  PROVE  LockInv'
<1> p \in Procs BY DEF Procs
<1> USE LabelFacts DEF SlotOK
<1>1. ASSUME NEW op \in TripOps, NEW r \in Rides, TripBegin(p, op, r) PROVE Free(p)
  BY <1>1, NoLocalsType DEF Free, Alone, Holding, HoldsRide, HoldsDriver, Locals,
       TripBegin, Begin, MayBegin, locks, tripFrame, Goto, At, book, redis
<1>2. ASSUME TripRefused(p) PROVE Free(p)
  BY <1>2 DEF Free, Alone, Holding, HoldsRide, HoldsDriver, TripRefused, At,
       Finish, locks, tripFrame, Goto, book, redis
<1>3. ASSUME TripCommit(p) PROVE Free(p)
  BY <1>3 DEF Free, Alone, Holding, HoldsRide, HoldsDriver, TripCommit, At, Finish,
       locks, tripFrame, Goto, book, redis
<1>4. ASSUME PauseCommit(p) PROVE Free(p)
  BY <1>4 DEF Free, Alone, Holding, HoldsRide, HoldsDriver, PauseCommit, At,
       Finish, locks, tripFrame, Goto, book, redis
<1>5. ASSUME TripLoadRide(p) PROVE Free(p)
  <2>1. /\ pc' = [pc EXCEPT ![p] = AfterCheck(lv[p].want)] /\ pc[p] = "trip_ride"
        /\ UNCHANGED <<rideLock, driverLock, rdriver, dstatus>>
        /\ \A q \in Procs \ {p} : lv'[q] = lv[q]
    BY <1>5 DEF TripLoadRide, At, Begin, Goto, tripFrame, locks
  <2>2. AfterCheck(lv[p].want) \in {"trip_commit", "pause_commit", "end_driver"}
    <3>1. lv[p].want \in TripOps
      BY <1>5 DEF TripLoadRide, At
    <3> QED BY <3>1 DEF AfterCheck, TripOps
  <2> QED BY <2>1, <2>2 DEF Free, Alone, Holding, HoldsRide, HoldsDriver
<1>6. ASSUME EndLoadDriver(p) PROVE Free(p)
  BY <1>6 DEF Free, Alone, Holding, HoldsRide, HoldsDriver, Locals, EndLoadDriver,
       At, Begin, locks, tripFrame, Goto, book, redis
<1>7. ASSUME EndCommit(p) PROVE Ending(p)
  BY <1>7 DEF Ending, Alone, Holding, HoldsRide, HoldsDriver, LockInv,
       LocksHeldInside, LocksHeld, ReadsHold, EndCommit, At, Finish, ReleaseLocks,
       tripFrame, Goto, book, redis
<1>8. CASE EndLockDriver(p)
  <2>1. LocksHeldInside'
    BY <1>8 DEF LockInv, LocksHeldInside, HoldsRide, HoldsDriver, Locals,
         EndLockDriver, At, Goto, LockDriver, tripFrame, book, redis, RideFree,
         DriverFree
  <2>2. LocksHeld'
    BY <1>8 DEF LockInv, LocksHeld, HoldsRide, Locals, EndLockDriver, At, Goto,
         LockDriver, tripFrame, book, redis, RideFree, DriverFree
  <2>3. ReadsHold'
    BY <1>8 DEF LockInv, ReadsHold, LocksHeldInside, HoldsDriver, Locals,
         EndLockDriver, At, Goto, LockDriver, tripFrame, book, redis, RideFree,
         DriverFree
  <2> QED BY <2>1, <2>2, <2>3 DEF LockInv
<1> QED BY <1>1, <1>2, <1>3, <1>4, <1>5, <1>6, <1>7, <1>8, FreeStep, EndingStep DEF TripStep, TripCall

------------------------------------------------------------------------------
(* match_ride keeps LockInv. *)
LEMMA MatchWorkerLocks ==
  ASSUME SlotOK, SlotOK', LockInv, NEW p \in Workers, MatchStep(p) \/ MatchCall(p)
  PROVE  LockInv'
<1> p \in Procs BY DEF Procs
<1> USE LabelFacts DEF SlotOK
<1>1. ASSUME NEW r \in Rides, MatchTake(p, r) PROVE Free(p)
  BY <1>1, NoLocalsType DEF Free, Alone, Holding, HoldsRide, HoldsDriver, Locals,
       MatchTake, Begin, MayBegin, matchFrame, Goto, At, book
<1>2. ASSUME MatchNotWanted(p) PROVE Free(p)
  BY <1>2 DEF Free, Alone, Holding, HoldsRide, HoldsDriver, MatchNotWanted, At,
       Finish, matchFrame, Goto, book
<1>3. ASSUME NEW near \in SUBSET Drivers, MatchGeoSearch(p, near) PROVE Inside(p)
  BY <1>3 DEF Inside, Alone, Holding, HoldsRide, HoldsDriver, Locals,
       MatchGeoSearch, At, Begin, matchFrame, Goto, book
<1>4. ASSUME NEW d \in Drivers, MatchChoose(p, d) PROVE Inside(p)
  BY <1>4 DEF Inside, Alone, Holding, HoldsRide, HoldsDriver, Locals, MatchChoose,
       At, Begin, matchFrame, Goto, book
<1>5. ASSUME MatchAssignLock(p) PROVE Inside(p)
  BY <1>5 DEF Inside, Alone, Holding, HoldsRide, HoldsDriver, Locals,
       MatchAssignLock, At, Goto, matchFrame, book
<1>6. ASSUME NEW t \in Tokens, MatchStore(p, t) PROVE Inside(p)
  BY <1>6 DEF Inside, Alone, Holding, HoldsRide, HoldsDriver, Locals, MatchStore,
       At, Goto, matchFrame, book
<1>7. ASSUME MatchNoCandidates(p) PROVE Ending(p)
  BY <1>7, MatchReturnReleases DEF Ending, Alone, Holding, HoldsRide, HoldsDriver,
       MatchNoCandidates, At, MatchReturn, matchFrame, Finish, book, Goto
<1>8. ASSUME MatchNoneOnline(p) PROVE Ending(p)
  BY <1>8, MatchReturnReleases DEF Ending, Alone, Holding, HoldsRide, HoldsDriver,
       MatchNoneOnline, At, MatchReturn, matchFrame, Finish, book, Goto
<1>9. ASSUME MatchAssignBusy(p) PROVE Ending(p)
  BY <1>9, MatchReturnReleases DEF Ending, Alone, Holding, HoldsRide, HoldsDriver,
       MatchAssignBusy, At, MatchReturn, matchFrame, Finish, book, Goto
<1>10. ASSUME MatchRelease(p) PROVE Ending(p)
  BY <1>10, MatchReturnReleases DEF Ending, Alone, Holding, HoldsRide, HoldsDriver,
       MatchRelease, At, MatchReturn, matchFrame, Finish, book, Goto
<1>11. CASE MatchLockRide(p)
  <2>1. LocksHeldInside'
    BY <1>11 DEF LockInv, LocksHeldInside, HoldsRide, HoldsDriver, Locals,
         MatchLockRide, At, Goto, LockRide, matchFrame, book, RideFree, DriverFree
  <2>2. LocksHeld'
    BY <1>11 DEF LockInv, LocksHeld, HoldsRide, Locals, MatchLockRide, At, Goto,
         LockRide, matchFrame, book, RideFree, DriverFree
  <2>3. ReadsHold'
    BY <1>11 DEF LockInv, ReadsHold, LocksHeldInside, HoldsDriver, Locals,
         MatchLockRide, At, Goto, LockRide, matchFrame, book, RideFree, DriverFree
  <2> QED BY <2>1, <2>2, <2>3 DEF LockInv
<1> QED BY <1>1, <1>2, <1>3, <1>4, <1>5, <1>6, <1>7, <1>8, <1>9, <1>10, <1>11,
     FreeStep, InsideStep, EndingStep DEF MatchStep, MatchCall

------------------------------------------------------------------------------
(* The stores' own steps, and the early end of a call, keep LockInv. *)
LEMMA EnvironmentLocks ==
  ASSUME SlotOK, SlotOK', LockInv, Environment
  PROVE  LockInv'
<1>1. ASSUME NEW p \in Procs, Abandon(p) PROVE LockInv'
  <2>1. Ending(p)
    BY <1>1 DEF Ending, Alone, Abandon, Finish, Goto, SlotOK
  <2> QED BY <2>1, EndingStep
<1>2. ASSUME UNCHANGED <<pc, lv, rideLock, driverLock, rdriver, dstatus>> PROVE LockInv'
  BY <1>2 DEF LockInv, LocksHeldInside, LocksHeld, ReadsHold
<1> QED
  BY <1>1, <1>2 DEF Environment, Fail, DeadlockVictim, OfferExpires, AssignLockExpires,
     IndexExpires, ThrottleExpires, locks

(* Every step of the system keeps LockInv. *)
LEMMA NextLocks == TypeInv /\ LockInv /\ TypeInv' /\ [Next]_vars => LockInv'
<1> SUFFICES ASSUME TypeInv, LockInv, TypeInv', [Next]_vars PROVE LockInv'
  OBVIOUS
<1>1. SlotOK /\ SlotOK'
  BY ConstantsAssumption DEF TypeInv, TypeOK, ArgsOK, OrNone, SlotOK
<1>2. CASE Environment
  BY <1>1, <1>2, EnvironmentLocks
<1>3. ASSUME NEW p \in Handlers, Call(p) PROVE LockInv'
  BY <1>1, <1>3, RideServiceLocks, DriverServiceLocks, TripServiceLocks DEF Call
<1>4. ASSUME NEW w \in Workers, MatchCall(w) PROVE LockInv'
  BY <1>1, <1>4, MatchWorkerLocks
<1>5. ASSUME NEW p \in Procs, Step(p) PROVE LockInv'
  BY <1>1, <1>5, RideServiceLocks, DriverServiceLocks, TripServiceLocks,
     MatchWorkerLocks DEF Step, Procs
<1>6. CASE UNCHANGED vars
  BY <1>6 DEF vars, locks, LockInv, LocksHeldInside, LocksHeld, ReadsHold
<1> QED BY <1>2, <1>3, <1>4, <1>5, <1>6 DEF Next

(* No slot has, or needs, a lock before the first call. *)
LEMMA InitLocks == Init => LockInv
  BY DEF Init, LockInv, LocksHeldInside, LocksHeld, ReadsHold, HoldsRide

(* The three parts together, by induction over the behaviour. *)
THEOREM LocksAndReads == Spec => []LockInv
  BY InitLocks, NextLocks, TypesAndArguments, PTL DEF Spec

(* No row lock outlives its transaction, whatever way a handler or a task  *)
(* of app/services and app/workers ends.                                   *)
THEOREM LocksCorrect == Spec => []LocksHeldInside
<1>1. LockInv => LocksHeldInside
  BY DEF LockInv
<1> QED BY <1>1, LocksAndReads, PTL

(* For any number of handlers and tasks, one is inside a ride at a time:    *)
(* accept_offer and match_ride both keep SELECT ... FOR UPDATE of the ride  *)
(* to their end.                                                           *)
THEOREM OneInsideCorrect == Spec => []OneInside
<1>1. LockInv => OneInside
  BY DEF LockInv, LocksHeld, OneInside
<1> QED BY <1>1, LocksAndReads, PTL

------------------------------------------------------------------------------
(* Accepting an offer implements Assignment. *)
(* The commit of an accept assigns an unassigned ride an online driver, who *)
(* is online no more: the two rows are as they were when they were locked. *)
LEMMA AcceptAssigns ==
  ASSUME SlotOK, LockInv, NEW p \in Procs, AcceptCommit(p)
  PROVE  \E r \in Rides, d \in Drivers : A!Assign(r, d)
<1>1. pc[p] = "accept_commit" /\ lv[p].ride \in Rides /\ lv[p].driver \in Drivers
  BY LabelFacts DEF AcceptCommit, At, SlotOK
<1>2. PICK r \in Rides, d \in Drivers : r = lv[p].ride /\ d = lv[p].driver
  BY <1>1
<1>3. rdriver[r] = None /\ dstatus[d] = "online"
  BY <1>1, <1>2 DEF AcceptCommit, AcceptAllowed, LockInv, ReadsHold
<1>4. rdriver' = [rdriver EXCEPT ![r] = d] /\ dstatus' = [dstatus EXCEPT ![d] = "busy"]
  BY <1>2 DEF AcceptCommit
<1>5. {c \in Drivers : dstatus'[c] = "online"} = {c \in Drivers : dstatus[c] = "online"} \ {d}
  BY <1>4 DEF SlotOK
<1>6. A!Assign(r, d)
  BY <1>3, <1>4, <1>5 DEF A!Assign
<1> QED BY <1>6

(* A step that writes at most one driver's status, and no ride's driver.   *)
LEMMA OneDriverChanges ==
  ASSUME NEW d \in Drivers, UNCHANGED rdriver,
         \A c \in Drivers \ {d} : dstatus'[c] = dstatus[c]
  PROVE  A!ChangeAvailability(d)
  BY DEF A!ChangeAvailability

(* Every step of the system is a step of Assignment, or leaves it alone. *)
LEMMA NextAssigns ==
  TypeInv /\ LockInv /\ [Next]_vars => [A!Next]_(A!vars)
<1> SUFFICES ASSUME TypeInv, LockInv, [Next]_vars PROVE [A!Next]_(A!vars)
  OBVIOUS
<1>1. SlotOK
  BY SlotFacts
<1>2. ASSUME UNCHANGED <<rdriver, dstatus>> PROVE [A!Next]_(A!vars)
  BY <1>2 DEF A!vars
<1>3. ASSUME NEW p \in Procs, RideStep(p) \/ RideCall(p) PROVE UNCHANGED <<rdriver, dstatus>>
  BY <1>3 DEF RideStep, RideCall, CreateBegin, CreateReplay, CreateNoReplay,
     CreateConflict, CreateNoConflict, CreateEnsureRider, CreateCommit,
     CreateIntegrityError, CreateEnqueue, CancelBegin, CancelLoadTrip, CancelReadOffer,
     CancelClear, CancelRefused, CancelCommit, rideFrame
<1>4. ASSUME NEW p \in Procs, MatchStep(p) \/ MatchCall(p) PROVE UNCHANGED <<rdriver, dstatus>>
  BY <1>4 DEF MatchStep, MatchCall, MatchTake, MatchLockRide, MatchNotWanted,
     MatchGeoSearch, MatchNoCandidates, MatchChoose, MatchNoneOnline, MatchAssignLock,
     MatchAssignBusy, MatchStore, MatchRelease, matchFrame
<1>5. ASSUME NEW p \in Procs, TripStep(p) \/ TripCall(p) PROVE [A!Next]_(A!vars)
  <2>1. CASE EndCommit(p)
    <3>1. PICK d \in Drivers : d = lv[p].drv
      BY <1>1, <2>1 DEF EndCommit, At, SlotOK
    <3>2. UNCHANGED rdriver /\ \A c \in Drivers \ {d} : dstatus'[c] = dstatus[c]
      BY <1>1, <2>1, <3>1 DEF EndCommit, tripFrame, SlotOK
    <3>3. A!ChangeAvailability(d)
      BY <3>2, OneDriverChanges
    <3> QED BY <3>3 DEF A!Next
  <2>2. CASE ~EndCommit(p)
    BY <1>2, <1>5, <2>2 DEF TripStep, TripCall, TripBegin, TripLoadRide, TripRefused,
       TripCommit, PauseCommit, EndLoadDriver, EndLockDriver, tripFrame
  <2> QED BY <2>1, <2>2
<1>6. ASSUME NEW p \in Procs, DriverStep(p) \/ DriverCall(p) PROVE [A!Next]_(A!vars)
  <2>1. CASE AcceptCommit(p)
    <3>1. \E r \in Rides, d \in Drivers : A!Assign(r, d)
      BY <1>1, <2>1, AcceptAssigns
    <3> QED BY <3>1 DEF A!Next
  <2>2. CASE AvailabilityCommit(p) \/ LocationCommit(p)
    <3>1. PICK d \in Drivers : d = lv[p].driver
      BY <1>1, <2>2 DEF AvailabilityCommit, LocationCommit, At, SlotOK, DriverLabels,
         AvailLabels, LocLabels
    <3>2. UNCHANGED rdriver /\ \A c \in Drivers \ {d} : dstatus'[c] = dstatus[c]
      BY <1>1, <2>2, <3>1 DEF AvailabilityCommit, LocationCommit, driverFrame, SlotOK
    <3>3. A!ChangeAvailability(d)
      BY <3>2, OneDriverChanges
    <3> QED BY <3>3 DEF A!Next
  <2>3. CASE ~(AcceptCommit(p) \/ AvailabilityCommit(p) \/ LocationCommit(p))
    BY <1>2, <1>6, <2>3 DEF DriverStep, DriverCall, PendingBegin, PendingReadOffer,
       AcceptBegin, AcceptReadOffer, AcceptInvalidOffer, AcceptLockRide,
       AcceptLockDriver, AcceptRefused, AcceptClear, RejectBegin, RejectReadOffer,
       RejectClear, RejectEnqueue, AvailabilityBegin, AvailabilityInsert, InsertDriver,
       AvailabilityGeoRem, LocationBegin, LocationInsert, LocationGeoAdd,
       LocationThrottle, driverFrame
  <2> QED BY <2>1, <2>2, <2>3
<1>7. CASE Environment
  BY <1>2, <1>7 DEF Environment, OfferExpires, AssignLockExpires, IndexExpires,
     ThrottleExpires, Fail, DeadlockVictim, Abandon
<1>8. CASE UNCHANGED vars
  BY <1>2, <1>8 DEF vars
<1> QED BY <1>2, <1>3, <1>4, <1>5, <1>6, <1>7, <1>8 DEF Next, Call, Step, Procs

(* Before the first call no ride has a driver. *)
LEMMA InitAssigns == Init => A!Init
  BY DEF Init, A!Init

(* accept_offer implements Assignment, whatever cancels, trips and          *)
(* availability changes come between its steps: a ride gets a driver once, *)
(* keeps it, and gets one who was online and no longer is.                 *)
THEOREM AssignmentCorrect == Spec => AssignmentSpec
  BY InitAssigns, NextAssigns, TypesAndArguments, LocksAndReads, PTL
     DEF Spec, AssignmentSpec, A!Spec
==============================================================================
