---------------------------- MODULE CometSerial -----------------------------
(***************************************************************************)
(* What holds when calls and tasks come one at a time (Serial), for any    *)
(* number of slots, rides, drivers and riders, with failures and expiries  *)
(* between any two steps.  Each invariant says what the rows and keys are  *)
(* between calls, and what the one slot that is busy knows of them: nobody *)
(* else can have changed it.  The last of them, and with it the lifecycle, *)
(* takes besides that drivers go on and off duty between rides only        *)
(* (OffDutyOnly).                                                          *)
(***************************************************************************)
EXTENDS CometRides, FiniteSetTheorems

OneBusy == \A p, q \in Procs : pc[p] # "idle" /\ pc[q] # "idle" => p = q

(* It is p's turn: nobody else is busy, before the step and after it. *)
Turn(p) == /\ Alone(p)
           /\ \A q \in Procs \ {p} : pc[q] = "idle"

------------------------------------------------------------------------------
LEMMA RideServiceTurn ==
  ASSUME SlotOK, Serial, OneBusy, NEW p \in Handlers, RideStep(p) \/ RideCall(p)
  PROVE  Turn(p)
<1> p \in Procs BY DEF Procs
<1> USE DEF SlotOK, OneBusy, Turn, Alone, At, Begin, Finish, Goto, MayBegin
<1>1. CASE RideStep(p)
  BY <1>1 DEF RideStep, CreateReplay, CreateNoReplay, CreateConflict, CreateNoConflict,
     CreateEnsureRider, CreateCommit, CreateIntegrityError, CreateEnqueue, CancelLoadTrip,
     CancelReadOffer, CancelClear, CancelRefused, CancelCommit
<1>2. CASE RideCall(p)
  BY <1>2 DEF RideCall, CreateBegin, CancelBegin
<1> QED BY <1>1, <1>2

LEMMA DriverServiceTurn ==
  ASSUME SlotOK, Serial, OneBusy, NEW p \in Handlers, DriverStep(p) \/ DriverCall(p)
  PROVE  Turn(p)
<1> p \in Procs BY DEF Procs
<1> USE DEF SlotOK, OneBusy, Turn, Alone, At, Begin, Finish, Goto, MayBegin
<1>1. CASE \/ PendingReadOffer(p) \/ AcceptReadOffer(p) \/ AcceptInvalidOffer(p)
           \/ AcceptLockRide(p) \/ AcceptLockDriver(p) \/ AcceptRefused(p) \/ AcceptCommit(p)
           \/ AcceptClear(p) \/ RejectReadOffer(p) \/ RejectClear(p) \/ RejectEnqueue(p)
  BY <1>1 DEF PendingReadOffer, AcceptReadOffer, AcceptInvalidOffer, AcceptLockRide,
     AcceptLockDriver, AcceptRefused, AcceptCommit, AcceptClear, RejectReadOffer,
     RejectClear, RejectEnqueue
<1>2. CASE \/ AvailabilityInsert(p) \/ AvailabilityGeoRem(p) \/ AvailabilityCommit(p)
           \/ LocationInsert(p) \/ LocationGeoAdd(p) \/ LocationThrottle(p) \/ LocationCommit(p)
  BY <1>2 DEF AvailabilityInsert, AvailabilityGeoRem, AvailabilityCommit, LocationInsert,
     LocationGeoAdd, LocationThrottle, LocationCommit, InsertDriver
<1>3. CASE DriverCall(p)
  BY <1>3 DEF DriverCall, PendingBegin, AcceptBegin, RejectBegin, AvailabilityBegin,
     LocationBegin
<1> QED BY <1>1, <1>2, <1>3 DEF DriverStep

LEMMA TripServiceTurn ==
  ASSUME SlotOK, Serial, OneBusy, NEW p \in Handlers, TripStep(p) \/ TripCall(p)
  PROVE  Turn(p)
<1> p \in Procs BY DEF Procs
<1> QED BY DEF SlotOK, OneBusy, Turn, Alone, At, Begin, Finish, Goto, MayBegin, TripStep,
       TripCall, TripBegin, TripLoadRide, TripRefused, TripCommit, PauseCommit,
       EndLoadDriver, EndLockDriver, EndCommit

LEMMA MatchWorkerTurn ==
  ASSUME SlotOK, Serial, OneBusy, NEW w \in Workers, MatchStep(w) \/ MatchCall(w)
  PROVE  Turn(w)
<1> w \in Procs BY DEF Procs
<1> QED BY DEF SlotOK, OneBusy, Turn, Alone, At, Begin, Finish, Goto, MayBegin, MatchStep,
       MatchCall, MatchTake, MatchLockRide, MatchNotWanted, MatchGeoSearch,
       MatchNoCandidates, MatchChoose, MatchNoneOnline, MatchAssignLock, MatchAssignBusy,
       MatchStore, MatchRelease, MatchReturn

(* A failure is the turn of the slot that fails. *)
LEMMA AbandonTurn ==
  ASSUME SlotOK, OneBusy, NEW p \in Procs, Fail(p) \/ DeadlockVictim(p)
  PROVE  Turn(p) /\ Abandon(p) /\ pc'[p] = "idle"
BY DEF SlotOK, OneBusy, Turn, Alone, At, Finish, Goto, Fail, DeadlockVictim, Abandon

LEMMA OneBusyStep ==
  ASSUME SlotOK, Serial, OneBusy, [Next]_vars
  PROVE  OneBusy'
<1>1. ASSUME NEW p \in Procs, Turn(p) PROVE OneBusy'
  BY <1>1 DEF Turn, Alone, OneBusy
<1>2. CASE Environment
  BY <1>1, <1>2, AbandonTurn DEF Environment, OfferExpires, AssignLockExpires,
     IndexExpires, ThrottleExpires, OneBusy
<1>3. CASE UNCHANGED vars
  BY <1>3 DEF vars, OneBusy
<1> QED BY <1>1, <1>2, <1>3, RideServiceTurn, DriverServiceTurn, TripServiceTurn,
       MatchWorkerTurn DEF Next, Call, Step, Procs

LEMMA OneAtATime == ASSUME Serial PROVE Spec => []OneBusy
<1>1. Init => OneBusy
  BY DEF Init, OneBusy
<1>2. TypeInv /\ OneBusy /\ [Next]_vars => OneBusy'
  BY OneBusyStep, SlotFacts
<1> QED BY <1>1, <1>2, TypesAndArguments, PTL DEF Spec

------------------------------------------------------------------------------
(* The GEO set has drivers with a row that is not offline; who is about to  *)
(* be added is online, who is about to go offline has been removed.        *)
GeoSlot(p) ==
  /\ pc[p] = "loc_geo" => dstatus[lv[p].driver] = "online"
  /\ pc[p] = "avail_commit" /\ lv[p].want = "offline" => lv[p].driver \notin geo

GeoInv == /\ \A d \in geo : dstatus[d] \in {"online", "busy"}
          /\ \A p \in Procs : GeoSlot(p)

GeoTypes == SlotOK /\ geo \subseteq Drivers

LEMMA GeoStep ==
  ASSUME GeoInv, NEW p \in Procs, Turn(p), GeoSlot(p)',
         \A d \in geo' : dstatus'[d] \in {"online", "busy"}
  PROVE  GeoInv'
BY DEF GeoInv, GeoSlot, Turn, Alone

LEMMA GeoQuiet ==
  ASSUME GeoInv, NEW p \in Procs, Turn(p), UNCHANGED <<geo, dstatus>>,
         pc'[p] \notin {"loc_geo", "avail_commit"}
  PROVE  GeoInv'
BY GeoStep DEF GeoInv, GeoSlot

LEMMA DriverServiceGeo ==
  ASSUME GeoTypes, LockInv, GeoInv, NEW p \in Handlers, Turn(p), DriverStep(p) \/ DriverCall(p),
         pc[p] \in AvailLabels => lv[p].want \in DriverStatus
  PROVE  GeoInv'
<1> p \in Procs BY DEF Procs
<1> USE DEF GeoTypes, SlotOK, At, Begin, Finish, Goto
<1>1. CASE \/ PendingReadOffer(p) \/ AcceptReadOffer(p) \/ AcceptInvalidOffer(p)
           \/ AcceptLockRide(p) \/ AcceptLockDriver(p) \/ AcceptRefused(p)
           \/ AcceptClear(p) \/ RejectReadOffer(p) \/ RejectClear(p) \/ RejectEnqueue(p)
  BY <1>1, GeoQuiet DEF PendingReadOffer, AcceptReadOffer, AcceptInvalidOffer,
     AcceptLockRide, AcceptLockDriver, AcceptRefused, AcceptClear, RejectReadOffer,
     RejectClear, RejectEnqueue, offerFrame
<1>2. CASE LocationInsert(p) \/ LocationThrottle(p)
  BY <1>2, GeoQuiet DEF LocationInsert, LocationThrottle, InsertDriver
<1>3. CASE AcceptCommit(p)
  BY <1>3, GeoStep, LabelFacts DEF AcceptCommit, offerFrame, GeoInv, GeoSlot
<1>4. CASE AvailabilityInsert(p)
  <2>1. UNCHANGED <<geo, dstatus>>
    BY <1>4 DEF AvailabilityInsert, InsertDriver
  <2>2. GeoSlot(p)'
    BY <1>4 DEF AvailabilityInsert, InsertDriver, AfterEnsure, GeoSlot, Locals
  <2> QED BY <2>1, <2>2, GeoStep DEF GeoInv
<1>5. CASE AvailabilityGeoRem(p)
  BY <1>5, GeoStep DEF AvailabilityGeoRem, GeoInv, GeoSlot
<1>6. CASE AvailabilityCommit(p)
  <2>1. lv[p].driver \in Drivers /\ lv[p].want \in DriverStatus /\ UNCHANGED geo /\ pc'[p] = "idle"
    BY <1>6 DEF AvailabilityCommit, DriverLabels, AvailLabels
  <2>2. \A d \in geo' : dstatus'[d] \in {"online", "busy"}
    BY <1>6, <2>1 DEF AvailabilityCommit, DriverStatus, GeoInv, GeoSlot
  <2> QED BY <2>1, <2>2, GeoStep DEF GeoSlot
<1>7. CASE LocationGeoAdd(p)
  BY <1>7, GeoStep DEF LocationGeoAdd, GeoInv, GeoSlot
<1>8. CASE LocationCommit(p)
  <2>1. lv[p].driver \in Drivers /\ UNCHANGED geo /\ pc'[p] = "idle"
    BY <1>8 DEF LocationCommit, DriverLabels, LocLabels
  <2>2. \A d \in geo' : dstatus'[d] \in {"online", "busy"}
    BY <1>8, <2>1 DEF LocationCommit, LockInv, ReadsHold, GeoInv, NoRow
  <2> QED BY <2>1, <2>2, GeoStep DEF GeoSlot
<1>9. ASSUME NEW d \in Drivers, PendingBegin(p, d) \/ AcceptBegin(p, d) \/ RejectBegin(p, d)
      PROVE  GeoInv'
  BY <1>9, GeoQuiet DEF PendingBegin, AcceptBegin, RejectBegin, offerFrame
<1>10. ASSUME NEW d \in Drivers, NEW s \in DriverStatus, AvailabilityBegin(p, d, s) PROVE GeoInv'
  <2>1. UNCHANGED <<geo, dstatus>> /\ GeoSlot(p)'
    BY <1>10, NoLocalsType DEF AvailabilityBegin, AfterEnsure, GeoSlot, Locals
  <2> QED BY <2>1, GeoStep DEF GeoInv
<1>11. ASSUME NEW d \in Drivers, LocationBegin(p, d) PROVE GeoInv'
  <2>1. UNCHANGED <<geo, dstatus>> /\ GeoSlot(p)'
    BY <1>11, NoLocalsType DEF LocationBegin, AfterLoad, GeoSlot, Locals
  <2> QED BY <2>1, GeoStep DEF GeoInv
<1> QED BY <1>1, <1>2, <1>3, <1>4, <1>5, <1>6, <1>7, <1>8, <1>9, <1>10, <1>11
        DEF DriverStep, DriverCall

LEMMA OtherServicesGeo ==
  ASSUME GeoTypes, GeoInv, NEW p \in Procs, Turn(p),
         \/ RideStep(p) \/ RideCall(p) \/ TripStep(p) \/ TripCall(p)
         \/ MatchStep(p) \/ MatchCall(p)
  PROVE  GeoInv'
<1> USE DEF GeoTypes, SlotOK, At, Begin, Finish, Goto
<1>1. CASE RideStep(p) \/ RideCall(p)
  BY <1>1, GeoQuiet DEF RideStep, RideCall, CreateBegin, CreateReplay, CreateNoReplay,
     CreateConflict, CreateNoConflict, CreateEnsureRider, CreateCommit,
     CreateIntegrityError, CreateEnqueue, CancelBegin, CancelLoadTrip, CancelReadOffer,
     CancelClear, CancelRefused, CancelCommit, rideFrame
<1>2. CASE MatchStep(p) \/ MatchCall(p)
  BY <1>2, GeoQuiet DEF MatchStep, MatchCall, MatchTake, MatchLockRide, MatchNotWanted,
     MatchGeoSearch, MatchNoCandidates, MatchChoose, MatchNoneOnline, MatchAssignLock,
     MatchAssignBusy, MatchStore, MatchRelease, MatchReturn, matchFrame
<1>3. CASE EndCommit(p)
  BY <1>3, GeoStep DEF EndCommit, tripFrame, redis, GeoInv, GeoSlot
<1>4. ASSUME TripLoadRide(p) PROVE GeoInv'
  <2>1. AfterCheck(lv[p].want) \in {"trip_commit", "pause_commit", "end_driver"}
    BY <1>4 DEF TripLoadRide, AfterCheck, TripOps
  <2> QED BY <1>4, <2>1, GeoQuiet DEF TripLoadRide, tripFrame, redis
<1>5. CASE \/ TripRefused(p) \/ TripCommit(p) \/ PauseCommit(p) \/ EndLoadDriver(p)
           \/ EndLockDriver(p) \/ TripCall(p)
  BY <1>5, GeoQuiet DEF TripCall, TripBegin, TripRefused, TripCommit, PauseCommit,
     EndLoadDriver, EndLockDriver, tripFrame, redis
<1> QED BY <1>1, <1>2, <1>3, <1>4, <1>5 DEF TripStep

LEMMA GeoNext ==
  ASSUME Serial, TypeInv, LockInv, OneBusy, GeoInv, [Next]_vars
  PROVE  GeoInv'
<1>1. GeoTypes
  BY SlotFacts DEF GeoTypes, TypeInv, TypeOK
<1>2. CASE Environment
  <2>1. ASSUME NEW p \in Procs, Fail(p) \/ DeadlockVictim(p) PROVE GeoInv'
    BY <1>1, <2>1, AbandonTurn, GeoQuiet DEF GeoTypes, Abandon, redis
  <2> QED BY <1>2, <2>1 DEF Environment, OfferExpires, AssignLockExpires, IndexExpires,
             ThrottleExpires, GeoInv, GeoSlot
<1>3. CASE UNCHANGED vars
  BY <1>3 DEF vars, redis, GeoInv, GeoSlot
<1>4. ASSUME NEW p \in Handlers, \/ RideStep(p) \/ DriverStep(p) \/ TripStep(p) \/ Call(p)
      PROVE  GeoInv'
  <2>1. p \in Procs /\ (pc[p] \in AvailLabels => lv[p].want \in DriverStatus)
    BY DEF Procs, TypeInv, ArgsOK
  <2> QED BY <1>1, <1>4, <2>1, RideServiceTurn, DriverServiceTurn, TripServiceTurn,
             OtherServicesGeo, DriverServiceGeo DEF GeoTypes, Call
<1>5. ASSUME NEW w \in Workers, MatchStep(w) \/ MatchCall(w) PROVE GeoInv'
  BY <1>1, <1>5, MatchWorkerTurn, OtherServicesGeo DEF GeoTypes, Procs
<1> QED BY <1>2, <1>3, <1>4, <1>5 DEF Next, Step, Procs

(* A driver who went offline is not in the GEO set, with calls one at a     *)
(* time: removal, commit and ping cannot cross.                            *)
THEOREM OfflineNotInGeoCorrect == ASSUME Serial PROVE Spec => []OfflineNotInGeo
<1>1. Init => GeoInv
  BY ConstantsAssumption DEF Init, GeoInv, GeoSlot
<1>2. TypeInv /\ LockInv /\ OneBusy /\ GeoInv /\ [Next]_vars => GeoInv'
  BY GeoNext
<1>3. GeoInv => OfflineNotInGeo
  BY DEF GeoInv, OfflineNotInGeo
<1> QED BY <1>1, <1>2, <1>3, TypesAndArguments, LocksAndReads, OneAtATime, PTL DEF Spec

------------------------------------------------------------------------------
(* A create that looked its key up, and found no ride, or no row of its    *)
(* rider, still would find none.                                           *)
KeySlot(p) ==
  /\ pc[p] \in {"create_active", "create_rider", "create_commit"} /\ LookedUp(lv[p].key)
       => \A r \in Rides : rkey[r] # lv[p].key
  /\ pc[p] = "create_commit" /\ lv[p].want = "new_rider" => lv[p].rider \notin riders

KeyInv == \A p \in Procs : KeySlot(p)

LEMMA KeyStep ==
  ASSUME NEW p \in Procs, Turn(p), KeySlot(p)'
  PROVE  KeyInv'
BY DEF KeyInv, KeySlot, Turn, Alone

LEMMA RideServiceKeys ==
  ASSUME SlotOK, KeyInv, NEW p \in Handlers, RideStep(p) \/ RideCall(p)
  PROVE  KeySlot(p)'
<1> p \in Procs BY DEF Procs
<1> USE DEF SlotOK, At, Begin, Finish, Goto, KeySlot, LookedUp
<1>1. CASE \/ CreateReplay(p) \/ CreateNoReplay(p) \/ CreateConflict(p) \/ CreateNoConflict(p)
           \/ CreateCommit(p) \/ CreateIntegrityError(p) \/ CreateEnqueue(p)
  BY <1>1 DEF KeyInv, CreateReplay, CreateNoReplay, CreateConflict, CreateNoConflict,
     CreateCommit, CreateIntegrityError, CreateEnqueue, book
<1>2. CASE CreateEnsureRider(p)
  <2> DEFINE mine == [lv[p] EXCEPT !.want = IF lv[p].rider \in riders THEN "" ELSE "new_rider"]
  <2>1. lv' = [lv EXCEPT ![p] = mine] /\ pc' = [pc EXCEPT ![p] = "create_commit"]
        /\ pc[p] = "create_rider" /\ UNCHANGED <<riders, rkey>>
    BY <1>2 DEF CreateEnsureRider, book
  <2>2. /\ mine.key = lv[p].key /\ mine.rider = lv[p].rider
        /\ mine.want = "new_rider" => lv[p].rider \notin riders
    BY DEF Locals
  <2> HIDE DEF mine
  <2> QED BY <2>1, <2>2 DEF KeyInv
<1>3. CASE CancelLoadTrip(p) \/ CancelReadOffer(p) \/ CancelClear(p) \/ CancelRefused(p) \/ CancelCommit(p)
  BY <1>3 DEF CancelLoadTrip, CancelReadOffer, CancelClear, CancelRefused, CancelCommit
<1>4. ASSUME NEW u \in Riders, NEW k \in OrNone(Keys), NEW r \in Rides, CreateBegin(p, u, k, r)
      PROVE  KeySlot(p)'
  BY <1>4, NoLocalsType DEF CreateBegin, Locals
<1>5. ASSUME NEW r \in Rides, CancelBegin(p, r) PROVE KeySlot(p)'
  BY <1>5 DEF CancelBegin
<1> QED BY <1>1, <1>2, <1>3, <1>4, <1>5 DEF RideStep, RideCall

(* The other services have no slot at the steps of create_ride. *)
LEMMA NotInCreate ==
  ASSUME SlotOK, NEW p \in Procs,
         pc[p] \in AvailLabels => lv[p].want \in DriverStatus,
         \/ DriverStep(p) \/ DriverCall(p) \/ TripStep(p) \/ TripCall(p)
         \/ MatchStep(p) \/ MatchCall(p)
  PROVE  pc'[p] \notin Before
<1> USE DEF SlotOK, At, Begin, Finish, Goto, Before
<1>1. CASE MatchStep(p) \/ MatchCall(p)
  BY <1>1 DEF MatchStep, MatchCall, MatchTake, MatchLockRide, MatchNotWanted, MatchGeoSearch,
     MatchNoCandidates, MatchChoose, MatchNoneOnline, MatchAssignLock, MatchAssignBusy,
     MatchStore, MatchRelease, MatchReturn
<1>2. ASSUME TripLoadRide(p) PROVE pc'[p] \notin Before
  <2>1. AfterCheck(lv[p].want) \in {"trip_commit", "pause_commit", "end_driver"}
    BY <1>2 DEF TripLoadRide, AfterCheck, TripOps
  <2> QED BY <1>2, <2>1 DEF TripLoadRide
<1>3. CASE \/ TripRefused(p) \/ TripCommit(p) \/ PauseCommit(p) \/ EndLoadDriver(p)
           \/ EndLockDriver(p) \/ EndCommit(p) \/ TripCall(p)
  BY <1>3 DEF TripCall, TripBegin, TripRefused, TripCommit, PauseCommit, EndLoadDriver,
     EndLockDriver, EndCommit
<1>4. CASE \/ PendingReadOffer(p) \/ AcceptReadOffer(p) \/ AcceptInvalidOffer(p)
           \/ AcceptLockRide(p) \/ AcceptLockDriver(p) \/ AcceptRefused(p) \/ AcceptCommit(p)
           \/ AcceptClear(p) \/ RejectReadOffer(p) \/ RejectClear(p) \/ RejectEnqueue(p)
  BY <1>4 DEF PendingReadOffer, AcceptReadOffer, AcceptInvalidOffer, AcceptLockRide,
     AcceptLockDriver, AcceptRefused, AcceptCommit, AcceptClear, RejectReadOffer,
     RejectClear, RejectEnqueue
<1>5. CASE \/ AvailabilityInsert(p) \/ AvailabilityGeoRem(p) \/ AvailabilityCommit(p)
           \/ LocationInsert(p) \/ LocationGeoAdd(p) \/ LocationThrottle(p) \/ LocationCommit(p)
  BY <1>5 DEF AvailabilityInsert, AvailabilityGeoRem, AvailabilityCommit, LocationInsert,
     LocationGeoAdd, LocationThrottle, LocationCommit, InsertDriver, AfterEnsure
<1>6. CASE DriverCall(p)
  <2>1. pc'[p] \in {"pending_offer", "accept_offer", "reject_offer", "avail_insert",
                   "avail_georem", "avail_commit", "loc_insert", "loc_geo", "loc_throttle"}
    BY <1>6 DEF DriverCall, PendingBegin, AcceptBegin, RejectBegin, AvailabilityBegin,
       LocationBegin, AfterEnsure, AfterLoad
  <2> QED BY <2>1
<1> QED BY <1>1, <1>2, <1>3, <1>4, <1>5, <1>6 DEF DriverStep, TripStep

LEMMA KeyNext ==
  ASSUME Serial, TypeInv, OneBusy, KeyInv, [Next]_vars
  PROVE  KeyInv'
<1>1. SlotOK
  BY SlotFacts
<1>2. CASE Environment
  <2>1. ASSUME NEW p \in Procs, Fail(p) \/ DeadlockVictim(p) PROVE KeyInv'
    BY <1>1, <2>1, AbandonTurn, KeyStep DEF KeySlot
  <2> QED BY <1>2, <2>1 DEF Environment, OfferExpires, AssignLockExpires, IndexExpires,
             ThrottleExpires, KeyInv, KeySlot, book
<1>3. CASE UNCHANGED vars
  BY <1>3 DEF vars, book, KeyInv, KeySlot
<1>4. ASSUME NEW p \in Handlers, \/ RideStep(p) \/ DriverStep(p) \/ TripStep(p) \/ Call(p)
      PROVE  KeyInv'
  <2>1. p \in Procs /\ (pc[p] \in AvailLabels => lv[p].want \in DriverStatus)
    BY DEF Procs, TypeInv, ArgsOK
  <2> QED BY <1>1, <1>4, <2>1, RideServiceTurn, DriverServiceTurn, TripServiceTurn,
             RideServiceKeys, NotInCreate, KeyStep DEF Call, KeySlot, Before
<1>5. ASSUME NEW w \in Workers, MatchStep(w) \/ MatchCall(w) PROVE KeyInv'
  <2>1. w \in Procs /\ (pc[w] \in AvailLabels => lv[w].want \in DriverStatus)
    BY DEF Procs, TypeInv, ArgsOK
  <2> QED BY <1>1, <1>5, <2>1, MatchWorkerTurn, NotInCreate, KeyStep DEF KeySlot, Before
<1> QED BY <1>2, <1>3, <1>4, <1>5 DEF Next, Step, Procs

(* A repeated create is answered with its ride, unless its key is empty. *)
THEOREM ReplayAnsweredCorrect == ASSUME Serial PROVE Spec => []ReplayAnswered
<1>1. Init => KeyInv
  BY DEF Init, KeyInv, KeySlot
<1>2. TypeInv /\ OneBusy /\ KeyInv /\ [Next]_vars => KeyInv'
  BY KeyNext
<1>3. KeyInv => ReplayAnswered
  BY DEF KeyInv, KeySlot, ReplayAnswered, CreateUnique, LookedUp, Procs
<1> QED BY <1>1, <1>2, <1>3, TypesAndArguments, OneAtATime, PTL DEF Spec

------------------------------------------------------------------------------
LEMMA BookedStays ==
  ASSUME RowTypes, [Next]_vars, NEW r \in Rides, Booked(r)
  PROVE  Booked(r)'
<1> USE DEF RowTypes, Booked, NoRow
<1>1. ASSUME NEW p \in Procs, CreateCommit(p) \/ CancelCommit(p) \/ AcceptCommit(p)
      PROVE  Booked(r)'
  BY <1>1 DEF CreateCommit, CancelCommit, AcceptCommit
<1>2. ASSUME NEW p \in Procs, TripCommit(p) \/ PauseCommit(p) \/ EndCommit(p)
      PROVE  Booked(r)'
  BY <1>2 DEF TripCommit, PauseCommit, EndCommit
<1> QED BY <1>1, <1>2, RowWriters DEF Writes

------------------------------------------------------------------------------
(* The offer keys and the queue.  Who is about to enqueue a ride, or to     *)
(* offer it, is its only chance; who is about to clear an offer knows whom  *)
(* it was made to, unless it has lapsed.                                   *)
OnlyChance == {"create_enqueue", "reject_enqueue", "match_lock", "match_geo", "match_rank",
               "match_setnx", "match_store"}
KnowsOffer == {"cancel_clear", "accept_offer", "accept_ride", "accept_driver",
               "accept_commit", "accept_clear", "reject_offer", "reject_clear"}

OfferSlot(p) ==
  LET r == lv[p].ride IN
  /\ pc[p] \in OnlyChance \cup {"reject_clear"} => queue[r] = 0
  /\ pc[p] \in OnlyChance => ~HasOffer(r)
  /\ pc[p] \in KnowsOffer /\ HasOffer(r) => offer[r].driver = lv[p].driver

Chances == \A r \in Rides : /\ queue[r] <= 1
                            /\ HasOffer(r) => /\ queue[r] = 0 /\ Booked(r)
                                              /\ offer[r].driver # None

OfferInv == ReverseLookup /\ Chances /\ \A p \in Procs : OfferSlot(p)

LEMMA NoIndexWithoutOffer ==
  ASSUME RowTypes, ReverseLookup, NEW r \in Rides, ~HasOffer(r), NEW d \in Drivers
  PROVE  index[d] # r
BY DEF RowTypes, ReverseLookup, HasOffer, NoOffer

LEMMA OfferStep ==
  ASSUME NEW p \in Procs, Turn(p), ReverseLookup', Chances', OfferSlot(p)'
  PROVE  OfferInv'
BY DEF OfferInv, OfferSlot, OnlyChance, KnowsOffer, Turn, Alone

(* A step that leaves the keys and the queue alone. *)
LEMMA OfferStay ==
  ASSUME NEW p \in Procs, Turn(p), OfferInv, UNCHANGED <<offer, index, queue>>,
         \A r \in Rides : Booked(r) => Booked(r)',
         OfferSlot(p)'
  PROVE  OfferInv'
BY OfferStep DEF OfferInv, ReverseLookup, Chances, HasOffer

(* clear_offer by whoever knows the offer. *)
LEMMA OfferCleared ==
  ASSUME RowTypes, NEW p \in Procs, Turn(p), OfferInv, pc[p] \in KnowsOffer,
         lv[p].ride \in Rides, ClearOffer(lv[p].ride, lv[p].driver), UNCHANGED <<queue, rstatus>>,
         OfferSlot(p)'
  PROVE  OfferInv'
<1> DEFINE r == lv[p].ride
<1>1. /\ offer'[r] = NoOffer
      /\ \A s \in Rides : s # r => offer'[s] = offer[s]
      /\ \A d \in Drivers : index'[d] # None => index'[d] = index[d] /\ d # lv[p].driver
  BY DEF ClearOffer, RowTypes
<1>2. Chances'
  BY <1>1 DEF OfferInv, Chances, HasOffer, Booked
<1>3. ASSUME NEW d \in Drivers, index'[d] # None PROVE offer'[index'[d]].driver = d
  <2>1. index[d] # None /\ index'[d] = index[d] /\ index[d] \in Rides /\ offer[index[d]].driver = d
    BY <1>1, <1>3 DEF OfferInv, ReverseLookup, RowTypes
  <2>2. index[d] # r
    BY <1>1, <1>3, <2>1, NoIndexWithoutOffer DEF OfferInv, OfferSlot
  <2> QED BY <1>1, <2>1, <2>2
<1> QED BY <1>2, <1>3, OfferStep DEF ReverseLookup

LEMMA RideServiceOffers ==
  ASSUME RowTypes, RideInv, OfferInv, NEW p \in Handlers, Turn(p),
         \A r \in Rides : Booked(r) => Booked(r)',
         RideStep(p) \/ RideCall(p)
  PROVE  OfferInv'
<1> p \in Procs BY DEF Procs
<1> USE DEF At, Begin, Finish, Goto
<1>1. CASE \/ CreateReplay(p) \/ CreateNoReplay(p) \/ CreateConflict(p) \/ CreateNoConflict(p)
           \/ CreateEnsureRider(p) \/ CreateIntegrityError(p) \/ CancelLoadTrip(p)
           \/ CancelRefused(p) \/ CancelCommit(p)
  BY <1>1, OfferStay DEF CreateReplay, CreateNoReplay, CreateConflict, CreateNoConflict,
     CreateEnsureRider, CreateIntegrityError, CancelLoadTrip, CancelRefused, CancelCommit,
     OfferSlot, OnlyChance, KnowsOffer, RowTypes, SlotOK
<1>2. CASE CreateCommit(p)
  <2>1. lv[p].ride \in Rides /\ ~Booked(lv[p].ride)
    BY <1>2 DEF CreateCommit, RideInv, SlotSees, Before, RowTypes, SlotOK, RideLabels, Labels,
       AvailLabels, LocLabels
  <2>2. queue[lv[p].ride] = 0 /\ ~HasOffer(lv[p].ride)
    BY <2>1 DEF RideInv, RefsOK, OfferInv, Chances, RowTypes
  <2> QED BY <1>2, <2>2, OfferStay DEF CreateCommit, OfferSlot, KnowsOffer, HasOffer,
             RowTypes, SlotOK
<1>3. CASE CreateEnqueue(p)
  <2>1. lv[p].ride \in Rides /\ queue[lv[p].ride] = 0 /\ ~HasOffer(lv[p].ride)
    BY <1>3 DEF CreateEnqueue, OfferInv, OfferSlot, OnlyChance, RowTypes, SlotOK, RideLabels,
       Labels, AvailLabels, LocLabels
  <2>2. Chances' /\ ReverseLookup' /\ OfferSlot(p)'
    BY <1>3, <2>1 DEF CreateEnqueue, Enqueue, OfferInv, Chances, ReverseLookup, HasOffer,
       Booked, OfferSlot, OnlyChance, KnowsOffer, RowTypes, SlotOK
  <2> QED BY <2>2, OfferStep
<1>4. CASE CancelReadOffer(p)
  <2>1. /\ pc'[p] \in {"cancel_clear", "cancel_commit"}
        /\ lv'[p].ride = lv[p].ride /\ lv'[p].driver = offer[lv[p].ride].driver
        /\ UNCHANGED <<offer, index, queue>>
    BY <1>4 DEF CancelReadOffer, RowTypes, SlotOK, Locals
  <2>2. OfferSlot(p)'
    BY <2>1 DEF OfferSlot, OnlyChance
  <2> QED BY <2>1, <2>2, OfferStay
<1>5. CASE CancelClear(p)
  <2>1. lv[p].ride \in Rides /\ pc[p] \in KnowsOffer
    BY <1>5 DEF CancelClear, KnowsOffer, RowTypes, SlotOK, RideLabels, Labels, AvailLabels,
       LocLabels
  <2>2. OfferSlot(p)'
    BY <1>5 DEF CancelClear, OfferSlot, OnlyChance, KnowsOffer, RowTypes, SlotOK
  <2> QED BY <1>5, <2>1, <2>2, OfferCleared DEF CancelClear
<1>6. CASE RideCall(p)
  BY <1>6, OfferStay DEF RideCall, CreateBegin, CancelBegin, OfferSlot, OnlyChance,
     KnowsOffer, RowTypes, SlotOK
<1> QED BY <1>1, <1>2, <1>3, <1>4, <1>5, <1>6 DEF RideStep

LEMMA DriverServiceOffers ==
  ASSUME RowTypes, OfferInv, NEW p \in Handlers, Turn(p),
         \A r \in Rides : Booked(r) => Booked(r)',
         DriverStep(p) \/ DriverCall(p)
  PROVE  OfferInv'
<1> p \in Procs BY DEF Procs
<1> USE DEF At, Begin, Finish, Goto
<1>0. pc[p] \in {"accept_clear", "reject_offer", "reject_clear", "reject_enqueue"} =>
        lv[p].ride \in Rides
  BY DEF RowTypes, SlotOK, RideLabels, Labels, AvailLabels, LocLabels
<1>1. CASE PendingReadOffer(p) \/ AcceptInvalidOffer(p) \/ AcceptRefused(p)
  BY <1>1, OfferStay DEF PendingReadOffer, AcceptInvalidOffer, AcceptRefused, OfferSlot,
     OnlyChance, KnowsOffer, RowTypes, SlotOK
<1>2. CASE \/ AcceptReadOffer(p) \/ AcceptLockRide(p) \/ AcceptLockDriver(p) \/ AcceptCommit(p)
  <2>1. /\ pc[p] \in KnowsOffer /\ pc'[p] \in KnowsOffer \ {"reject_clear"}
        /\ UNCHANGED <<offer, index, queue>>
    BY <1>2 DEF AcceptReadOffer, AcceptLockRide, AcceptLockDriver, AcceptCommit, KnowsOffer,
       RowTypes, SlotOK
  <2>2. lv'[p].ride = lv[p].ride /\ lv'[p].driver = lv[p].driver
    <3>1. lv \in [Procs -> Locals] /\ lv[p] \in Locals
      BY DEF RowTypes, SlotOK
    <3>2. CASE AcceptCommit(p)
      BY <3>1, <3>2 DEF AcceptCommit, NoLocals
    <3>3. CASE AcceptReadOffer(p) \/ AcceptLockRide(p) \/ AcceptLockDriver(p)
      BY <3>1, <3>3 DEF AcceptReadOffer, AcceptLockRide, AcceptLockDriver, Locals
    <3> QED BY <1>2, <3>2, <3>3
  <2>3. OfferSlot(p)'
    BY <2>1, <2>2 DEF OfferInv, OfferSlot, OnlyChance, KnowsOffer, HasOffer
  <2> QED BY <2>1, <2>3, OfferStay
<1>3. CASE AcceptClear(p) \/ RejectClear(p)
  <2>1. pc[p] \in KnowsOffer /\ lv[p].ride \in Rides
    BY <1>3, <1>0 DEF AcceptClear, RejectClear, KnowsOffer, RowTypes, SlotOK
  <2>2. /\ ClearOffer(lv[p].ride, lv[p].driver) /\ UNCHANGED <<queue, rstatus>>
        /\ \/ pc'[p] = "idle"
           \/ pc'[p] = "reject_enqueue" /\ pc[p] = "reject_clear" /\ lv' = lv
    BY <1>3 DEF AcceptClear, RejectClear, RowTypes, SlotOK
  <2>3. ~HasOffer(lv[p].ride)'  \/ lv'[p].ride # lv[p].ride
    BY <2>1, <2>2 DEF ClearOffer, HasOffer, RowTypes
  <2>4. OfferSlot(p)'
    BY <2>1, <2>2, <2>3 DEF OfferSlot, OnlyChance, KnowsOffer, OfferInv
  <2> QED BY <2>1, <2>2, <2>4, OfferCleared
<1>4. CASE RejectReadOffer(p)
  <2>1. pc[p] = "reject_offer" /\ lv[p].ride \in Rides /\ UNCHANGED <<offer, index, queue>>
    BY <1>4, <1>0 DEF RejectReadOffer, RowTypes, SlotOK
  <2>2. \/ pc'[p] = "idle"
        \/ pc'[p] = "reject_clear" /\ lv' = lv /\ HasOffer(lv[p].ride)
    BY <1>4 DEF RejectReadOffer, RowTypes, SlotOK
  <2>3. OfferSlot(p)'
    BY <2>1, <2>2 DEF OfferSlot, OnlyChance, KnowsOffer, OfferInv, Chances, HasOffer
  <2> QED BY <2>1, <2>3, OfferStay
<1>5. CASE RejectEnqueue(p)
  <2>1. lv[p].ride \in Rides /\ queue[lv[p].ride] = 0 /\ ~HasOffer(lv[p].ride)
    BY <1>5, <1>0 DEF RejectEnqueue, OfferInv, OfferSlot, OnlyChance, RowTypes, SlotOK
  <2>2. Chances' /\ ReverseLookup' /\ OfferSlot(p)'
    BY <1>5, <2>1 DEF RejectEnqueue, Enqueue, OfferInv, Chances, ReverseLookup, HasOffer,
       Booked, OfferSlot, OnlyChance, KnowsOffer, RowTypes, SlotOK
  <2> QED BY <2>2, OfferStep
<1>6. CASE \/ AvailabilityInsert(p) \/ AvailabilityGeoRem(p) \/ AvailabilityCommit(p)
           \/ LocationInsert(p) \/ LocationGeoAdd(p) \/ LocationThrottle(p) \/ LocationCommit(p)
  <2>1. UNCHANGED <<offer, index, queue>>
    BY <1>6 DEF AvailabilityInsert, AvailabilityGeoRem, AvailabilityCommit, LocationInsert,
       LocationGeoAdd, LocationThrottle, LocationCommit, InsertDriver, driverFrame
  <2>2. pc'[p] \in {"idle", "avail_georem", "avail_commit", "loc_throttle", "loc_commit"}
    BY <1>6 DEF AvailabilityInsert, AvailabilityGeoRem, AvailabilityCommit, LocationInsert,
       LocationGeoAdd, LocationThrottle, LocationCommit, InsertDriver, AfterEnsure,
       RowTypes, SlotOK
  <2> QED BY <2>1, <2>2, OfferStay DEF OfferSlot, OnlyChance, KnowsOffer
<1>7. ASSUME NEW d \in Drivers, AcceptBegin(p, d) \/ RejectBegin(p, d) PROVE OfferInv'
  <2>1. /\ pc'[p] \in {"accept_offer", "reject_offer"}
        /\ UNCHANGED <<offer, index, queue>>
        /\ index[d] # None /\ inbox[d].ride = index[d]
    BY <1>7 DEF AcceptBegin, RejectBegin, RowTypes, SlotOK
  <2>2. lv'[p].ride = index[d] /\ lv'[p].driver = d
    <3>1. lv \in [Procs -> Locals]
      BY DEF RowTypes, SlotOK
    <3>2. CASE AcceptBegin(p, d)
      BY <3>1, <3>2, <2>1 DEF AcceptBegin, NoLocals
    <3>3. CASE RejectBegin(p, d)
      BY <3>1, <3>3, <2>1 DEF RejectBegin, NoLocals
    <3> QED BY <1>7, <3>2, <3>3
  <2>3. OfferSlot(p)'
    BY <2>1, <2>2 DEF OfferInv, ReverseLookup, OfferSlot, OnlyChance
  <2> QED BY <2>1, <2>3, OfferStay
<1>8. ASSUME NEW d \in Drivers, NEW s \in DriverStatus,
             PendingBegin(p, d) \/ AvailabilityBegin(p, d, s) \/ LocationBegin(p, d)
      PROVE  OfferInv'
  <2>1. UNCHANGED <<offer, index, queue>>
    BY <1>8 DEF PendingBegin, AvailabilityBegin, LocationBegin, driverFrame
  <2>2. pc'[p] \in {"pending_offer", "avail_insert", "avail_georem", "avail_commit",
                    "loc_insert", "loc_geo", "loc_throttle"}
    BY <1>8 DEF PendingBegin, AvailabilityBegin, LocationBegin, AfterEnsure, AfterLoad,
       RowTypes, SlotOK
  <2> QED BY <2>1, <2>2, OfferStay DEF OfferSlot, OnlyChance, KnowsOffer
<1>9. DriverStatus # {}
  BY DEF DriverStatus
<1> QED BY <1>1, <1>2, <1>3, <1>4, <1>5, <1>6, <1>7, <1>8, <1>9 DEF DriverStep, DriverCall

LEMMA MatchWorkerOffers ==
  ASSUME RowTypes, RideInv, OfferInv, NEW w \in Workers, Turn(w),
         \A r \in Rides : Booked(r) => Booked(r)',
         MatchStep(w) \/ MatchCall(w)
  PROVE  OfferInv'
<1> w \in Procs BY DEF Procs
<1> USE DEF At, Begin, Finish, Goto
<1>1. CASE \/ MatchNotWanted(w) \/ MatchNoCandidates(w) \/ MatchNoneOnline(w)
           \/ MatchAssignBusy(w) \/ MatchRelease(w)
  BY <1>1, OfferStay DEF MatchNotWanted, MatchNoCandidates, MatchNoneOnline, MatchAssignBusy,
     MatchRelease, MatchReturn, OfferSlot, OnlyChance, KnowsOffer, RowTypes, SlotOK
<1>2. ASSUME \/ MatchLockRide(w) \/ MatchAssignLock(w)
             \/ \E near \in SUBSET Drivers : MatchGeoSearch(w, near)
             \/ \E d \in Drivers : MatchChoose(w, d)
      PROVE  OfferInv'
  <2>1. /\ pc[w] \in OnlyChance /\ pc'[w] \in OnlyChance
        /\ UNCHANGED <<offer, index, queue>>
    BY <1>2 DEF MatchLockRide, MatchAssignLock, MatchGeoSearch, MatchChoose, OnlyChance,
       RowTypes, SlotOK
  <2>2. lv'[w].ride = lv[w].ride
    <3>1. lv \in [Procs -> Locals] /\ lv[w] \in Locals
      BY DEF RowTypes, SlotOK
    <3>2. CASE MatchLockRide(w) \/ MatchAssignLock(w)
      BY <3>1, <3>2 DEF MatchLockRide, MatchAssignLock, Locals
    <3>3. ASSUME NEW near \in SUBSET Drivers, MatchGeoSearch(w, near) PROVE lv'[w].ride = lv[w].ride
      BY <3>1, <3>3 DEF MatchGeoSearch, Locals
    <3>4. ASSUME NEW d \in Drivers, MatchChoose(w, d) PROVE lv'[w].ride = lv[w].ride
      BY <3>1, <3>4 DEF MatchChoose, Locals
    <3> QED BY <1>2, <3>2, <3>3, <3>4
  <2>3. OfferSlot(w)'
    BY <2>1, <2>2 DEF OfferInv, OfferSlot, OnlyChance, KnowsOffer, HasOffer
  <2> QED BY <2>1, <2>3, OfferStay
<1>3. ASSUME NEW r \in Rides, MatchTake(w, r) PROVE OfferInv'
  <2>1. queue[r] = 1 /\ ~HasOffer(r)
    BY <1>3 DEF MatchTake, OfferInv, Chances, RowTypes
  <2>2. lv'[w].ride = r /\ pc'[w] = "match_lock"
    BY <1>3 DEF MatchTake, NoLocals, RowTypes, SlotOK
  <2>3. queue' = [queue EXCEPT ![r] = 0] /\ UNCHANGED <<offer, index, rstatus>>
    BY <1>3, <2>1 DEF MatchTake, matchFrame
  <2>4. Chances' /\ ReverseLookup'
    BY <2>1, <2>3 DEF OfferInv, Chances, ReverseLookup, HasOffer, Booked, RowTypes
  <2>5. OfferSlot(w)'
    BY <2>1, <2>2, <2>3 DEF OfferSlot, OnlyChance, KnowsOffer, HasOffer, RowTypes
  <2> QED BY <2>4, <2>5, OfferStep
<1>4. ASSUME NEW t \in Tokens, MatchStore(w, t) PROVE OfferInv'
  <2> DEFINE r == lv[w].ride
             d == lv[w].driver
  <2>1. r \in Rides /\ d \in Drivers
    BY <1>4 DEF MatchStore, RowTypes, SlotOK, RideLabels, DriverLabels, Labels, AvailLabels,
       LocLabels
  <2>2. queue[r] = 0 /\ ~HasOffer(r) /\ Booked(r)
    BY <1>4 DEF MatchStore, OfferInv, OfferSlot, OnlyChance, RideInv, SlotSees, MatchLocked,
       Booked, NoRow
  <2>3. /\ offer' = [offer EXCEPT ![r] = [driver |-> d, token |-> t]]
        /\ index' = [index EXCEPT ![d] = r]
        /\ UNCHANGED <<queue, rstatus>> /\ pc'[w] = "match_release"
    BY <1>4 DEF MatchStore, StoreOffer, matchFrame, RowTypes, SlotOK
  <2>4. Chances'
    BY <2>1, <2>2, <2>3 DEF OfferInv, Chances, HasOffer, Booked, RowTypes
  <2>5. ASSUME NEW e \in Drivers, index'[e] # None PROVE offer'[index'[e]].driver = e
    <3>1. CASE e = d
      BY <2>1, <2>3, <3>1 DEF RowTypes
    <3>2. CASE e # d
      <4>1. index'[e] = index[e] /\ index[e] \in Rides /\ index[e] # r
        BY <2>1, <2>2, <2>3, <2>5, <3>2, NoIndexWithoutOffer DEF OfferInv, RowTypes
      <4>2. offer[index[e]].driver = e
        BY <2>5, <4>1 DEF OfferInv, ReverseLookup
      <4> QED BY <2>3, <4>1, <4>2 DEF RowTypes
    <3> QED BY <3>1, <3>2
  <2>6. OfferSlot(w)'
    BY <2>3 DEF OfferSlot, OnlyChance, KnowsOffer
  <2> QED BY <2>4, <2>5, <2>6, OfferStep DEF ReverseLookup
<1> QED BY <1>1, <1>2, <1>3, <1>4 DEF MatchStep, MatchCall

LEMMA TripServiceOffers ==
  ASSUME RowTypes, OfferInv, NEW p \in Handlers, Turn(p),
         \A r \in Rides : Booked(r) => Booked(r)',
         TripStep(p) \/ TripCall(p)
  PROVE  OfferInv'
<1> p \in Procs BY DEF Procs
<1>1. UNCHANGED <<offer, index, queue>>
  BY DEF TripStep, TripCall, TripBegin, TripLoadRide, TripRefused, TripCommit, PauseCommit,
     EndLoadDriver, EndLockDriver, EndCommit, tripFrame, redis
<1>2. \A op \in TripOps : AfterCheck(op) \in {"trip_commit", "pause_commit", "end_driver"}
  BY DEF AfterCheck, TripOps
<1>3. pc'[p] \in {"idle", "trip_ride", "trip_commit", "pause_commit", "end_driver", "end_lock",
                  "end_commit"}
  BY <1>2 DEF TripStep, TripCall, TripBegin, TripLoadRide, TripRefused, TripCommit,
     PauseCommit, EndLoadDriver, EndLockDriver, EndCommit, At, Begin, Finish, Goto,
     RowTypes, SlotOK
<1> QED BY <1>1, <1>3, OfferStay DEF OfferSlot, OnlyChance, KnowsOffer

(* An offer that lapses takes the index entry that leads to it along. *)
LEMMA EnvironmentOffers ==
  ASSUME RowTypes, OneBusy, OfferInv, Environment
  PROVE  OfferInv'
<1>1. ASSUME NEW r \in Rides, OfferExpires(r) PROVE OfferInv'
  <2>1. /\ offer'[r] = NoOffer /\ offer[r].driver \in Drivers
        /\ \A s \in Rides : s # r => offer'[s] = offer[s]
        /\ \A d \in Drivers : index'[d] # None => index'[d] = index[d]
        /\ index'[offer[r].driver] # r
        /\ UNCHANGED <<queue, rstatus, pc, lv>>
    <3>1. HasOffer(r) /\ offer[r].driver \in Drivers
      BY <1>1 DEF OfferExpires, OfferInv, Chances, RowTypes
    <3> QED BY <1>1, <3>1 DEF OfferExpires, RowTypes
  <2>2. \A s \in Rides : HasOffer(s)' => offer'[s] = offer[s]
    BY <2>1 DEF HasOffer
  <2>3. Chances'
    BY <2>1, <2>2 DEF OfferInv, Chances, HasOffer, Booked
  <2>4. ReverseLookup'
    BY <2>1 DEF OfferInv, ReverseLookup, RowTypes
  <2>5. ASSUME NEW p \in Procs PROVE OfferSlot(p)'
    BY <2>1, <2>2 DEF OfferInv, OfferSlot, OnlyChance, KnowsOffer, HasOffer, RowTypes, SlotOK,
       RideLabels, Labels, AvailLabels, LocLabels
  <2> QED BY <2>3, <2>4, <2>5 DEF OfferInv
<1>2. ASSUME NEW d \in Drivers, IndexExpires(d) PROVE OfferInv'
  BY <1>2 DEF IndexExpires, OfferInv, ReverseLookup
<1>3. ASSUME NEW p \in Procs, Fail(p) \/ DeadlockVictim(p) PROVE OfferInv'
  <2>1. Turn(p) /\ Abandon(p) /\ pc'[p] = "idle"
    BY <1>3, AbandonTurn DEF RowTypes
  <2> QED BY <2>1, OfferStay DEF Abandon, redis, Booked, OfferSlot, OnlyChance, KnowsOffer
<1>4. ASSUME NEW r \in Rides, AssignLockExpires(r) PROVE OfferInv'
  BY <1>4 DEF AssignLockExpires, OfferInv, ReverseLookup, Chances, OfferSlot, HasOffer, Booked
<1>5. ASSUME NEW d \in Drivers, ThrottleExpires(d) PROVE OfferInv'
  BY <1>5 DEF ThrottleExpires, OfferInv, ReverseLookup, Chances, OfferSlot, HasOffer, Booked
<1> QED BY <1>1, <1>2, <1>3, <1>4, <1>5 DEF Environment

LEMMA OfferNext ==
  ASSUME Serial, TypeInv, RideInv, OneBusy, OfferInv, [Next]_vars
  PROVE  OfferInv'
<1>1. RowTypes /\ SlotOK
  BY RowFacts, SlotFacts
<1>2. \A r \in Rides : Booked(r) => Booked(r)'
  BY <1>1, BookedStays
<1>3. CASE UNCHANGED vars
  BY <1>3 DEF vars, redis, OfferInv, ReverseLookup, Chances, OfferSlot, HasOffer, Booked
<1>4. ASSUME NEW p \in Handlers, \/ RideStep(p) \/ DriverStep(p) \/ TripStep(p) \/ Call(p)
      PROVE  OfferInv'
  BY <1>1, <1>2, <1>4, RideServiceTurn, DriverServiceTurn, TripServiceTurn,
     RideServiceOffers, DriverServiceOffers, TripServiceOffers DEF Call
<1>5. ASSUME NEW w \in Workers, MatchStep(w) \/ MatchCall(w) PROVE OfferInv'
  BY <1>1, <1>2, <1>5, MatchWorkerTurn, MatchWorkerOffers
<1> QED BY <1>1, <1>3, <1>4, <1>5, EnvironmentOffers DEF Next, Step, Procs

LEMMA OffersKnown == ASSUME Serial PROVE Spec => []OfferInv
<1>1. Init => OfferInv
  BY DEF Init, OfferInv, ReverseLookup, Chances, OfferSlot, OnlyChance, KnowsOffer, HasOffer
<1>2. TypeInv /\ RideInv /\ OneBusy /\ OfferInv /\ [Next]_vars => OfferInv'
  BY OfferNext
<1> QED BY <1>1, <1>2, TypesAndArguments, RidesAndReads, OneAtATime, PTL DEF Spec

(* A driver's index key leads to an offer made to that driver. *)
THEOREM ReverseLookupCorrect == ASSUME Serial PROVE Spec => []ReverseLookup
<1>1. OfferInv => ReverseLookup
  BY DEF OfferInv
<1> QED BY <1>1, OffersKnown, PTL

(* A ride has one chance at a time: an offer out or a task in the queue. *)
THEOREM OneChanceCorrect == ASSUME Serial PROVE Spec => []OneChance
<1>1. TypeInv /\ OfferInv => OneChance
  BY RowFacts DEF OfferInv, Chances, OneChance, RowTypes
<1> QED BY <1>1, OffersKnown, TypesAndArguments, PTL

------------------------------------------------------------------------------
(* The rows of a ride and its trip.  They say the same; what a slot has    *)
(* read of them is what they are; a ride that is offered and has no driver *)
(* is in matching, and so is one whose offer an accept has found.          *)
RowsAgree == \A r \in Rides : rstatus[r] = RideStatusOf(tstatus[r])

Offered == \A r \in Rides : HasOffer(r) => /\ offer[r].token # None
                                           /\ rdriver[r] = None => rstatus[r] = "matching"

Apps == \A d \in Drivers : inbox[d].ride # None => inbox[d].token # None

StatusSlot(p) ==
  LET r == lv[p].ride IN
  /\ pc[p] \in RideRead => lv[p].rst = rstatus[r]
  /\ pc[p] \in TripRead => lv[p].tst = tstatus[r]
  /\ pc[p] = "trip_commit" => MayTransition(tstatus[r], "IN_PROGRESS")
  /\ pc[p] = "pause_commit" => MayTransition(tstatus[r], "PAUSED")
  /\ pc[p] \in {"end_driver", "end_lock", "end_commit"} =>
       MayTransition(tstatus[r], "COMPLETED") /\ lv[p].drv = rdriver[r]
  /\ pc[p] = "cancel_commit" => ~HasOffer(r)
  /\ pc[p] = "accept_offer" => lv[p].token # None
  /\ pc[p] \in {"accept_ride", "accept_driver", "accept_commit"} /\ rdriver[r] = None
       => rstatus[r] = "matching"

StatusInv == RowsAgree /\ Offered /\ Apps /\ \A p \in Procs : StatusSlot(p)

(* The labels at which StatusSlot says nothing. *)
Careless == Labels \ (RideRead \cup TripRead \cup
                      {"accept_offer", "accept_ride", "accept_driver", "accept_commit"})

LEMMA StatusStep ==
  ASSUME NEW p \in Procs, Turn(p), RowsAgree', Offered', Apps', StatusSlot(p)'
  PROVE  StatusInv'
BY DEF StatusInv, StatusSlot, Turn, Alone, RideRead, TripRead, Moving

LEMMA CarelessSlot ==
  ASSUME NEW p \in Procs, pc'[p] \in Careless
  PROVE  StatusSlot(p)'
BY DEF Careless, StatusSlot, RideRead, TripRead, Moving

(* A step that leaves the rows alone, and makes no offer. *)
LEMMA StatusStay ==
  ASSUME NEW p \in Procs, Turn(p), StatusInv, UNCHANGED <<rstatus, tstatus, rdriver, inbox>>,
         \A r \in Rides : offer'[r] \in {offer[r], NoOffer},
         StatusSlot(p)'
  PROVE  StatusInv'
BY StatusStep DEF StatusInv, RowsAgree, Offered, Apps, HasOffer

LEMMA ClearedOffers ==
  ASSUME RowTypes, NEW r, NEW d, ClearOffer(r, d)
  PROVE  \A s \in Rides : offer'[s] \in {offer[s], NoOffer}
BY DEF RowTypes, ClearOffer

LEMMA MoveFacts ==
  /\ \A t : RideStatusOf(t) = "matching" => t = "MATCHING"
  /\ \A t \in TripStatus : /\ MayTransition(t, "IN_PROGRESS") => t \in MovingTrip
                           /\ MayTransition(t, "COMPLETED") => t = "IN_PROGRESS"
                           /\ MayTransition(t, "PAUSED") => t = "IN_PROGRESS"
                           /\ RideStatusOf(t) \in ActiveRideStatuses => MayTransition(t, "CANCELLED")
BY DEF RideStatusOf, TripStatus, MayTransition, Allowed, TerminalTrip, MovingTrip, RideStatus,
   ActiveRideStatuses, NoRow

LEMMA RideServiceStatus ==
  ASSUME RowTypes, RideInv, OfferInv, StatusInv, NEW p \in Handlers, Turn(p),
         RideStep(p) \/ RideCall(p)
  PROVE  StatusInv'
<1> p \in Procs /\ lv[p] \in Locals BY DEF Procs, RowTypes, SlotOK
<1> USE DEF At, Begin, Finish, Goto
<1>1. CASE \/ CreateReplay(p) \/ CreateNoReplay(p) \/ CreateConflict(p) \/ CreateNoConflict(p)
           \/ CreateEnsureRider(p) \/ CreateIntegrityError(p) \/ CreateEnqueue(p)
           \/ CancelRefused(p)
  <2>1. pc'[p] \in {"idle", "create_active", "create_rider", "create_commit"}
    BY <1>1 DEF CreateReplay, CreateNoReplay, CreateConflict, CreateNoConflict,
       CreateEnsureRider, CreateIntegrityError, CreateEnqueue, CancelRefused, RowTypes, SlotOK
  <2>2. UNCHANGED <<rstatus, tstatus, rdriver, inbox, offer>>
    BY <1>1 DEF CreateReplay, CreateNoReplay, CreateConflict, CreateNoConflict,
       CreateEnsureRider, CreateIntegrityError, CreateEnqueue, CancelRefused, rideFrame
  <2> QED BY <2>1, <2>2, StatusStay, CarelessSlot DEF Careless, Labels, RideRead, TripRead,
             Moving
<1>2. CASE CreateCommit(p)
  <2> DEFINE r == lv[p].ride
  <2>1. r \in Rides /\ ~Booked(r)
    BY <1>2 DEF CreateCommit, RideInv, SlotSees, Before, RowTypes, SlotOK, RideLabels, Labels,
       AvailLabels, LocLabels
  <2>2. ~HasOffer(r)
    BY <2>1 DEF OfferInv, Chances
  <2>3. /\ rstatus' = [rstatus EXCEPT ![r] = "matching"]
        /\ tstatus' = [tstatus EXCEPT ![r] = "MATCHING"]
        /\ UNCHANGED <<offer, rdriver, inbox>> /\ pc'[p] = "create_enqueue"
    BY <1>2 DEF CreateCommit, rideFrame, RowTypes, SlotOK
  <2>4. RowsAgree' /\ Offered' /\ Apps'
    BY <2>1, <2>2, <2>3 DEF StatusInv, RowsAgree, Offered, Apps, HasOffer, RowTypes, RideStatusOf
  <2>5. StatusSlot(p)'
    BY <2>3, CarelessSlot DEF Careless, Labels, RideRead, TripRead, Moving
  <2> QED BY <2>4, <2>5, StatusStep
<1>3. ASSUME NEW r \in Rides, CancelBegin(p, r) PROVE StatusInv'
  <2>1. pc'[p] = "cancel_trip" /\ UNCHANGED <<rstatus, tstatus, rdriver, inbox, offer>>
    BY <1>3 DEF CancelBegin, rideFrame, RowTypes, SlotOK
  <2>2. lv'[p].ride = r /\ lv'[p].rst = rstatus[r]
    BY <1>3 DEF CancelBegin, NoLocals, RowTypes, SlotOK
  <2>3. StatusSlot(p)'
    BY <2>1, <2>2 DEF StatusSlot, RideRead, TripRead, Moving
  <2> QED BY <2>1, <2>3, StatusStay
<1>4. CASE CancelLoadTrip(p)
  <2>1. /\ pc[p] = "cancel_trip" /\ pc'[p] = "cancel_offer"
        /\ UNCHANGED <<rstatus, tstatus, rdriver, inbox, offer>>
    BY <1>4 DEF CancelLoadTrip, rideFrame, RowTypes, SlotOK
  <2>2. /\ lv'[p].ride = lv[p].ride /\ lv'[p].rst = lv[p].rst
        /\ lv'[p].tst = tstatus[lv[p].ride]
    BY <1>4 DEF CancelLoadTrip, Locals, RowTypes, SlotOK
  <2>3. StatusSlot(p)'
    BY <2>1, <2>2 DEF StatusInv, StatusSlot, RideRead, TripRead, Moving
  <2> QED BY <2>1, <2>3, StatusStay
<1>5. CASE CancelReadOffer(p)
  <2>1. /\ pc[p] = "cancel_offer" /\ UNCHANGED <<rstatus, tstatus, rdriver, inbox, offer>>
        /\ \/ pc'[p] = "cancel_clear"
           \/ pc'[p] = "cancel_commit" /\ ~HasOffer(lv[p].ride)
    BY <1>5 DEF CancelReadOffer, rideFrame, RowTypes, SlotOK
  <2>2. lv'[p].ride = lv[p].ride /\ lv'[p].rst = lv[p].rst /\ lv'[p].tst = lv[p].tst
    BY <1>5 DEF CancelReadOffer, Locals, RowTypes, SlotOK
  <2>3. StatusSlot(p)'
    BY <2>1, <2>2 DEF StatusInv, StatusSlot, RideRead, TripRead, Moving, HasOffer
  <2> QED BY <2>1, <2>3, StatusStay
<1>6. CASE CancelClear(p)
  <2>1. /\ pc[p] = "cancel_clear" /\ pc'[p] = "cancel_commit" /\ lv' = lv
        /\ ClearOffer(lv[p].ride, lv[p].driver) /\ UNCHANGED <<rstatus, tstatus, rdriver, inbox>>
    BY <1>6 DEF CancelClear, rideFrame, RowTypes, SlotOK
  <2>2. lv[p].ride \in Rides
    BY <2>1 DEF RowTypes, SlotOK, RideLabels, Labels, AvailLabels, LocLabels
  <2>3. StatusSlot(p)'
    BY <2>1, <2>2 DEF StatusInv, StatusSlot, RideRead, TripRead, Moving, HasOffer, ClearOffer,
       RowTypes
  <2> QED BY <2>1, <2>3, StatusStay, ClearedOffers
<1>7. CASE CancelCommit(p)
  <2> DEFINE r == lv[p].ride
  <2>1. /\ pc[p] = "cancel_commit" /\ pc'[p] = "idle" /\ UNCHANGED <<offer, rdriver, inbox>>
        /\ lv[p].rst \in ActiveRideStatuses
        /\ rstatus' = [rstatus EXCEPT ![r] = "cancelled"]
    BY <1>7 DEF CancelCommit, rideFrame, RowTypes, SlotOK
  <2>2. r \in Rides
    BY <2>1 DEF RowTypes, SlotOK, RideLabels, Labels, AvailLabels, LocLabels
  <2>3. /\ lv[p].rst = rstatus[r] /\ lv[p].tst = tstatus[r] /\ ~HasOffer(r)
        /\ rstatus[r] = RideStatusOf(tstatus[r])
    BY <2>1, <2>2 DEF StatusInv, StatusSlot, RideRead, TripRead, RowsAgree
  <2>4. tstatus' = [tstatus EXCEPT ![r] = "CANCELLED"]
    <3>1. tstatus[r] \notin TerminalTrip
      BY <2>1, <2>3 DEF ActiveRideStatuses, TerminalTrip, RideStatusOf
    <3> QED BY <1>7, <2>3, <3>1 DEF CancelCommit
  <2>5. RowsAgree' /\ Offered' /\ Apps'
    BY <2>1, <2>2, <2>3, <2>4 DEF StatusInv, RowsAgree, Offered, Apps, HasOffer, RowTypes,
       RideStatusOf
  <2> QED BY <2>1, <2>5, StatusStep DEF StatusSlot, RideRead, TripRead, Moving
<1>8. ASSUME NEW u \in Riders, NEW k \in OrNone(Keys), NEW r \in Rides, CreateBegin(p, u, k, r)
      PROVE  StatusInv'
  <2>1. pc'[p] \in Careless /\ UNCHANGED <<rstatus, tstatus, rdriver, inbox, offer>>
    BY <1>8 DEF CreateBegin, rideFrame, Careless, Labels, RideRead, TripRead, Moving, RowTypes,
       SlotOK
  <2> QED BY <2>1, StatusStay, CarelessSlot
<1> QED BY <1>1, <1>2, <1>3, <1>4, <1>5, <1>6, <1>7, <1>8 DEF RideStep, RideCall

LEMMA TripServiceStatus ==
  ASSUME RowTypes, RideInv, StatusInv, NEW p \in Handlers, Turn(p), TripStep(p) \/ TripCall(p)
  PROVE  StatusInv'
<1> p \in Procs /\ lv[p] \in Locals BY DEF Procs, RowTypes, SlotOK
<1> USE DEF At, Begin, Finish, Goto
<1> DEFINE r == lv[p].ride
<1>0. /\ pc[p] \in Moving \cup {"trip_ride"} => r \in Rides
      /\ StatusSlot(p) /\ SlotSees(p)
  BY DEF Moving, StatusInv, RideInv, RowTypes, SlotOK, RideLabels, Labels, AvailLabels, LocLabels
<1>1. UNCHANGED <<offer, rdriver, inbox>>
  BY DEF TripStep, TripCall, TripBegin, TripLoadRide, TripRefused, TripCommit, PauseCommit,
     EndLoadDriver, EndLockDriver, EndCommit, tripFrame, redis
<1>2. ASSUME NEW op \in TripOps, NEW q \in Rides, TripBegin(p, op, q) PROVE StatusInv'
  <2>1. pc'[p] = "trip_ride" /\ UNCHANGED <<rstatus, tstatus>>
    BY <1>2 DEF TripBegin, RowTypes, SlotOK
  <2>2. lv'[p].ride = q /\ lv'[p].tst = tstatus[q]
    BY <1>2 DEF TripBegin, NoLocals, RowTypes, SlotOK
  <2>3. StatusSlot(p)'
    BY <2>1, <2>2 DEF StatusSlot, RideRead, TripRead, Moving
  <2> QED BY <1>1, <2>1, <2>3, StatusStay
<1>3. CASE TripLoadRide(p)
  <2> DEFINE op == lv[p].want
  <2>1. /\ pc[p] = "trip_ride" /\ pc'[p] = AfterCheck(op) /\ UNCHANGED <<rstatus, tstatus>>
        /\ MayTransition(lv[p].tst, TripTarget(op)) /\ op \in TripOps
    BY <1>3 DEF TripLoadRide, RowTypes, SlotOK
  <2>2. /\ lv'[p].ride = r /\ lv'[p].rst = rstatus[r] /\ lv'[p].tst = lv[p].tst
        /\ lv'[p].drv = IF op = "end" THEN rdriver[r] ELSE None
    BY <1>3 DEF TripLoadRide, Locals, RowTypes, SlotOK
  <2>3. lv[p].tst = tstatus[r]
    BY <1>0, <2>1 DEF StatusSlot, TripRead
  <2>4. \/ AfterCheck(op) = "trip_commit" /\ TripTarget(op) = "IN_PROGRESS"
        \/ AfterCheck(op) = "pause_commit" /\ TripTarget(op) = "PAUSED"
        \/ AfterCheck(op) = "end_driver" /\ TripTarget(op) = "COMPLETED" /\ op = "end"
    BY <2>1 DEF AfterCheck, TripTarget, TripOps
  <2>5. StatusSlot(p)'
    BY <1>1, <2>1, <2>2, <2>3, <2>4 DEF StatusSlot, RideRead, TripRead, Moving
  <2> QED BY <1>1, <2>1, <2>5, StatusStay
<1>4. CASE TripRefused(p)
  BY <1>1, <1>4, StatusStay DEF TripRefused, StatusSlot, RideRead, TripRead, Moving, RowTypes,
     SlotOK
<1>5. CASE EndLoadDriver(p) \/ EndLockDriver(p)
  <2>1. /\ pc[p] \in {"end_driver", "end_lock"} /\ pc'[p] \in {"end_lock", "end_commit"}
        /\ UNCHANGED <<rstatus, tstatus>>
    BY <1>5 DEF EndLoadDriver, EndLockDriver, RowTypes, SlotOK
  <2>2. /\ lv'[p].ride = r /\ lv'[p].rst = lv[p].rst /\ lv'[p].tst = lv[p].tst
        /\ lv'[p].drv = lv[p].drv
    BY <1>5 DEF EndLoadDriver, EndLockDriver, Locals, RowTypes, SlotOK
  <2>3. StatusSlot(p)'
    BY <1>0, <1>1, <2>1, <2>2 DEF StatusSlot, RideRead, TripRead, Moving
  <2> QED BY <1>1, <2>1, <2>3, StatusStay
<1>6. CASE TripCommit(p) \/ PauseCommit(p) \/ EndCommit(p)
  <2>1. pc[p] \in Moving /\ pc'[p] = "idle" /\ r \in Rides
    BY <1>0, <1>6 DEF TripCommit, PauseCommit, EndCommit, Moving, RowTypes, SlotOK
  <2>2. /\ lv[p].rst = rstatus[r] /\ lv[p].tst = tstatus[r]
        /\ rstatus[r] = RideStatusOf(tstatus[r]) /\ tstatus[r] \in TripStatus
    <3>1. /\ lv[p].rst = rstatus[r] /\ lv[p].tst = tstatus[r] /\ lv[p].tst \in MovingTrip
          /\ rstatus[r] = RideStatusOf(tstatus[r])
      BY <1>0, <2>1 DEF StatusSlot, SlotSees, RideRead, TripRead, StatusInv, RowsAgree
    <3> QED BY <3>1 DEF MovingTrip, TripStatus
  <2>3. rdriver[r] # None
    BY <1>0, <2>1 DEF SlotSees, TripRead
  <2>4. CASE TripCommit(p)
    <3>1. /\ tstatus' = [tstatus EXCEPT ![r] = "IN_PROGRESS"]
          /\ rstatus' = [rstatus EXCEPT ![r] = "in_progress"]
      BY <2>1, <2>2, <2>4 DEF TripCommit, RowTypes
    <3> QED BY <1>1, <2>1, <2>3, <3>1, StatusStep DEF StatusInv, RowsAgree, Offered, Apps,
               HasOffer, RowTypes, RideStatusOf, StatusSlot, RideRead, TripRead, Moving
  <2>5. CASE PauseCommit(p)
    <3>1. /\ tstatus' = [tstatus EXCEPT ![r] = "PAUSED"] /\ rstatus' = rstatus
          /\ tstatus[r] = "IN_PROGRESS"
      BY <1>0, <2>2, <2>5, MoveFacts DEF PauseCommit, StatusSlot
    <3> QED BY <1>1, <2>1, <2>2, <3>1, StatusStep DEF StatusInv, RowsAgree, Offered, Apps,
               HasOffer, RowTypes, RideStatusOf, StatusSlot, RideRead, TripRead, Moving
  <2>6. CASE EndCommit(p)
    <3>1. tstatus[r] = "IN_PROGRESS"
      BY <1>0, <2>2, <2>6, MoveFacts DEF EndCommit, StatusSlot
    <3>2. /\ tstatus' = [tstatus EXCEPT ![r] = "COMPLETED"]
          /\ rstatus' = [rstatus EXCEPT ![r] = "completed"]
      BY <2>2, <2>6, <3>1 DEF EndCommit, RideStatusOf
    <3> QED BY <1>1, <2>1, <2>3, <3>2, StatusStep DEF StatusInv, RowsAgree, Offered, Apps,
               HasOffer, RowTypes, RideStatusOf, StatusSlot, RideRead, TripRead, Moving
  <2> QED BY <1>6, <2>4, <2>5, <2>6
<1> QED BY <1>2, <1>3, <1>4, <1>5, <1>6 DEF TripStep, TripCall

LEMMA MatchWorkerStatus ==
  ASSUME RowTypes, RideInv, StatusInv, NEW w \in Workers, Turn(w), MatchStep(w) \/ MatchCall(w)
  PROVE  StatusInv'
<1> w \in Procs BY DEF Procs
<1> USE DEF At, Begin, Finish, Goto
<1>1. UNCHANGED <<rstatus, tstatus, rdriver, inbox>>
  BY DEF MatchStep, MatchCall, MatchTake, MatchLockRide, MatchNotWanted, MatchGeoSearch,
     MatchNoCandidates, MatchChoose, MatchNoneOnline, MatchAssignLock, MatchAssignBusy,
     MatchStore, MatchRelease, MatchReturn, matchFrame
<1>2. pc'[w] \in {"idle", "match_lock", "match_geo", "match_rank", "match_setnx", "match_store",
                  "match_release"}
  BY DEF MatchStep, MatchCall, MatchTake, MatchLockRide, MatchNotWanted, MatchGeoSearch,
     MatchNoCandidates, MatchChoose, MatchNoneOnline, MatchAssignLock, MatchAssignBusy,
     MatchStore, MatchRelease, MatchReturn, RowTypes, SlotOK
<1>3. StatusSlot(w)'
  BY <1>2 DEF StatusSlot, RideRead, TripRead, Moving
<1>4. ASSUME NEW t \in Tokens, MatchStore(w, t) PROVE StatusInv'
  <2>1. rstatus[lv[w].ride] = "matching" /\ lv[w].ride \in Rides /\ t # None
    BY <1>4, ConstantsAssumption DEF MatchStore, RideInv, SlotSees, MatchLocked, RowTypes,
       SlotOK, RideLabels, Labels, AvailLabels, LocLabels
  <2>2. offer' = [offer EXCEPT ![lv[w].ride] = [driver |-> lv[w].driver, token |-> t]]
    BY <1>4 DEF MatchStore, StoreOffer
  <2> QED BY <1>1, <1>3, <2>1, <2>2, StatusStep DEF StatusInv, RowsAgree, Offered, Apps,
             HasOffer, RowTypes
<1>5. CASE UNCHANGED offer
  BY <1>1, <1>3, <1>5, StatusStay
<1> QED BY <1>4, <1>5 DEF MatchStep, MatchCall, MatchTake, MatchLockRide, MatchNotWanted,
       MatchGeoSearch, MatchNoCandidates, MatchChoose, MatchNoneOnline, MatchAssignLock,
       MatchAssignBusy, MatchRelease

LEMMA EnvironmentStatus ==
  ASSUME RowTypes, OneBusy, StatusInv, Environment
  PROVE  StatusInv'
<1>1. ASSUME NEW r \in Rides, OfferExpires(r) PROVE StatusInv'
  <2>1. /\ \A s \in Rides : offer'[s] \in {offer[s], NoOffer}
        /\ UNCHANGED <<rstatus, tstatus, rdriver, inbox, pc, lv>>
    BY <1>1 DEF OfferExpires, RowTypes
  <2>2. ASSUME NEW p \in Procs PROVE StatusSlot(p)'
    <3>1. pc[p] = "cancel_commit" => lv[p].ride \in Rides
      BY DEF RowTypes, SlotOK, RideLabels, Labels, AvailLabels, LocLabels
    <3> QED BY <2>1, <3>1 DEF StatusInv, StatusSlot, HasOffer
  <2> QED BY <2>1, <2>2 DEF StatusInv, RowsAgree, Offered, Apps, HasOffer
<1>2. ASSUME NEW p \in Procs, Fail(p) \/ DeadlockVictim(p) PROVE StatusInv'
  <2>1. Turn(p) /\ Abandon(p) /\ pc'[p] = "idle"
    BY <1>2, AbandonTurn DEF RowTypes
  <2> QED BY <2>1, StatusStay DEF Abandon, redis, StatusSlot, RideRead, TripRead, Moving
<1>4. ASSUME NEW r \in Rides, AssignLockExpires(r) PROVE StatusInv'
  BY <1>4 DEF AssignLockExpires, StatusInv, RowsAgree, Offered, Apps, StatusSlot, HasOffer
<1>5. ASSUME NEW d \in Drivers, IndexExpires(d) \/ ThrottleExpires(d) PROVE StatusInv'
  BY <1>5 DEF IndexExpires, ThrottleExpires, StatusInv, RowsAgree, Offered, Apps, StatusSlot,
     HasOffer
<1> QED BY <1>1, <1>2, <1>4, <1>5 DEF Environment

LEMMA DriverServiceStatus ==
  ASSUME RowTypes, RideInv, LockInv, StatusInv, NEW p \in Handlers, Turn(p),
         DriverStep(p) \/ DriverCall(p)
  PROVE  StatusInv'
<1> p \in Procs /\ lv[p] \in Locals BY DEF Procs, RowTypes, SlotOK
<1> USE DEF At, Begin, Finish, Goto
<1> DEFINE r == lv[p].ride
           d == lv[p].driver
<1>0. /\ pc[p] \in {"pending_offer", "accept_offer", "accept_ride", "accept_driver",
                    "accept_commit", "accept_clear", "reject_clear"} => r \in Rides /\ d \in Drivers
      /\ StatusSlot(p)
  BY DEF StatusInv, RowTypes, SlotOK, RideLabels, DriverLabels, Labels, AvailLabels, LocLabels
<1>1. CASE PendingReadOffer(p)
  <2>1. /\ pc[p] = "pending_offer" /\ pc'[p] = "idle"
        /\ UNCHANGED <<rstatus, tstatus, rdriver, offer>>
        /\ inbox' = [inbox EXCEPT ![d] = IF HasOffer(r) THEN [ride |-> r, token |-> offer[r].token]
                                                        ELSE NoAnswer]
    BY <1>1 DEF PendingReadOffer, RowTypes, SlotOK
  <2>2. Apps'
    BY <1>0, <2>1 DEF StatusInv, Apps, Offered, RowTypes, NoAnswer
  <2>3. RowsAgree' /\ Offered'
    BY <2>1 DEF StatusInv, RowsAgree, Offered, HasOffer
  <2> QED BY <2>1, <2>2, <2>3, StatusStep DEF StatusSlot, RideRead, TripRead, Moving
<1>2. CASE AcceptReadOffer(p)
  <2>1. /\ pc[p] = "accept_offer" /\ pc'[p] = "accept_ride" /\ offer[r].token = lv[p].token
        /\ UNCHANGED <<rstatus, tstatus, rdriver, offer, inbox>>
    BY <1>2 DEF AcceptReadOffer, offerFrame, RowTypes, SlotOK
  <2>2. lv'[p].ride = r
    BY <1>2 DEF AcceptReadOffer, Locals, RowTypes, SlotOK
  <2>3. HasOffer(r)
    BY <1>0, <2>1 DEF StatusSlot, HasOffer, NoOffer
  <2>4. StatusSlot(p)'
    BY <1>0, <2>1, <2>2, <2>3 DEF StatusInv, Offered, StatusSlot, RideRead, TripRead, Moving
  <2> QED BY <2>1, <2>4, StatusStay
<1>3. CASE AcceptLockRide(p) \/ AcceptLockDriver(p)
  <2>1. /\ pc[p] \in {"accept_ride", "accept_driver"} /\ pc'[p] \in {"accept_driver", "accept_commit"}
        /\ UNCHANGED <<rstatus, tstatus, rdriver, offer, inbox>>
    BY <1>3 DEF AcceptLockRide, AcceptLockDriver, RowTypes, SlotOK
  <2>2. lv'[p].ride = r
    BY <1>3 DEF AcceptLockRide, AcceptLockDriver, Locals, RowTypes, SlotOK
  <2>3. StatusSlot(p)'
    BY <1>0, <2>1, <2>2 DEF StatusSlot, RideRead, TripRead, Moving
  <2> QED BY <2>1, <2>3, StatusStay
<1>4. CASE AcceptCommit(p)
  <2>1. /\ pc'[p] = "accept_clear" /\ UNCHANGED <<offer, inbox>> /\ r \in Rides /\ d \in Drivers
        /\ rdriver' = [rdriver EXCEPT ![r] = d]
        /\ rstatus' = [rstatus EXCEPT ![r] = "driver_assigned"]
        /\ tstatus' = [tstatus EXCEPT ![r] = "DRIVER_ASSIGNED"]
    BY <1>0, <1>4 DEF AcceptCommit, RowTypes, SlotOK
  <2>2. RowsAgree' /\ Offered' /\ Apps'
    BY <2>1 DEF StatusInv, RowsAgree, Offered, Apps, HasOffer, RowTypes, SlotOK, RideStatusOf
  <2> QED BY <2>1, <2>2, StatusStep DEF StatusSlot, RideRead, TripRead, Moving
<1>5. CASE AcceptClear(p) \/ RejectClear(p)
  <2>1. /\ pc'[p] \in {"idle", "reject_enqueue"} /\ ClearOffer(r, d)
        /\ UNCHANGED <<rstatus, tstatus, rdriver, inbox>>
    BY <1>5 DEF AcceptClear, RejectClear, RowTypes, SlotOK
  <2> QED BY <2>1, StatusStay, ClearedOffers DEF StatusSlot, RideRead, TripRead, Moving
<1>6. CASE \/ AcceptInvalidOffer(p) \/ AcceptRefused(p) \/ RejectReadOffer(p) \/ RejectEnqueue(p)
  <2>1. /\ pc'[p] \in {"idle", "reject_clear"} /\ UNCHANGED <<rstatus, tstatus, rdriver, offer, inbox>>
    BY <1>6 DEF AcceptInvalidOffer, AcceptRefused, RejectReadOffer, RejectEnqueue, RowTypes, SlotOK
  <2> QED BY <2>1, StatusStay DEF StatusSlot, RideRead, TripRead, Moving
<1>7. CASE \/ AvailabilityInsert(p) \/ AvailabilityGeoRem(p) \/ AvailabilityCommit(p)
           \/ LocationInsert(p) \/ LocationGeoAdd(p) \/ LocationThrottle(p) \/ LocationCommit(p)
  <2>1. UNCHANGED <<rstatus, tstatus, rdriver, offer, inbox>>
    BY <1>7 DEF AvailabilityInsert, AvailabilityGeoRem, AvailabilityCommit, LocationInsert,
       LocationGeoAdd, LocationThrottle, LocationCommit, InsertDriver, driverFrame
  <2>2. pc'[p] \in {"idle", "avail_georem", "avail_commit", "loc_throttle", "loc_commit"}
    BY <1>7 DEF AvailabilityInsert, AvailabilityGeoRem, AvailabilityCommit, LocationInsert,
       LocationGeoAdd, LocationThrottle, LocationCommit, InsertDriver, AfterEnsure,
       RowTypes, SlotOK
  <2> QED BY <2>1, <2>2, StatusStay DEF StatusSlot, RideRead, TripRead, Moving
<1>8. ASSUME NEW e \in Drivers, AcceptBegin(p, e) PROVE StatusInv'
  <2>1. /\ pc'[p] = "accept_offer" /\ UNCHANGED <<rstatus, tstatus, rdriver, offer, inbox>>
        /\ inbox[e].ride # None
    BY <1>8 DEF AcceptBegin, RowTypes, SlotOK
  <2>2. lv'[p].token = inbox[e].token
    BY <1>8 DEF AcceptBegin, NoLocals, RowTypes, SlotOK
  <2>3. StatusSlot(p)'
    BY <2>1, <2>2 DEF StatusInv, Apps, StatusSlot, RideRead, TripRead, Moving
  <2> QED BY <2>1, <2>3, StatusStay
<1>9. ASSUME NEW e \in Drivers, NEW s \in DriverStatus,
             \/ PendingBegin(p, e) \/ RejectBegin(p, e)
             \/ AvailabilityBegin(p, e, s) \/ LocationBegin(p, e)
      PROVE  StatusInv'
  <2>1. UNCHANGED <<rstatus, tstatus, rdriver, offer, inbox>>
    BY <1>9 DEF PendingBegin, RejectBegin, AvailabilityBegin, LocationBegin, driverFrame
  <2>2. pc'[p] \in {"pending_offer", "reject_offer", "avail_insert", "avail_georem",
                    "avail_commit", "loc_insert", "loc_geo", "loc_throttle"}
    BY <1>9 DEF PendingBegin, RejectBegin, AvailabilityBegin, LocationBegin, AfterEnsure,
       AfterLoad, RowTypes, SlotOK
  <2> QED BY <2>1, <2>2, StatusStay DEF StatusSlot, RideRead, TripRead, Moving
<1>10. DriverStatus # {}
  BY DEF DriverStatus
<1> QED BY <1>1, <1>2, <1>3, <1>4, <1>5, <1>6, <1>7, <1>8, <1>9, <1>10 DEF DriverStep, DriverCall

LEMMA StatusNext ==
  ASSUME Serial, TypeInv, LockInv, RideInv, OneBusy, OfferInv, StatusInv, [Next]_vars
  PROVE  StatusInv'
<1>1. RowTypes /\ SlotOK
  BY RowFacts, SlotFacts
<1>2. CASE UNCHANGED vars
  BY <1>2 DEF vars, redis, StatusInv, RowsAgree, Offered, Apps, StatusSlot, HasOffer
<1>3. ASSUME NEW p \in Handlers, \/ RideStep(p) \/ DriverStep(p) \/ TripStep(p) \/ Call(p)
      PROVE  StatusInv'
  BY <1>1, <1>3, RideServiceTurn, DriverServiceTurn, TripServiceTurn,
     RideServiceStatus, DriverServiceStatus, TripServiceStatus DEF Call
<1>4. ASSUME NEW w \in Workers, MatchStep(w) \/ MatchCall(w) PROVE StatusInv'
  BY <1>1, <1>4, MatchWorkerTurn, MatchWorkerStatus
<1> QED BY <1>1, <1>2, <1>3, <1>4, EnvironmentStatus DEF Next, Step, Procs

LEMMA StatusKnown == ASSUME Serial PROVE Spec => []StatusInv
<1>1. Init => StatusInv
  <2>1. RideStatusOf(NoRow) = NoRow
    BY DEF RideStatusOf, NoRow
  <2> QED BY <2>1 DEF Init, StatusInv, RowsAgree, Offered, Apps, StatusSlot, HasOffer, NoAnswer,
             RideRead, TripRead, Moving
<1>2. /\ TypeInv /\ LockInv /\ RideInv /\ OneBusy /\ OfferInv /\ StatusInv /\ [Next]_vars
      => StatusInv'
  BY StatusNext
<1> QED BY <1>1, <1>2, TypesAndArguments, LocksAndReads, RidesAndReads, OneAtATime,
           OffersKnown, PTL DEF Spec

------------------------------------------------------------------------------
(* Then the five commits make the moves of RideLifecycle. *)
Active(r) == rstatus[r] \in ActiveRideStatuses

Books(p)   == CreateCommit(p) /\ L!Book(lv[p].ride)
Assigns(p) == /\ AcceptCommit(p)
              /\ tstatus[lv[p].ride] = "MATCHING"
              /\ L!Become(lv[p].ride, "DRIVER_ASSIGNED")
              /\ rdriver' = [rdriver EXCEPT ![lv[p].ride] = lv[p].driver]
              /\ UNCHANGED rowner
Moves(p)   == /\ CancelCommit(p) \/ TripCommit(p) \/ PauseCommit(p) \/ EndCommit(p)
              /\ \E t \in TripStatus : L!Move(lv[p].ride, t)
              /\ UNCHANGED rowner

(* RideLifecycle extends TripFsm as the services do. *)
LEMMA SameTables ==
  /\ L!NoRow = NoRow
  /\ \A t : L!RideStatusOf(t) = RideStatusOf(t)
  /\ \A t, u : L!MayTransition(t, u) = MayTransition(t, u)
  /\ L!TripStatus = TripStatus /\ L!ActiveRideStatuses = ActiveRideStatuses
BY DEF L!NoRow, NoRow, L!RideStatusOf, RideStatusOf, L!MayTransition, MayTransition, L!Allowed,
   Allowed, L!TripStatus, TripStatus, L!TerminalTrip, TerminalTrip, L!ActiveRideStatuses,
   ActiveRideStatuses, L!RideStatus, RideStatus

LEMMA WritesAreMoves ==
  ASSUME RowTypes, LockInv, RideInv, StatusInv, NEW p \in Procs, Writes(p)
  PROVE  /\ lv[p].ride \in Rides
         /\ Books(p) \/ Assigns(p) \/ Moves(p)
<1> USE DEF At
<1> DEFINE r == lv[p].ride
<1>1. r \in Rides /\ StatusSlot(p) /\ SlotSees(p) /\ rstatus[r] = RideStatusOf(tstatus[r])
  <2>1. pc[p] \in RideLabels
    BY DEF Writes, CreateCommit, CancelCommit, AcceptCommit, TripCommit, PauseCommit, EndCommit,
       RideLabels, Labels, AvailLabels, LocLabels
  <2> QED BY <2>1 DEF StatusInv, RowsAgree, RideInv, RowTypes, SlotOK
<1>2. CASE CreateCommit(p)
  <2>1. tstatus[r] = NoRow
    BY <1>1, <1>2 DEF CreateCommit, RideInv, SlotSees, Before, RowsOK, Booked
  <2> QED BY <1>1, <1>2, <2>1, SameTables DEF CreateCommit, Books, L!Book, L!Become, RideStatusOf
<1>3. CASE AcceptCommit(p)
  <2>1. rdriver[r] = None
    BY <1>3 DEF AcceptCommit, AcceptAllowed, LockInv, ReadsHold
  <2>2. tstatus[r] = "MATCHING"
    BY <1>1, <1>3, <2>1, MoveFacts DEF AcceptCommit, StatusSlot
  <2> QED BY <1>1, <1>3, <2>2, SameTables DEF AcceptCommit, Assigns, L!Become, RideStatusOf, offerFrame, book
<1>4. CASE CancelCommit(p)
  <2>1. /\ lv[p].rst = rstatus[r] /\ lv[p].tst = tstatus[r] /\ lv[p].rst \in ActiveRideStatuses
        /\ rstatus' = [rstatus EXCEPT ![r] = "cancelled"]
    BY <1>1, <1>4 DEF CancelCommit, StatusSlot, RideRead, TripRead
  <2>2. tstatus[r] \notin TerminalTrip \cup {NoRow}
    BY <1>1, <2>1 DEF ActiveRideStatuses, RideStatus, TerminalTrip, RideStatusOf, NoRow
  <2>3. tstatus' = [tstatus EXCEPT ![r] = "CANCELLED"]
    BY <1>4, <2>1, <2>2 DEF CancelCommit
  <2>4. MayTransition(tstatus[r], "CANCELLED")
    BY <1>1, <2>1, <2>2, MoveFacts DEF RowTypes
  <2>5. L!Move(r, "CANCELLED")
    BY <1>4, <2>1, <2>2, <2>3, <2>4, SameTables DEF CancelCommit, L!Move, L!Become, RideStatusOf
  <2> QED BY <1>1, <1>4, <2>5 DEF Moves, CancelCommit, TripStatus, book
<1>5. CASE TripCommit(p) \/ PauseCommit(p) \/ EndCommit(p)
  <2>1. /\ lv[p].rst = rstatus[r] /\ tstatus[r] \in TripStatus /\ UNCHANGED <<rdriver, rowner>>
    <3>1. lv[p].rst = rstatus[r] /\ tstatus[r] \in MovingTrip
      BY <1>1, <1>5 DEF TripCommit, PauseCommit, EndCommit, StatusSlot, SlotSees, RideRead,
         TripRead, Moving
    <3> QED BY <1>5, <3>1 DEF MovingTrip, TripStatus, TripCommit, PauseCommit, EndCommit,
               tripFrame, book
  <2>2. CASE TripCommit(p)
    <3>1. /\ MayTransition(tstatus[r], "IN_PROGRESS")
          /\ tstatus' = [tstatus EXCEPT ![r] = "IN_PROGRESS"]
          /\ rstatus' = [rstatus EXCEPT ![r] = "in_progress"]
      BY <1>1, <2>1, <2>2 DEF TripCommit, StatusSlot, RowTypes
    <3>2. L!Move(r, "IN_PROGRESS")
      BY <2>1, <3>1, SameTables DEF L!Move, L!Become, RideStatusOf, TripStatus, NoRow
    <3> QED BY <1>1, <2>1, <2>2, <3>2 DEF Moves, TripStatus
  <2>3. CASE PauseCommit(p)
    <3>1. /\ MayTransition(tstatus[r], "PAUSED") /\ tstatus[r] = "IN_PROGRESS"
          /\ tstatus' = [tstatus EXCEPT ![r] = "PAUSED"] /\ rstatus' = rstatus
      BY <1>1, <2>1, <2>3, MoveFacts DEF PauseCommit, StatusSlot
    <3>2. rstatus' = [rstatus EXCEPT ![r] = "in_progress"]
      BY <1>1, <3>1 DEF RideStatusOf, RowTypes
    <3>3. L!Move(r, "PAUSED")
      BY <2>1, <3>1, <3>2, SameTables DEF L!Move, L!Become, RideStatusOf, NoRow
    <3> QED BY <1>1, <2>1, <2>3, <3>3 DEF Moves, TripStatus
  <2>4. CASE EndCommit(p)
    <3>1. MayTransition(tstatus[r], "COMPLETED") /\ tstatus[r] = "IN_PROGRESS"
      BY <1>1, <2>1, <2>4, MoveFacts DEF EndCommit, StatusSlot
    <3>2. /\ tstatus' = [tstatus EXCEPT ![r] = "COMPLETED"]
          /\ rstatus' = [rstatus EXCEPT ![r] = "completed"]
      BY <1>1, <2>1, <2>4, <3>1 DEF EndCommit, RideStatusOf
    <3>3. L!Move(r, "COMPLETED")
      BY <2>1, <3>1, <3>2, SameTables DEF L!Move, L!Become, RideStatusOf, NoRow
    <3> QED BY <1>1, <2>1, <2>4, <3>3 DEF Moves, TripStatus
  <2> QED BY <1>5, <2>2, <2>3, <2>4
<1> QED BY <1>1, <1>2, <1>3, <1>4, <1>5 DEF Writes

(* An assignment or a move makes no ride active. *)
LEMMA NoneRevived ==
  ASSUME RowTypes, StatusInv, RideInv, NEW p \in Procs, lv[p].ride \in Rides,
         Assigns(p) \/ Moves(p), NEW r \in Rides, Active(r)'
  PROVE  Active(r)
<1>1. CASE r # lv[p].ride
  BY <1>1 DEF Assigns, Moves, L!Move, L!Become, Active, RowTypes
<1>2. CASE r = lv[p].ride /\ Assigns(p)
  BY <1>2 DEF Assigns, StatusInv, RowsAgree, RideStatusOf, Active, ActiveRideStatuses, RideStatus
<1>3. CASE r = lv[p].ride /\ Moves(p)
  <2>1. PICK t \in TripStatus : L!Move(r, t)
    BY <1>3 DEF Moves
  <2>2. tstatus[r] \in TripStatus /\ MayTransition(tstatus[r], t) /\ rstatus[r] # NoRow
    BY <2>1, SameTables DEF L!Move, RowTypes, RideInv, RowsOK
  <2>3. tstatus[r] \notin TerminalTrip
    BY <2>2 DEF MayTransition, Allowed, TripStatus, TerminalTrip
  <2> QED BY <2>2, <2>3 DEF StatusInv, RowsAgree, RideStatusOf, Active, ActiveRideStatuses,
             RideStatus, TripStatus, TerminalTrip
<1> QED BY <1>1, <1>2, <1>3

(* With calls one at a time every move of a trip is one the table allows:   *)
(* no check goes stale, and no accept revives a cancelled ride, for who     *)
(* cancels has cleared the offer.                                          *)
THEOREM TripMovesLegalCorrect == ASSUME Serial PROVE Spec => TripMovesLegal
<1>1. ASSUME TypeInv, LockInv, RideInv, StatusInv, [Next]_vars, NEW r \in Rides,
             tstatus[r] \notin {NoRow, tstatus'[r]}
      PROVE  MayTransition(tstatus[r], tstatus'[r])
  <2>1. RowTypes
    BY <1>1, RowFacts
  <2>2. PICK p \in Procs : Writes(p)
    BY <1>1, RowWriters
  <2>3. lv[p].ride \in Rides /\ (Books(p) \/ Assigns(p) \/ Moves(p))
    BY <1>1, <2>1, <2>2, WritesAreMoves
  <2>4. CASE Books(p)
    BY <1>1, <2>1, <2>3, <2>4, SameTables DEF Books, L!Book, L!Become, RowTypes
  <2>5. CASE Assigns(p)
    <3>1. MayTransition("MATCHING", "DRIVER_ASSIGNED")
      BY DEF MayTransition, Allowed, TripStatus, TerminalTrip
    <3> QED BY <1>1, <2>1, <2>3, <2>5, <3>1 DEF Assigns, L!Become, RowTypes
  <2>6. CASE Moves(p)
    BY <1>1, <2>1, <2>3, <2>6, SameTables DEF Moves, L!Move, L!Become, RowTypes
  <2> QED BY <2>3, <2>4, <2>5, <2>6
<1>2. TypeInv /\ LockInv /\ RideInv /\ StatusInv /\ [Next]_vars =>
        [\A r \in Rides : tstatus[r] \notin {NoRow, tstatus'[r]}
                            => MayTransition(tstatus[r], tstatus'[r])]_vars
  BY <1>1
<1> QED BY <1>2, TypesAndArguments, LocksAndReads, RidesAndReads, StatusKnown, PTL
        DEF Spec, TripMovesLegal

------------------------------------------------------------------------------
(* No two active rides have one owner; a create that found no active ride  *)
(* of its rider still would find none.                                     *)
BookSlot(p) == pc[p] \in {"create_rider", "create_commit"} =>
                 \A r \in Rides : rowner[r] = lv[p].rider => ~Active(r)

BookInv == /\ \A r, s \in Rides : Active(r) /\ Active(s) /\ rowner[r] = rowner[s] => r = s
           /\ \A p \in Procs : BookSlot(p)

LEMMA CreateTurns ==
  ASSUME RowTypes, BookInv, NEW p \in Handlers, RideStep(p) \/ RideCall(p)
  PROVE  BookSlot(p)'
<1> p \in Procs /\ lv[p] \in Locals BY DEF Procs, RowTypes, SlotOK
<1> USE DEF At, Begin, Finish, Goto, BookSlot
<1>1. CASE CreateNoConflict(p)
  <2>1. UNCHANGED <<rstatus, rowner, lv>> /\ ActiveRides(lv[p].rider) = {}
    BY <1>1 DEF CreateNoConflict, book
  <2> QED BY <2>1 DEF ActiveRides, Active
<1>2. CASE CreateEnsureRider(p)
  <2>1. pc[p] = "create_rider" /\ UNCHANGED <<rstatus, rowner>>
    BY <1>2 DEF CreateEnsureRider, book
  <2>2. lv'[p].rider = lv[p].rider
    BY <1>2 DEF CreateEnsureRider, Locals, RowTypes, SlotOK
  <2> QED BY <2>1, <2>2 DEF BookInv, Active
<1>3. CASE \/ CreateReplay(p) \/ CreateNoReplay(p) \/ CreateConflict(p) \/ CreateCommit(p)
           \/ CreateIntegrityError(p) \/ CreateEnqueue(p) \/ CancelLoadTrip(p)
           \/ CancelReadOffer(p) \/ CancelClear(p) \/ CancelRefused(p) \/ CancelCommit(p)
           \/ RideCall(p)
  BY <1>3 DEF RideCall, CreateBegin, CancelBegin, CreateReplay, CreateNoReplay, CreateConflict,
     CreateCommit, CreateIntegrityError, CreateEnqueue, CancelLoadTrip, CancelReadOffer,
     CancelClear, CancelRefused, CancelCommit, RowTypes, SlotOK
<1> QED BY <1>1, <1>2, <1>3 DEF RideStep

LEMMA RowsOfOneOwner ==
  ASSUME TypeInv, LockInv, RideInv, StatusInv, BookInv, [Next]_vars,
         NEW r \in Rides, NEW s \in Rides, Active(r)', Active(s)', rowner'[r] = rowner'[s]
  PROVE  r = s
<1>1. RowTypes /\ rowner \in [Rides -> Riders \cup {None}]
  BY RowFacts DEF TypeInv, TypeOK, OrNone
<1>2. CASE UNCHANGED <<rowner, rstatus, tstatus, rdriver>>
  BY <1>2 DEF BookInv, Active
<1>3. ASSUME NEW p \in Procs, Writes(p) PROVE r = s
  <2>1. lv[p].ride \in Rides /\ (Books(p) \/ Assigns(p) \/ Moves(p))
    BY <1>1, <1>3, WritesAreMoves
  <2>2. CASE Assigns(p) \/ Moves(p)
    <3>1. Active(r) /\ Active(s)
      BY <1>1, <2>1, <2>2, NoneRevived
    <3> QED BY <2>2, <3>1 DEF BookInv, Assigns, Moves
  <2>3. CASE Books(p)
    <3>1. /\ rowner' = [rowner EXCEPT ![lv[p].ride] = lv[p].rider]
          /\ rstatus' = [rstatus EXCEPT ![lv[p].ride] = "matching"]
          /\ \A q \in Rides : rowner[q] = lv[p].rider => ~Active(q)
      BY <2>3 DEF Books, CreateCommit, At, BookInv, BookSlot
    <3> QED BY <1>1, <2>1, <3>1 DEF BookInv, Active, RowTypes
  <2> QED BY <2>1, <2>2, <2>3
<1> QED BY <1>2, <1>3, RowWriters

LEMMA BookNext ==
  ASSUME Serial, TypeInv, LockInv, RideInv, OneBusy, StatusInv, BookInv, [Next]_vars
  PROVE  BookInv'
<1>1. RowTypes /\ SlotOK
  BY RowFacts, SlotFacts
<1>2. \A r, s \in Rides : Active(r)' /\ Active(s)' /\ rowner'[r] = rowner'[s] => r = s
  BY RowsOfOneOwner
<1>3. ASSUME NEW p \in Procs, Turn(p), BookSlot(p)' PROVE BookInv'
  BY <1>2, <1>3 DEF BookInv, BookSlot, Turn, Alone
<1>4. ASSUME NEW p \in Procs, pc'[p] \notin Before PROVE BookSlot(p)'
  BY <1>4 DEF Before, BookSlot
<1>5. CASE Environment
  <2>1. ASSUME NEW p \in Procs, Fail(p) \/ DeadlockVictim(p) PROVE BookInv'
    BY <1>1, <1>3, <2>1, AbandonTurn DEF BookSlot
  <2> QED BY <1>5, <2>1 DEF Environment, OfferExpires, AssignLockExpires, IndexExpires,
             ThrottleExpires, BookInv, BookSlot, Active, book
<1>6. CASE UNCHANGED vars
  BY <1>6 DEF vars, book, BookInv, BookSlot, Active
<1>7. ASSUME NEW p \in Handlers, \/ RideStep(p) \/ DriverStep(p) \/ TripStep(p) \/ Call(p)
      PROVE  BookInv'
  <2>1. p \in Procs /\ (pc[p] \in AvailLabels => lv[p].want \in DriverStatus)
    BY DEF Procs, TypeInv, ArgsOK
  <2> QED BY <1>1, <1>3, <1>4, <1>7, <2>1, RideServiceTurn, DriverServiceTurn,
             TripServiceTurn, CreateTurns, NotInCreate DEF Call
<1>8. ASSUME NEW w \in Workers, MatchStep(w) \/ MatchCall(w) PROVE BookInv'
  <2>1. w \in Procs /\ (pc[w] \in AvailLabels => lv[w].want \in DriverStatus)
    BY DEF Procs, TypeInv, ArgsOK
  <2> QED BY <1>1, <1>3, <1>4, <1>8, <2>1, MatchWorkerTurn, NotInCreate
<1> QED BY <1>5, <1>6, <1>7, <1>8 DEF Next, Step, Procs

LEMMA BookKnown == ASSUME Serial PROVE Spec => []BookInv
<1>1. Init => BookInv
  BY DEF Init, BookInv, BookSlot, Active, ActiveRideStatuses, RideStatus, NoRow
<1>2. /\ TypeInv /\ LockInv /\ RideInv /\ OneBusy /\ StatusInv /\ BookInv /\ [Next]_vars
      => BookInv'
  BY BookNext
<1> QED BY <1>1, <1>2, TypesAndArguments, LocksAndReads, RidesAndReads, OneAtATime,
           StatusKnown, PTL DEF Spec

LEMMA AtMostOne ==
  ASSUME NEW S, \A x, y \in S : x = y
  PROVE  Cardinality(S) <= 1
<1>1. Cardinality({}) = 0
  BY FS_EmptySet
<1>2. ASSUME NEW x \in S PROVE Cardinality(S) <= 1
  <2>1. S = {x}
    BY <1>2
  <2>2. Cardinality({x}) = 1
    BY FS_Singleton
  <2> QED BY <2>1, <2>2
<1> QED BY <1>1, <1>2

(* A rider has one active ride at most, with calls one at a time: the test *)
(* and the insert of create_ride cannot be crossed by another create.      *)
THEOREM OneActiveRideCorrect == ASSUME Serial PROVE Spec => []OneActiveRide
<1>1. BookInv => OneActiveRide
  <2> SUFFICES ASSUME BookInv, NEW u \in Riders
               PROVE  Cardinality({r \in Rides : rowner[r] = u /\ rstatus[r] \in ActiveRideStatuses})
                        <= 1
    BY DEF OneActiveRide
  <2> DEFINE S == {r \in Rides : rowner[r] = u /\ rstatus[r] \in ActiveRideStatuses}
  <2>1. \A r, s \in S : r = s
    BY DEF BookInv, Active
  <2> HIDE DEF S
  <2>2. Cardinality(S) <= 1
    BY <2>1, AtMostOne
  <2> QED BY <2>2 DEF S
<1> QED BY <1>1, BookKnown, PTL

------------------------------------------------------------------------------
(* When, besides, drivers change availability off duty only: a driver on an *)
(* active ride is not online, and is on no other.                          *)
DutySlot(p) == pc[p] \in AvailLabels => OffDuty(lv[p].driver)

DutyInv ==
  /\ \A r, s \in Rides : Active(r) /\ rdriver[r] # None =>
       /\ dstatus[rdriver[r]] # "online"
       /\ Active(s) /\ rdriver[s] = rdriver[r] => r = s
  /\ \A p \in Procs : DutySlot(p)

LEMMA AvailabilitySlot ==
  ASSUME OffDutyOnly, RowTypes, DutyInv, NEW p \in Handlers, DriverStep(p) \/ DriverCall(p)
  PROVE  DutySlot(p)'
<1> p \in Procs /\ lv[p] \in Locals BY DEF Procs, RowTypes, SlotOK
<1> USE DEF At, Begin, Finish, Goto, DutySlot
<1>1. CASE \/ PendingReadOffer(p) \/ AcceptReadOffer(p) \/ AcceptInvalidOffer(p)
           \/ AcceptLockRide(p) \/ AcceptLockDriver(p) \/ AcceptRefused(p) \/ AcceptCommit(p)
           \/ AcceptClear(p) \/ RejectReadOffer(p) \/ RejectClear(p) \/ RejectEnqueue(p)
           \/ LocationInsert(p) \/ LocationGeoAdd(p) \/ LocationThrottle(p) \/ LocationCommit(p)
           \/ AvailabilityCommit(p)
  <2>1. pc'[p] \notin AvailLabels
    BY <1>1 DEF PendingReadOffer, AcceptReadOffer, AcceptInvalidOffer, AcceptLockRide,
       AcceptLockDriver, AcceptRefused, AcceptCommit, AcceptClear, RejectReadOffer,
       RejectClear, RejectEnqueue, LocationInsert, LocationGeoAdd, LocationThrottle,
       LocationCommit, AvailabilityCommit, InsertDriver, AvailLabels, RowTypes, SlotOK
  <2> QED BY <2>1
<1>2. CASE AvailabilityInsert(p) \/ AvailabilityGeoRem(p)
  <2>1. pc[p] \in AvailLabels /\ UNCHANGED <<rdriver, rstatus>>
    BY <1>2 DEF AvailabilityInsert, AvailabilityGeoRem, InsertDriver, driverFrame, AvailLabels
  <2>2. pc'[p] \in AvailLabels => lv'[p].driver = lv[p].driver
    BY <1>2 DEF AvailabilityInsert, AvailabilityGeoRem, InsertDriver, AvailLabels, Locals,
       RowTypes, SlotOK
  <2> QED BY <2>1, <2>2 DEF DutyInv, OffDuty
<1>3. ASSUME NEW d \in Drivers, NEW s \in DriverStatus, AvailabilityBegin(p, d, s)
      PROVE  DutySlot(p)'
  <2>1. OffDuty(d) /\ UNCHANGED <<rdriver, rstatus>>
    BY <1>3 DEF AvailabilityBegin, driverFrame
  <2>2. lv'[p].driver = d
    BY <1>3 DEF AvailabilityBegin, NoLocals, RowTypes, SlotOK
  <2> QED BY <2>1, <2>2 DEF OffDuty
<1>4. ASSUME NEW d \in Drivers,
             PendingBegin(p, d) \/ AcceptBegin(p, d) \/ RejectBegin(p, d) \/ LocationBegin(p, d)
      PROVE  DutySlot(p)'
  <2>1. pc'[p] \notin AvailLabels
    BY <1>4 DEF PendingBegin, AcceptBegin, RejectBegin, LocationBegin, AfterLoad, AvailLabels,
       RowTypes, SlotOK
  <2> QED BY <2>1
<1> QED BY <1>1, <1>2, <1>3, <1>4 DEF DriverStep, DriverCall

LEMMA NotInAvailability ==
  ASSUME SlotOK, NEW p \in Procs,
         \/ RideStep(p) \/ RideCall(p) \/ TripStep(p) \/ TripCall(p)
         \/ MatchStep(p) \/ MatchCall(p)
  PROVE  pc'[p] \notin AvailLabels
<1> USE DEF SlotOK, At, Begin, Finish, Goto, AvailLabels
<1>1. CASE RideStep(p) \/ RideCall(p)
  BY <1>1 DEF RideStep, RideCall, CreateBegin, CreateReplay, CreateNoReplay, CreateConflict,
     CreateNoConflict, CreateEnsureRider, CreateCommit, CreateIntegrityError, CreateEnqueue,
     CancelBegin, CancelLoadTrip, CancelReadOffer, CancelClear, CancelRefused, CancelCommit
<1>2. CASE MatchStep(p) \/ MatchCall(p)
  BY <1>2 DEF MatchStep, MatchCall, MatchTake, MatchLockRide, MatchNotWanted,
     MatchGeoSearch, MatchNoCandidates, MatchChoose, MatchNoneOnline, MatchAssignLock,
     MatchAssignBusy, MatchStore, MatchRelease, MatchReturn
<1>3. \A op \in TripOps : AfterCheck(op) \in {"trip_commit", "pause_commit", "end_driver"}
  BY DEF AfterCheck, TripOps
<1>4. CASE TripStep(p) \/ TripCall(p)
  BY <1>3, <1>4 DEF TripStep, TripCall, TripBegin, TripLoadRide, TripRefused, TripCommit,
     PauseCommit, EndLoadDriver, EndLockDriver, EndCommit
<1> QED BY <1>1, <1>2, <1>4

LEMMA DutyRows ==
  ASSUME TypeInv, LockInv, RideInv, StatusInv, DutyInv, [Next]_vars,
         NEW r \in Rides, NEW s \in Rides, Active(r)', rdriver'[r] # None
  PROVE  /\ dstatus'[rdriver'[r]] # "online"
         /\ Active(s)' /\ rdriver'[s] = rdriver'[r] => r = s
<1>1. RowTypes /\ SlotOK
  BY RowFacts, SlotFacts
<1>2. ASSUME NEW p \in Procs, AcceptCommit(p)
      PROVE  /\ dstatus'[rdriver'[r]] # "online"
             /\ Active(s)' /\ rdriver'[s] = rdriver'[r] => r = s
  <2> DEFINE q == lv[p].ride
             d == lv[p].driver
  <2>1. q \in Rides /\ d \in Drivers /\ pc[p] = "accept_commit" /\ lv[p].dst = "online"
    BY <1>1, <1>2 DEF AcceptCommit, AcceptAllowed, At, SlotOK, RideLabels, DriverLabels, Labels,
       AvailLabels, LocLabels
  <2>2. /\ rdriver' = [rdriver EXCEPT ![q] = d]
        /\ rstatus' = [rstatus EXCEPT ![q] = "driver_assigned"]
        /\ dstatus' = [dstatus EXCEPT ![d] = "busy"]
    BY <1>2 DEF AcceptCommit
  <2>3. dstatus[d] = "online"
    BY <2>1 DEF LockInv, ReadsHold
  <2>4. \A t \in Rides : Active(t) => rdriver[t] # d
    BY <1>1, <2>1, <2>3 DEF DutyInv, RowTypes
  <2>5. \A t \in Rides \ {q} : /\ Active(t)' => Active(t)
                               /\ rdriver'[t] = rdriver[t]
    BY <1>1, <2>2 DEF Active, RowTypes, SlotOK
  <2>6. rdriver'[q] = d /\ d # None
    BY <1>1, <2>1, <2>2 DEF RowTypes, SlotOK
  <2>7. r # q => dstatus'[rdriver[r]] = dstatus[rdriver[r]] /\ Active(r) /\ rdriver[r] # None
    BY <1>1, <2>2, <2>4, <2>5 DEF SlotOK
  <2>8. dstatus'[d] # "online"
    BY <1>1, <2>1, <2>2 DEF SlotOK
  <2> QED BY <2>4, <2>5, <2>6, <2>7, <2>8 DEF DutyInv
<1>3. ASSUME NEW p \in Procs, EndCommit(p)
      PROVE  /\ dstatus'[rdriver'[r]] # "online"
             /\ Active(s)' /\ rdriver'[s] = rdriver'[r] => r = s
  <2> DEFINE q == lv[p].ride
  <2>1. q \in Rides /\ lv[p].drv = rdriver[q] /\ Moves(p)
    BY <1>1, <1>3, WritesAreMoves DEF Writes, EndCommit, At, StatusInv, StatusSlot, Books,
       Assigns, CreateCommit, AcceptCommit
  <2>2. /\ rdriver' = rdriver /\ \A e : e # rdriver[q] => dstatus'[e] = dstatus[e]
        /\ rstatus'[q] = "completed"
    <3>1. tstatus'[q] = "COMPLETED"
      BY <1>1, <1>3, <2>1 DEF EndCommit, RowTypes
    <3>2. rstatus'[q] = "completed"
      BY <1>1, <2>1, <3>1, SameTables DEF Moves, L!Move, L!Become, RideStatusOf, RowTypes
    <3> QED BY <1>1, <1>3, <2>1, <3>2 DEF EndCommit, tripFrame, SlotOK
  <2>3. Active(r) /\ r # q /\ (Active(s)' => Active(s))
    BY <1>1, <2>1, <2>2, NoneRevived DEF Active, ActiveRideStatuses
  <2>4. rdriver[r] # rdriver[q]
    <3>1. Active(q)
      BY <1>1, <1>3, <2>1, <2>2, SameTables, MoveFacts DEF StatusInv, StatusSlot, EndCommit, At,
         RowsAgree, Active, RideStatusOf, ActiveRideStatuses, RideStatus, RideInv, SlotSees,
         TripRead, Moving, MovingTrip, TripStatus
    <3> QED BY <2>1, <2>2, <2>3, <3>1 DEF DutyInv
  <2> QED BY <2>2, <2>3, <2>4 DEF DutyInv
<1>4. ASSUME NEW p \in Procs, AvailabilityCommit(p) \/ LocationCommit(p)
      PROVE  /\ dstatus'[rdriver'[r]] # "online"
             /\ Active(s)' /\ rdriver'[s] = rdriver'[r] => r = s
  <2>1. UNCHANGED <<rdriver, rstatus>> /\ Active(r) /\ rdriver[r] \in Drivers
    BY <1>1, <1>4 DEF AvailabilityCommit, LocationCommit, driverFrame, Active, SlotOK
  <2>2. CASE AvailabilityCommit(p)
    <3>1. rdriver[r] # lv[p].driver
      BY <2>1, <2>2 DEF AvailabilityCommit, At, DutyInv, DutySlot, OffDuty, Active, AvailLabels
    <3>2. dstatus'[rdriver[r]] = dstatus[rdriver[r]]
      BY <1>1, <2>1, <2>2, <3>1 DEF AvailabilityCommit, SlotOK
    <3> QED BY <2>1, <3>2 DEF DutyInv, Active
  <2>3. CASE LocationCommit(p)
    <3>1. dstatus'[rdriver[r]] \in {dstatus[rdriver[r]], "offline"}
      BY <1>1, <2>1, <2>3 DEF LocationCommit, SlotOK
    <3> QED BY <2>1, <3>1 DEF DutyInv, Active
  <2> QED BY <1>4, <2>2, <2>3
<1>5. ASSUME NEW p \in Procs, Books(p) \/ Moves(p), UNCHANGED dstatus
      PROVE  /\ dstatus'[rdriver'[r]] # "online"
             /\ Active(s)' /\ rdriver'[s] = rdriver'[r] => r = s
  <2>1. rdriver' = rdriver
    BY <1>5 DEF Books, L!Book, Moves, L!Move
  <2>2. \A t \in Rides : Active(t)' /\ rdriver[t] # None => Active(t)
    <3>1. CASE Moves(p)
      <4>1. lv[p].ride \in Rides
        BY <1>1, <3>1, WritesAreMoves DEF Moves, Writes
      <4> QED BY <1>1, <3>1, <4>1, NoneRevived
    <3>2. CASE Books(p)
      <4>1. /\ rstatus' = [rstatus EXCEPT ![lv[p].ride] = "matching"]
            /\ tstatus[lv[p].ride] = NoRow
        BY <3>2, SameTables DEF Books, CreateCommit, L!Book
      <4>2. lv[p].ride \in Rides => rdriver[lv[p].ride] = None
        BY <4>1 DEF RideInv, RowsOK
      <4> QED BY <1>1, <4>1, <4>2 DEF Active, RowTypes
    <3> QED BY <1>5, <3>1, <3>2
  <2> QED BY <1>5, <2>1, <2>2 DEF DutyInv
<1>6. CASE UNCHANGED <<rowner, rstatus, tstatus, rdriver, dstatus>>
  BY <1>6 DEF DutyInv, Active
<1>7. ASSUME NEW p \in Procs, Writes(p), UNCHANGED dstatus
      PROVE  \/ AcceptCommit(p) \/ Books(p) \/ Moves(p)
  BY <1>1, <1>7, WritesAreMoves DEF Assigns
<1> QED BY <1>2, <1>3, <1>4, <1>5, <1>6, <1>7, RowWriters, DriverStatusWriters

LEMMA DutyNext ==
  ASSUME Serial, OffDutyOnly, TypeInv, LockInv, RideInv, OneBusy, StatusInv, DutyInv, [Next]_vars
  PROVE  DutyInv'
<1>1. RowTypes /\ SlotOK
  BY RowFacts, SlotFacts
<1>2. \A r, s \in Rides : Active(r)' /\ rdriver'[r] # None =>
        /\ dstatus'[rdriver'[r]] # "online"
        /\ Active(s)' /\ rdriver'[s] = rdriver'[r] => r = s
  BY DutyRows
<1>3. ASSUME NEW p \in Procs, Turn(p), DutySlot(p)' PROVE DutyInv'
  BY <1>2, <1>3 DEF DutyInv, DutySlot, Turn, Alone, AvailLabels
<1>4. ASSUME NEW p \in Procs, pc'[p] \notin AvailLabels PROVE DutySlot(p)'
  BY <1>4 DEF DutySlot
<1>5. CASE Environment
  <2>1. ASSUME NEW p \in Procs, Fail(p) \/ DeadlockVictim(p) PROVE DutyInv'
    BY <1>1, <1>3, <2>1, AbandonTurn DEF DutySlot, AvailLabels
  <2> QED BY <1>5, <2>1 DEF Environment, OfferExpires, AssignLockExpires, IndexExpires,
             ThrottleExpires, DutyInv, DutySlot, OffDuty, Active
<1>6. CASE UNCHANGED vars
  BY <1>6 DEF vars, DutyInv, DutySlot, OffDuty, Active
<1>7. ASSUME NEW p \in Handlers, \/ RideStep(p) \/ DriverStep(p) \/ TripStep(p) \/ Call(p)
      PROVE  DutyInv'
  <2>1. p \in Procs
    BY DEF Procs
  <2> QED BY <1>1, <1>3, <1>4, <1>7, <2>1, RideServiceTurn, DriverServiceTurn,
             TripServiceTurn, AvailabilitySlot, NotInAvailability DEF Call
<1>8. ASSUME NEW w \in Workers, MatchStep(w) \/ MatchCall(w) PROVE DutyInv'
  <2>1. w \in Procs
    BY DEF Procs
  <2> QED BY <1>1, <1>3, <1>4, <1>8, <2>1, MatchWorkerTurn, NotInAvailability
<1> QED BY <1>5, <1>6, <1>7, <1>8 DEF Next, Step, Procs

LEMMA DutyKnown == ASSUME Serial, OffDutyOnly PROVE Spec => []DutyInv
<1>1. Init => DutyInv
  BY DEF Init, DutyInv, DutySlot, Active, AvailLabels, ActiveRideStatuses, RideStatus, NoRow
<1>2. /\ TypeInv /\ LockInv /\ RideInv /\ OneBusy /\ StatusInv /\ DutyInv /\ [Next]_vars
      => DutyInv'
  BY DutyNext
<1> QED BY <1>1, <1>2, TypesAndArguments, LocksAndReads, RidesAndReads, OneAtATime,
           StatusKnown, PTL DEF Spec

(* A driver is on one active ride at most, with calls one at a time and     *)
(* availability changed off duty only.                                     *)
THEOREM DriverOneRideCorrect == ASSUME Serial, OffDutyOnly PROVE Spec => []DriverOneRide
<1>1. ConstantsAssumption /\ DutyInv => DriverOneRide
  <2> SUFFICES ASSUME ConstantsAssumption, DutyInv, NEW d \in Drivers
               PROVE  Cardinality({r \in Rides : rdriver[r] = d /\ rstatus[r] \in ActiveRideStatuses})
                        <= 1
    BY DEF DriverOneRide
  <2> DEFINE S == {r \in Rides : rdriver[r] = d /\ rstatus[r] \in ActiveRideStatuses}
  <2>1. \A r, s \in S : r = s
    BY DEF DutyInv, Active, ConstantsAssumption
  <2> HIDE DEF S
  <2>2. Cardinality(S) <= 1
    BY <2>1, AtMostOne
  <2> QED BY <2>2 DEF S
<1> QED BY <1>1, ConstantsAssumption, DutyKnown, PTL

LEMMA NextIsLifecycle ==
  TypeInv /\ LockInv /\ RideInv /\ StatusInv /\ DutyInv /\ [Next]_vars => [L!Next]_(L!vars)
<1> SUFFICES ASSUME TypeInv, LockInv, RideInv, StatusInv, DutyInv, [Next]_vars
             PROVE  [L!Next]_(L!vars)
  OBVIOUS
<1>1. RowTypes /\ SlotOK
  BY RowFacts, SlotFacts
<1>2. CASE UNCHANGED <<rowner, rstatus, tstatus, rdriver>>
  BY <1>2 DEF L!vars
<1>3. ASSUME NEW p \in Procs, Writes(p) PROVE L!Next
  <2> DEFINE r == lv[p].ride
  <2>1. r \in Rides /\ (Books(p) \/ Assigns(p) \/ Moves(p))
    BY <1>1, <1>3, WritesAreMoves
  <2>2. CASE Books(p)
    BY <2>1, <2>2 DEF Books, L!Next
  <2>3. CASE Moves(p)
    BY <2>1, <2>3, SameTables DEF Moves, L!Next
  <2>4. CASE Assigns(p)
    <3> DEFINE d == lv[p].driver
    <3>1. d \in Drivers /\ dstatus[d] = "online"
      BY <1>1, <2>4 DEF Assigns, AcceptCommit, AcceptAllowed, At, LockInv, ReadsHold, SlotOK,
         DriverLabels, Labels
    <3>2. ~L!Engaged(d)
      BY <1>1, <3>1, SameTables DEF L!Engaged, DutyInv, Active, RowTypes
    <3>3. L!AssignDriver(r, d)
      BY <2>4, <3>2 DEF Assigns, L!AssignDriver
    <3> QED BY <2>1, <3>1, <3>3 DEF L!Next
  <2> QED BY <2>1, <2>2, <2>3, <2>4
<1> QED BY <1>2, <1>3, RowWriters

(* The services implement RideLifecycle, with calls one at a time and      *)
(* drivers who go on and off duty between rides only: one status shown in  *)
(* two tables, legal moves, a driver on one ride at a time.                *)
THEOREM LifecycleCorrect == ASSUME Serial, OffDutyOnly PROVE Spec => LifecycleSpec
<1>1. Init => L!Init
  BY SameTables DEF Init, L!Init
<1> QED BY <1>1, NextIsLifecycle, TypesAndArguments, LocksAndReads, RidesAndReads,
           StatusKnown, DutyKnown, PTL DEF Spec, LifecycleSpec, L!Spec
==============================================================================
