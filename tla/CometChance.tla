----------------------------- MODULE CometChance -----------------------------
(***************************************************************************)
(* A ride in matching is not dropped by accident, for any number of slots,  *)
(* rides and drivers: whoever takes its task, clears its offer or holds it  *)
(* in hand passes it on.                                                   *)
(***************************************************************************)
EXTENDS CometRides

(* accept clears an offer only after the ride has got its driver. *)
ClearsLate == \A p \in Procs : pc[p] = "accept_clear" => rdriver[lv[p].ride] # None

ChanceInv == RowTypes /\ RideInv /\ ClearsLate

(* Where the ride r is after a step of p, if the others do not have it. *)
Kept(p, r) == \/ queue'[r] > 0 \/ HasOffer(r)'
              \/ pc'[p] \in Hands /\ lv'[p].ride = r

LEMMA ChanceStays ==
  ASSUME NEW p \in Procs, NEW r \in Rides, Alone(p), HasChance(r),
         queue[r] > 0 => Kept(p, r),
         HasOffer(r) => Kept(p, r),
         pc[p] \in Hands /\ lv[p].ride = r => Kept(p, r)
  PROVE  HasChance(r)'
<1>1. Kept(p, r) => HasChance(r)'
  BY DEF Kept, HasChance
<1>2. ASSUME NEW q \in Procs, q # p, pc[q] \in Hands, lv[q].ride = r PROVE HasChance(r)'
  BY <1>2 DEF Alone, HasChance
<1> QED BY <1>1, <1>2 DEF HasChance

(* A step of a slot that has no ride in hand and touches neither offers nor *)
(* the queue.                                                              *)
Bystander(p) == Alone(p) /\ pc[p] \notin Hands /\ UNCHANGED <<offer, queue>>

LEMMA BystanderKeeps ==
  ASSUME NEW p \in Procs, NEW r \in Rides, Bystander(p), HasChance(r)
  PROVE  HasChance(r)'
BY ChanceStays DEF Bystander, Kept, HasOffer

------------------------------------------------------------------------------
LEMMA RideServiceKeeps ==
  ASSUME ChanceInv, NEW p \in Handlers, RideStep(p) \/ RideCall(p),
         NEW r \in Rides, rstatus[r] = "matching", rstatus'[r] = "matching", HasChance(r)
  PROVE  HasChance(r)'
<1> p \in Procs BY DEF Procs
<1> USE DEF ChanceInv, RowTypes, SlotOK
<1>1. ASSUME \/ CreateReplay(p) \/ CreateNoReplay(p) \/ CreateConflict(p) \/ CreateNoConflict(p)
             \/ CreateEnsureRider(p) \/ CreateIntegrityError(p) \/ CreateCommit(p)
             \/ CancelLoadTrip(p) \/ CancelReadOffer(p) \/ RideCall(p)
      PROVE  Bystander(p)
  BY <1>1 DEF Bystander, Hands, Alone, CreateReplay, CreateNoReplay, CreateConflict,
     CreateNoConflict, CreateEnsureRider, CreateIntegrityError, CreateCommit,
     CancelLoadTrip, CancelReadOffer, RideCall, CreateBegin, CancelBegin, MayBegin, At,
     Begin, Finish, Goto
<1>2. CASE CreateEnqueue(p)
  <2>1. /\ Alone(p) /\ UNCHANGED offer /\ Enqueue(lv[p].ride)
    BY <1>2 DEF CreateEnqueue, Finish, Goto, Alone, At
  <2>2. lv[p].ride \in Rides
    BY <1>2 DEF CreateEnqueue, At, RideLabels, Labels, AvailLabels, LocLabels
  <2>3. queue'[lv[p].ride] > 0 /\ \A s \in Rides : queue'[s] >= queue[s]
    BY <2>1, <2>2 DEF Enqueue
  <2>4. queue[r] > 0 => Kept(p, r)
    BY <2>1, <2>2 DEF Enqueue, Kept
  <2>5. lv[p].ride = r => Kept(p, r)
    BY <2>3 DEF Kept
  <2>6. HasOffer(r) => Kept(p, r)
    BY <2>1 DEF HasOffer, Kept
  <2> QED BY <2>1, <2>4, <2>5, <2>6, ChanceStays
<1>3. CASE CancelClear(p)
  <2>1. /\ Alone(p) /\ UNCHANGED queue /\ lv' = lv /\ pc'[p] = "cancel_commit"
        /\ \A s \in Rides : s # lv[p].ride => offer'[s] = offer[s]
    BY <1>3 DEF CancelClear, ClearOffer, Goto, Alone, At
  <2> QED BY <1>3, <2>1, ChanceStays DEF Kept, HasOffer, Hands
<1>4. CASE CancelRefused(p)
  <2>1. Alone(p) /\ UNCHANGED <<offer, queue>> /\ pc[p] = "cancel_commit"
        /\ lv[p].rst \notin ActiveRideStatuses
    BY <1>4 DEF CancelRefused, Finish, Goto, Alone, At
  <2>2. lv[p].ride # r
    BY <2>1 DEF RideInv, SlotSees, RideRead, ActiveRideStatuses
  <2> QED BY <2>1, <2>2, ChanceStays DEF Kept, HasOffer
<1>5. CASE CancelCommit(p)
  <2>1. Alone(p) /\ UNCHANGED <<offer, queue>>
        /\ rstatus' = [rstatus EXCEPT ![lv[p].ride] = "cancelled"]
    BY <1>5 DEF CancelCommit, Finish, Goto, Alone, At
  <2>2. lv[p].ride # r
    BY <2>1
  <2> QED BY <2>1, <2>2, ChanceStays DEF Kept, HasOffer
<1> QED BY <1>1, <1>2, <1>3, <1>4, <1>5, BystanderKeeps DEF RideStep

LEMMA DriverServiceKeeps ==
  ASSUME ChanceInv, MatchingAgreement, NEW p \in Handlers, DriverStep(p) \/ DriverCall(p),
         NEW r \in Rides, rstatus[r] = "matching", HasChance(r)
  PROVE  HasChance(r)'
<1> p \in Procs BY DEF Procs
<1> USE DEF ChanceInv, RowTypes, SlotOK
<1>1. ASSUME \/ PendingReadOffer(p) \/ AcceptReadOffer(p) \/ AcceptInvalidOffer(p)
             \/ AcceptLockRide(p) \/ AcceptLockDriver(p) \/ AcceptRefused(p) \/ AcceptCommit(p)
             \/ RejectReadOffer(p)
      PROVE  Bystander(p)
  BY <1>1 DEF Bystander, Hands, Alone, PendingReadOffer, AcceptReadOffer, AcceptInvalidOffer,
     AcceptLockRide, AcceptLockDriver, AcceptRefused, AcceptCommit, RejectReadOffer,
     At, Begin, Finish, Goto
<1>2. ASSUME \/ AvailabilityInsert(p) \/ AvailabilityGeoRem(p) \/ AvailabilityCommit(p)
             \/ LocationInsert(p) \/ LocationGeoAdd(p) \/ LocationThrottle(p) \/ LocationCommit(p)
      PROVE  Bystander(p)
  BY <1>2 DEF Bystander, Hands, Alone, AvailabilityInsert, AvailabilityGeoRem,
     AvailabilityCommit, LocationInsert, LocationGeoAdd, LocationThrottle, LocationCommit,
     InsertDriver, driverFrame, At, Begin, Finish, Goto
<1>3. ASSUME DriverCall(p) PROVE Bystander(p)
  BY <1>3 DEF Bystander, Hands, Alone, DriverCall, PendingBegin, AcceptBegin, RejectBegin,
     AvailabilityBegin, LocationBegin, MayBegin, driverFrame, At, Begin, Finish, Goto
<1>4. CASE AcceptClear(p)
  <2>1. /\ Alone(p) /\ UNCHANGED queue /\ pc[p] = "accept_clear"
        /\ \A s \in Rides : s # lv[p].ride => offer'[s] = offer[s]
    BY <1>4 DEF AcceptClear, ClearOffer, Finish, Goto, Alone, At
  <2>2. lv[p].ride # r
    BY <2>1 DEF ClearsLate, MatchingAgreement
  <2> QED BY <2>1, <2>2, ChanceStays DEF Kept, HasOffer, Hands
<1>5. CASE RejectClear(p)
  <2>1. /\ Alone(p) /\ UNCHANGED queue /\ lv' = lv /\ pc'[p] = "reject_enqueue"
        /\ \A s \in Rides : s # lv[p].ride => offer'[s] = offer[s]
    BY <1>5 DEF RejectClear, ClearOffer, Goto, Alone, At
  <2> QED BY <1>5, <2>1, ChanceStays DEF Kept, HasOffer, Hands
<1>6. CASE RejectEnqueue(p)
  <2>1. /\ Alone(p) /\ UNCHANGED offer /\ Enqueue(lv[p].ride)
    BY <1>6 DEF RejectEnqueue, Finish, Goto, Alone, At
  <2>2. lv[p].ride \in Rides
    BY <1>6 DEF RejectEnqueue, At, RideLabels, Labels, AvailLabels, LocLabels
  <2>3. queue'[lv[p].ride] > 0 /\ \A s \in Rides : queue'[s] >= queue[s]
    BY <2>1, <2>2 DEF Enqueue
  <2>4. queue[r] > 0 => Kept(p, r)
    BY <2>1, <2>2 DEF Enqueue, Kept
  <2>5. lv[p].ride = r => Kept(p, r)
    BY <2>3 DEF Kept
  <2>6. HasOffer(r) => Kept(p, r)
    BY <2>1 DEF HasOffer, Kept
  <2> QED BY <2>1, <2>4, <2>5, <2>6, ChanceStays
<1> QED BY <1>1, <1>2, <1>3, <1>4, <1>5, <1>6, BystanderKeeps DEF DriverStep

LEMMA TripServiceKeeps ==
  ASSUME ChanceInv, NEW p \in Handlers, TripStep(p) \/ TripCall(p),
         NEW r \in Rides, HasChance(r)
  PROVE  HasChance(r)'
<1> p \in Procs BY DEF Procs
<1>1. Bystander(p)
  BY DEF ChanceInv, RowTypes, SlotOK, Bystander, Hands, Alone, TripStep, TripCall, TripBegin, TripLoadRide, TripRefused,
     TripCommit, PauseCommit, EndLoadDriver, EndLockDriver, EndCommit, MayBegin, tripFrame,
     redis, At, Begin, Finish, Goto
<1> QED BY <1>1, BystanderKeeps

(* A task that returns early without one of the three reasons never had a   *)
(* ride in matching.                                                       *)
LEMMA MatchWorkerKeeps ==
  ASSUME ChanceInv, MatchingAgreement, NEW w \in Workers, MatchStep(w) \/ MatchCall(w),
         ~MatchNoCandidates(w), ~MatchNoneOnline(w), ~MatchAssignBusy(w),
         NEW r \in Rides, rstatus[r] = "matching", HasChance(r)
  PROVE  HasChance(r)'
<1> w \in Procs BY DEF Procs
<1> USE DEF ChanceInv, RowTypes, SlotOK
<1>1. ASSUME NEW s \in Rides, MatchTake(w, s) PROVE HasChance(r)'
  <2>1. /\ Alone(w) /\ UNCHANGED offer /\ pc[w] = "idle" /\ pc'[w] = "match_lock" /\ lv'[w].ride = s
        /\ \A x \in Rides : x # s => queue'[x] = queue[x]
    BY <1>1, NoLocalsType DEF MatchTake, MayBegin, Begin, Goto, Alone, At, Locals
  <2> QED BY <2>1, ChanceStays DEF Kept, HasOffer, Hands
<1>2. ASSUME MatchLockRide(w) \/ MatchAssignLock(w) PROVE HasChance(r)'
  <2>1. /\ Alone(w) /\ UNCHANGED <<offer, queue>> /\ lv' = lv /\ pc'[w] \in Hands
    BY <1>2 DEF MatchLockRide, MatchAssignLock, Goto, Alone, At, Hands
  <2> QED BY <2>1, ChanceStays DEF Kept, HasOffer
<1>3. CASE MatchNotWanted(w)
  <2>1. Alone(w) /\ UNCHANGED <<offer, queue>> /\ lv[w].ride # r
    BY <1>3 DEF MatchNotWanted, MatchingAgreement, Finish, Goto, Alone, At
  <2> QED BY <2>1, ChanceStays DEF Kept, HasOffer
<1>4. ASSUME \/ \E near \in SUBSET Drivers : MatchGeoSearch(w, near)
             \/ \E d \in Drivers : MatchChoose(w, d)
      PROVE  HasChance(r)'
  <2>1. /\ Alone(w) /\ UNCHANGED <<offer, queue>> /\ pc'[w] \in Hands
    BY <1>4 DEF MatchGeoSearch, MatchChoose, Begin, Goto, Alone, At, Hands
  <2>2. lv[w] \in Locals /\ lv \in [Procs -> Locals]
    OBVIOUS
  <2>3. lv'[w].ride = lv[w].ride
    <3>1. ASSUME NEW near \in SUBSET Drivers, MatchGeoSearch(w, near) PROVE lv'[w].ride = lv[w].ride
      <4> DEFINE mine == [lv[w] EXCEPT !.near = near]
      <4>1. mine.ride = lv[w].ride
        BY <2>2 DEF Locals
      <4>2. lv' = [lv EXCEPT ![w] = mine]
        BY <3>1 DEF MatchGeoSearch, Begin
      <4> QED BY <2>2, <4>1, <4>2
    <3>2. ASSUME NEW d \in Drivers, MatchChoose(w, d) PROVE lv'[w].ride = lv[w].ride
      <4> DEFINE mine == [lv[w] EXCEPT !.driver = d, !.near = {}]
      <4>1. mine.ride = lv[w].ride
        BY <2>2 DEF Locals
      <4>2. lv' = [lv EXCEPT ![w] = mine]
        BY <3>2 DEF MatchChoose, Begin
      <4> QED BY <2>2, <4>1, <4>2
    <3> QED BY <1>4, <3>1, <3>2
  <2> QED BY <2>1, <2>3, ChanceStays DEF Kept, HasOffer
<1>5. ASSUME NEW t \in Tokens, MatchStore(w, t) PROVE HasChance(r)'
  <2>1. pc[w] = "match_store" /\ lv[w].driver \in Drivers
    BY <1>5 DEF MatchStore, At, DriverLabels, AvailLabels, LocLabels
  <2>2. /\ Alone(w) /\ UNCHANGED queue
        /\ offer' = [offer EXCEPT ![lv[w].ride] = [driver |-> lv[w].driver, token |-> t]]
    BY <1>5 DEF MatchStore, StoreOffer, Goto, Alone
  <2>3. [driver |-> lv[w].driver, token |-> t] # NoOffer
    BY <2>1 DEF NoOffer
  <2>4. /\ \A s \in Rides : s # lv[w].ride => offer'[s] = offer[s]
        /\ lv[w].ride = r => HasOffer(r)'
    BY <2>2, <2>3 DEF HasOffer
  <2> QED BY <2>2, <2>4, ChanceStays DEF Kept, HasOffer
<1>6. CASE MatchRelease(w)
  <2>1. Bystander(w)
    BY <1>6 DEF Bystander, MatchRelease, MatchReturn, Finish, Goto, Alone, At, Hands
  <2> QED BY <2>1, BystanderKeeps
<1> QED BY <1>1, <1>2, <1>3, <1>4, <1>5, <1>6 DEF MatchStep, MatchCall

LEMMA EnvironmentKeeps ==
  ASSUME ChanceInv, Environment, NEW r \in Rides, HasChance(r),
         ~OfferExpires(r), \A p \in Procs : ~Fail(p)
  PROVE  HasChance(r)'
<1> USE DEF ChanceInv, RowTypes, SlotOK
<1>1. ASSUME NEW s \in Rides, OfferExpires(s) PROVE HasChance(r)'
  <2>1. s # r /\ offer'[r] = offer[r] /\ UNCHANGED <<queue, pc, lv>>
    BY <1>1 DEF OfferExpires
  <2> QED BY <2>1 DEF HasChance, HasOffer
<1>2. CASE \/ \E s \in Rides : AssignLockExpires(s)
           \/ \E d \in Drivers : IndexExpires(d) \/ ThrottleExpires(d)
  BY <1>2 DEF AssignLockExpires, IndexExpires, ThrottleExpires, HasChance, HasOffer
<1>3. ASSUME NEW p \in Procs, DeadlockVictim(p) PROVE HasChance(r)'
  <2>1. Bystander(p)
    BY <1>3 DEF DeadlockVictim, Abandon, Bystander, Hands, Alone, Finish, Goto, redis
  <2> QED BY <2>1, BystanderKeeps
<1> QED BY <1>1, <1>2, <1>3 DEF Environment

------------------------------------------------------------------------------
(* Only the commit of an accept leads to its clear. *)
LEMMA ClearFollowsCommit ==
  ASSUME SlotOK, [Next]_vars, NEW p \in Procs, pc'[p] = "accept_clear"
  PROVE  AcceptCommit(p) \/ (pc[p] = "accept_clear" /\ lv'[p] = lv[p])
<1> USE DEF SlotOK
<1>1. ASSUME NEW q \in Procs, RideStep(q) \/ RideCall(q)
      PROVE  pc[p] = "accept_clear" /\ lv'[p] = lv[p]
  BY <1>1 DEF RideStep, RideCall, CreateBegin, CreateReplay, CreateNoReplay,
     CreateConflict, CreateNoConflict, CreateEnsureRider, CreateCommit,
     CreateIntegrityError, CreateEnqueue, CancelBegin, CancelLoadTrip, CancelReadOffer,
     CancelClear, CancelRefused, CancelCommit, Begin, Finish, Goto
<1>2. ASSUME NEW q \in Procs, TripStep(q) \/ TripCall(q)
      PROVE  pc[p] = "accept_clear" /\ lv'[p] = lv[p]
  <2>1. CASE TripLoadRide(q)
    <3>1. lv[q].want \in TripOps /\ pc' = [pc EXCEPT ![q] = AfterCheck(lv[q].want)]
      BY <2>1 DEF TripLoadRide, At, Begin, Goto
    <3>2. AfterCheck(lv[q].want) \in {"trip_commit", "pause_commit", "end_driver"}
      BY <3>1 DEF AfterCheck, TripOps
    <3>3. p # q
      BY <3>1, <3>2
    <3> QED BY <2>1, <3>1, <3>3 DEF TripLoadRide, Begin
  <2>2. CASE TripStep(q) /\ ~TripLoadRide(q)
    BY <2>2 DEF TripStep, TripRefused, TripCommit, PauseCommit, EndLoadDriver, EndLockDriver,
       EndCommit, Begin, Finish, Goto
  <2>3. CASE TripCall(q)
    BY <2>3 DEF TripCall, TripBegin, Begin, Goto
  <2> QED BY <1>2, <2>1, <2>2, <2>3
<1>3. ASSUME NEW q \in Procs, MatchStep(q) \/ MatchCall(q)
      PROVE  pc[p] = "accept_clear" /\ lv'[p] = lv[p]
  BY <1>3 DEF MatchStep, MatchCall, MatchTake, MatchLockRide, MatchNotWanted,
     MatchGeoSearch, MatchNoCandidates, MatchChoose, MatchNoneOnline, MatchAssignLock,
     MatchAssignBusy, MatchStore, MatchRelease, MatchReturn, Begin, Finish, Goto
<1>4. ASSUME NEW q \in Procs, DriverStep(q) \/ DriverCall(q)
      PROVE  AcceptCommit(p) \/ (pc[p] = "accept_clear" /\ lv'[p] = lv[p])
  <2>1. CASE AcceptCommit(q)
    BY <2>1 DEF AcceptCommit, Begin, Goto
  <2>2. CASE \/ AvailabilityInsert(q) \/ AvailabilityGeoRem(q) \/ AvailabilityCommit(q)
             \/ LocationInsert(q) \/ LocationGeoAdd(q) \/ LocationThrottle(q) \/ LocationCommit(q)
    BY <2>2 DEF AvailabilityInsert, AvailabilityGeoRem, AvailabilityCommit, LocationInsert,
       LocationGeoAdd, LocationThrottle, LocationCommit, InsertDriver, AfterEnsure, Begin,
       Finish, Goto
  <2>3. CASE \/ PendingReadOffer(q) \/ AcceptReadOffer(q) \/ AcceptInvalidOffer(q)
             \/ AcceptLockRide(q) \/ AcceptLockDriver(q) \/ AcceptRefused(q) \/ AcceptClear(q)
             \/ RejectReadOffer(q) \/ RejectClear(q) \/ RejectEnqueue(q)
    BY <2>3 DEF PendingReadOffer, AcceptReadOffer, AcceptInvalidOffer, AcceptLockRide,
       AcceptLockDriver, AcceptRefused, AcceptClear, RejectReadOffer, RejectClear,
       RejectEnqueue, Begin, Finish, Goto
  <2>4. CASE DriverCall(q)
    BY <2>4 DEF DriverCall, PendingBegin, AcceptBegin, RejectBegin, AvailabilityBegin,
       LocationBegin, AfterEnsure, AfterLoad, Begin, Goto
  <2> QED BY <1>4, <2>1, <2>2, <2>3, <2>4 DEF DriverStep
<1>5. CASE Environment
  BY <1>5 DEF Environment, OfferExpires, AssignLockExpires, IndexExpires,
     ThrottleExpires, Fail, DeadlockVictim, Abandon, Finish, Goto
<1>6. CASE UNCHANGED vars
  BY <1>6 DEF vars
<1> QED BY <1>1, <1>2, <1>3, <1>4, <1>5, <1>6 DEF Next, Call, Step, Procs

LEMMA ClearsLateStep ==
  ASSUME TypeInv, LockInv, ClearsLate, [Next]_vars
  PROVE  ClearsLate'
<1> SUFFICES ASSUME NEW p \in Procs, pc'[p] = "accept_clear" PROVE rdriver'[lv'[p].ride] # None
  BY DEF ClearsLate
<1>1. SlotOK
  BY SlotFacts
<1>2. \A r \in Rides : rdriver[r] # None => rdriver'[r] # None
  <2>1. [A!Next]_(A!vars)
    BY NextAssigns
  <2> QED BY <1>1, <2>1 DEF A!Next, A!vars, A!Assign, A!ChangeAvailability, SlotOK
<1>3. CASE AcceptCommit(p)
  <2>1. lv[p].ride \in Rides /\ lv[p].driver \in Drivers
    BY <1>1, <1>3, LabelFacts DEF AcceptCommit, At, SlotOK
  <2>2. lv'[p].ride = lv[p].ride
    BY <1>1, <1>3, NoLocalsType DEF AcceptCommit, Begin, SlotOK, Locals
  <2>3. rdriver' = [rdriver EXCEPT ![lv[p].ride] = lv[p].driver]
    BY <1>3 DEF AcceptCommit
  <2>4. lv[p].driver # None
    BY <2>1, ConstantsAssumption
  <2> QED BY <1>1, <2>1, <2>2, <2>3, <2>4 DEF SlotOK
<1>4. CASE pc[p] = "accept_clear" /\ lv'[p] = lv[p]
  <2>1. lv[p].ride \in Rides
    BY <1>1, <1>4 DEF SlotOK, RideLabels, Labels, AvailLabels, LocLabels
  <2> QED BY <1>2, <1>4, <2>1 DEF ClearsLate
<1> QED BY <1>1, <1>3, <1>4, ClearFollowsCommit

LEMMA ClearsLateCorrect == Spec => []ClearsLate
<1>1. Init => ClearsLate
  BY DEF Init, ClearsLate
<1> QED BY <1>1, ClearsLateStep, TypesAndArguments, LocksAndReads, PTL DEF Spec

------------------------------------------------------------------------------
(* No interleaving of creates, accepts, rejects, cancels, trips and tasks   *)
(* drops a ride that is in matching, but for the outcomes that are known to *)
(* (nobody to offer it to, the assign lock taken, the offer lapsed, a       *)
(* failure).                                                                *)
THEOREM ChanceKeptCorrect == Spec => ChanceKept
<1> DEFINE Excused(r) == \/ OfferExpires(r)
                         \/ \E w \in Workers : MatchNoCandidates(w) \/ MatchNoneOnline(w) \/ MatchAssignBusy(w)
                         \/ \E p \in Procs : Fail(p)
           Dropped(r) == rstatus[r] = "matching" /\ HasChance(r) /\ rstatus'[r] = "matching" /\ ~HasChance(r)'
<1>1. ASSUME TypeInv, RideInv, ClearsLate, [Next]_vars PROVE \A r \in Rides : Dropped(r) => Excused(r)
  <2> SUFFICES ASSUME NEW r \in Rides, rstatus[r] = "matching", HasChance(r),
                      rstatus'[r] = "matching", ~Excused(r)
               PROVE  HasChance(r)'
    OBVIOUS
  <2>1. ChanceInv /\ MatchingAgreement
    BY <1>1, RowFacts DEF ChanceInv, RideInv, RowsOK
  <2>2. ASSUME NEW p \in Handlers, \/ RideStep(p) \/ DriverStep(p) \/ TripStep(p) \/ Call(p)
        PROVE  HasChance(r)'
    BY <2>1, <2>2, RideServiceKeeps, DriverServiceKeeps, TripServiceKeeps DEF Call
  <2>3. ASSUME NEW w \in Workers, MatchStep(w) \/ MatchCall(w) PROVE HasChance(r)'
    BY <2>1, <2>3, MatchWorkerKeeps
  <2>4. CASE Environment
    BY <2>1, <2>4, EnvironmentKeeps
  <2>5. CASE UNCHANGED vars
    BY <2>5 DEF vars, redis, HasChance, HasOffer
  <2> QED BY <1>1, <2>2, <2>3, <2>4, <2>5 DEF Next, Step, Procs
<1>2. ASSUME TypeInv, RideInv, ClearsLate, [Next]_vars
      PROVE  [\A r \in Rides : Dropped(r) => Excused(r)]_vars
  BY <1>1, <1>2
<1> QED BY <1>2, TypesAndArguments, RidesAndReads, ClearsLateCorrect, PTL DEF Spec, ChanceKept
==============================================================================
