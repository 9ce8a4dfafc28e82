---------------------------- MODULE CometRides ------------------------------
(***************************************************************************)
(* The rows of a ride and its trip under any interleaving: the two tables  *)
(* agree on matching, a trip that moved has a driver, an offer is stored   *)
(* for a ride in matching only.  The handlers that write these rows decide *)
(* on values read long before; what saves the invariants is that rides     *)
(* only move Forward, so that what was once past matching still is.        *)
(***************************************************************************)
EXTENDS CometLocks

Booked(r) == rstatus[r] # NoRow

(* The labels at which create_ride has not yet inserted its ride. *)
Before == {"create_key", "create_active", "create_rider", "create_commit"}

(* The labels at which a slot has read the trip, and those at which it has *)
(* found the move it will make allowed.                                    *)
Moving   == {"trip_commit", "pause_commit", "end_driver", "end_lock", "end_commit"}
TripRead == {"cancel_offer", "cancel_clear", "cancel_commit", "trip_ride"} \cup Moving
RideRead == {"cancel_trip", "cancel_offer", "cancel_clear", "cancel_commit"} \cup Moving

(* The labels at which match_ride has the ride locked. *)
MatchLocked == {"match_geo", "match_rank", "match_setnx", "match_store", "match_release"}

(* The two tables, row by row. *)
RowsOK ==
  /\ \A r \in Rides : /\ rstatus[r] = NoRow <=> tstatus[r] = NoRow
                      /\ rstatus[r] = NoRow => rdriver[r] = None
  /\ MatchingAgreement
  /\ DriverBehindTrip

(* Offers, apps and tasks name rides that exist. *)
RefsOK ==
  /\ \A d \in Drivers : /\ index[d] # None => Booked(index[d])
                        /\ inbox[d].ride # None => Booked(inbox[d].ride)
  /\ \A r \in Rides : queue[r] > 0 => Booked(r)

(* What slot p has read says of the rows as they are now. *)
SlotSees(p) ==
  LET r == lv[p].ride IN
  /\ pc[p] \in Before => ~Booked(r)
  /\ pc[p] \in RideLabels \ Before => Booked(r)
  /\ pc[p] \in RideRead => /\ lv[p].rst # NoRow
                           /\ rstatus[r] = "matching" => lv[p].rst = "matching"
  /\ pc[p] \in TripRead => /\ lv[p].tst # NoRow
                           /\ tstatus[r] = "MATCHING" => lv[p].tst = "MATCHING"
  /\ pc[p] \in TripRead /\ lv[p].tst \in MovingTrip => rdriver[r] # None
  /\ pc[p] \in Moving => lv[p].tst \in MovingTrip
  /\ pc[p] \in MatchLocked => rstatus[r] = "matching"

(* Two creates on their way have drawn different uuids. *)
OwnRide == \A p, q \in Procs :
  p # q /\ pc[p] \in Before /\ pc[q] \in Before => lv[p].ride # lv[q].ride

RideInv == RowsOK /\ RefsOK /\ (\A p \in Procs : SlotSees(p)) /\ OwnRide

------------------------------------------------------------------------------
(* What the proofs below use of the types. *)
RowTypes ==
  /\ SlotOK
  /\ rstatus \in [Rides -> RideStatus \cup {NoRow}]
  /\ tstatus \in [Rides -> TripStatus \cup {NoRow}]
  /\ offer \in [Rides -> [driver: Drivers \cup {None}, token: Tokens \cup {None}]]
  /\ index \in [Drivers -> Rides \cup {None}]
  /\ inbox \in [Drivers -> [ride: Rides \cup {None}, token: Tokens \cup {None}]]
  /\ queue \in [Rides -> Nat]
  /\ None \notin Rides /\ None \notin Drivers

LEMMA RowFacts == TypeInv => RowTypes
  BY SlotFacts, ConstantsAssumption DEF TypeInv, TypeOK, OrNone, RowTypes

(* How the rows change in a step of p: a ride never falls back, p books the *)
(* ride it drew, and writes no status another slot has locked.             *)
Forward(p) ==
  \A r \in Rides :
    /\ Booked(r) => Booked(r)'
    /\ Booked(r) /\ rstatus'[r] = "matching" => rstatus[r] = "matching"
    /\ Booked(r) /\ tstatus'[r] = "MATCHING" => tstatus[r] = "MATCHING"
    /\ rdriver[r] # None => rdriver'[r] # None
    /\ ~Booked(r) /\ Booked(r)' => pc[p] \in Before /\ lv[p].ride = r
    /\ Booked(r) /\ rstatus'[r] # rstatus[r] => rideLock[r] \in {None, p}

(* Then what the other slots have read stays so. *)
LEMMA OthersSee ==
  ASSUME RowTypes, LockInv, RideInv, NEW p \in Procs, Alone(p), Forward(p)
  PROVE  \A q \in Procs \ {p} : SlotSees(q)'
<1> SUFFICES ASSUME NEW q \in Procs, q # p PROVE SlotSees(q)'
  OBVIOUS
<1> DEFINE r == lv[q].ride
<1>1. pc'[q] = pc[q] /\ lv'[q] = lv[q] /\ SlotSees(q)
  BY DEF Alone, RideInv
<1>2. pc[q] \in RideLabels => r \in Rides
  BY DEF RowTypes, SlotOK
<1>3. /\ Before \cup RideRead \cup TripRead \cup MatchLocked \subseteq RideLabels
      /\ Before \cap (RideRead \cup TripRead \cup MatchLocked) = {}
  BY DEF Before, RideRead, TripRead, Moving, MatchLocked, RideLabels, Labels,
     AvailLabels, LocLabels
<1>4. pc[q] \in Before => ~Booked(r)'
  BY <1>1, <1>2, <1>3 DEF Forward, SlotSees, RideInv, OwnRide
<1>5. pc[q] \in MatchLocked => rideLock[r] = q /\ Booked(r)
  BY <1>1 DEF LockInv, LocksHeld, MatchLocked, HoldsRide, SlotSees, Booked, NoRow
<1>6. pc[q] \in MatchLocked => rstatus'[r] = "matching"
  <2>1. pc[q] \in MatchLocked => rstatus[r] = "matching"
    BY <1>1 DEF SlotSees
  <2>2. pc[q] \in MatchLocked => rideLock[r] \notin {None, p}
    <3>1. q # None
      BY DEF RowTypes, SlotOK
    <3> QED BY <1>5, <3>1
  <2> QED BY <1>2, <1>3, <1>5, <2>1, <2>2 DEF Forward
<1> QED
  BY <1>1, <1>2, <1>3, <1>4, <1>6 DEF Forward, SlotSees, Booked

(* A step may name the ride of its slot to a driver or to the queue.       *)
RefsBy(p) ==
  LET mine(r) == pc[p] \in RideLabels \ Before /\ r = lv[p].ride IN
  /\ \A d \in Drivers : /\ index'[d] \in {index[d], None} \/ mine(index'[d])
                        /\ inbox'[d].ride \in {inbox[d].ride, None} \/ mine(inbox'[d].ride)
  /\ \A r \in Rides : (queue'[r] > 0 => queue[r] > 0) \/ mine(r)

LEMMA RefsStay ==
  ASSUME RowTypes, RideInv, NEW p \in Procs, RefsBy(p),
         \A r \in Rides : Booked(r) => Booked(r)'
  PROVE  RefsOK'
<1>1. pc[p] \in RideLabels \ Before => lv[p].ride \in Rides /\ Booked(lv[p].ride)
  BY DEF RideInv, SlotSees, RowTypes, SlotOK
<1>2. \A d \in Drivers : /\ index[d] # None => index[d] \in Rides /\ Booked(index[d])
                         /\ inbox[d].ride # None =>
                              inbox[d].ride \in Rides /\ Booked(inbox[d].ride)
  BY DEF RideInv, RefsOK, RowTypes
<1>3. \A d \in Drivers : /\ index'[d] # None => Booked(index[d])'
                         /\ inbox'[d].ride # None => Booked(inbox[d].ride)'
  BY <1>1, <1>2 DEF RefsBy, Booked
<1>4. \A r \in Rides : queue'[r] > 0 => Booked(r)'
  <2>1. ASSUME NEW r \in Rides, queue'[r] > 0 PROVE Booked(r)
    BY <1>1, <2>1 DEF RefsBy, RideInv, RefsOK
  <2> QED BY <2>1
<1> QED BY <1>3, <1>4 DEF RefsOK, Booked

(* A step that leaves the rows alone. *)
Quiet(p) ==
  /\ Alone(p) /\ UNCHANGED <<rstatus, tstatus, rdriver>>
  /\ RefsBy(p)
  /\ pc'[p] \in Before => pc[p] \in Before /\ lv'[p].ride = lv[p].ride

LEMMA QuietStep ==
  ASSUME RowTypes, LockInv, RideInv, NEW p \in Procs, Quiet(p),
         pc'[p] \notin RideLabels \/ SlotSees(p)'
  PROVE  RideInv'
<1> USE DEF Quiet
<1>1. Forward(p)
  BY DEF Forward, Booked
<1>2. \A q \in Procs \ {p} : SlotSees(q)'
  BY <1>1, OthersSee
<1>3. SlotSees(p)'
  BY DEF SlotSees, Before, RideRead, TripRead, Moving, MatchLocked, RideLabels, Labels,
     AvailLabels, LocLabels
<1>4. RowsOK'
  BY DEF RideInv, RowsOK, MatchingAgreement, DriverBehindTrip
<1>5. OwnRide'
  BY DEF RideInv, OwnRide, Alone
<1>6. RefsOK'
  BY <1>1, RefsStay DEF Forward
<1> QED BY <1>2, <1>3, <1>4, <1>5, <1>6 DEF RideInv

(* A step that writes the rows, and ends the call or goes on after its     *)
(* commit.                                                                 *)
LEMMA WritingStep ==
  ASSUME RowTypes, LockInv, RideInv, NEW p \in Procs, Alone(p), Forward(p),
         UNCHANGED <<index, inbox, queue>>,
         pc'[p] \notin Before, RowsOK', SlotSees(p)'
  PROVE  RideInv'
<1>1. \A q \in Procs \ {p} : SlotSees(q)'
  BY OthersSee
<1>2. RefsOK'
  BY RefsStay DEF Forward, RefsBy
<1>3. OwnRide'
  BY DEF RideInv, OwnRide, Alone
<1> QED BY <1>1, <1>2, <1>3 DEF RideInv

(* A slot that goes on, and reads no status, sees what it saw.             *)
LEMMA GoesOn ==
  ASSUME RideInv, NEW p \in Procs, UNCHANGED <<rstatus, tstatus, rdriver>>,
         lv'[p].ride = lv[p].ride, lv'[p].rst = lv[p].rst, lv'[p].tst = lv[p].tst,
         pc[p] \in RideLabels \ Before <=> pc'[p] \in RideLabels \ Before,
         pc'[p] \in Before => pc[p] \in Before,
         pc'[p] \in RideRead => pc[p] \in RideRead,
         pc'[p] \in TripRead => pc[p] \in TripRead,
         pc'[p] \in Moving => pc[p] \in Moving,
         pc'[p] \in MatchLocked => pc[p] \in MatchLocked
  PROVE  SlotSees(p)'
  BY DEF RideInv, SlotSees, Booked

------------------------------------------------------------------------------
(* create_ride and cancel_ride keep RideInv. *)
LEMMA RideServiceRides ==
  ASSUME RowTypes, RowTypes', LockInv, RideInv, NEW p \in Handlers,
         RideStep(p) \/ RideCall(p)
  PROVE  RideInv'
<1> p \in Procs BY DEF Procs
<1> USE DEF SlotOK, RowTypes
<1>1. ASSUME CreateReplay(p) \/ CreateConflict(p) \/ CreateIntegrityError(p) \/
            CancelRefused(p)
      PROVE  RideInv'
  <2>1. Quiet(p) /\ pc'[p] \notin RideLabels
    BY <1>1 DEF Quiet, Alone, RefsBy, Before, CreateReplay, At, Finish, book,
       rideFrame, Goto, locks, CreateConflict, CreateIntegrityError, CancelRefused,
       RideLabels, Labels, AvailLabels, LocLabels
  <2> QED BY <2>1, QuietStep
<1>2. ASSUME CreateEnqueue(p)
      PROVE  RideInv'
  <2>1. Quiet(p) /\ pc'[p] \notin RideLabels
    BY <1>2 DEF Quiet, Alone, RefsBy, Before, CreateEnqueue, At, Enqueue, Finish,
       book, rideFrame, Goto, locks, RideLabels, Labels, AvailLabels, LocLabels
  <2> QED BY <2>1, QuietStep
<1>3. ASSUME CreateNoReplay(p) PROVE RideInv'
  <2>1. Quiet(p)
    BY <1>3 DEF Quiet, Alone, RefsBy, CreateNoReplay, At, Goto, book, rideFrame,
       locks, Before
  <2>2. SlotSees(p)'
    BY <1>3 DEF CreateNoReplay, At, Goto, rideFrame, RideInv, SlotSees, Booked,
       Before, RideRead, TripRead, Moving, MatchLocked, RideLabels, Labels,
       AvailLabels, LocLabels
  <2> QED BY <2>1, <2>2, QuietStep
<1>4. ASSUME CreateNoConflict(p) PROVE RideInv'
  <2>1. Quiet(p)
    BY <1>4 DEF Quiet, Alone, RefsBy, CreateNoConflict, At, Goto, book, rideFrame,
       locks, Before
  <2>2. SlotSees(p)'
    BY <1>4 DEF CreateNoConflict, At, Goto, rideFrame, RideInv, SlotSees, Booked,
       Before, RideRead, TripRead, Moving, MatchLocked, RideLabels, Labels,
       AvailLabels, LocLabels
  <2> QED BY <2>1, <2>2, QuietStep
<1>5. ASSUME NEW r \in Rides, CancelBegin(p, r) PROVE RideInv'
  <2>1. Quiet(p)
    BY <1>5, NoLocalsType DEF Quiet, Alone, RefsBy, CancelBegin, Begin, MayBegin,
       book, rideFrame, Goto, At, locks, Before, Locals
  <2>2. SlotSees(p)'
    BY <1>5, NoLocalsType DEF CancelBegin, Begin, MayBegin, rideFrame, Goto, At,
       RideInv, RowsOK, SlotSees, Booked, Locals, Before, RideRead, TripRead,
       Moving, MatchLocked, RideLabels, Labels, AvailLabels, LocLabels
  <2> QED BY <2>1, <2>2, QuietStep
<1>6. ASSUME NEW u \in Riders, NEW k \in OrNone(Keys), NEW r \in Rides,
             CreateBegin(p, u, k, r)
      PROVE  RideInv'
  <2>1. /\ Alone(p) /\ UNCHANGED <<rstatus, tstatus, rdriver, index, inbox, queue>>
        /\ pc'[p] \in {"create_key", "create_active"} /\ lv'[p].ride = r
    BY <1>6, NoLocalsType DEF CreateBegin, MayBegin, At, Begin, Goto, Alone, rideFrame,
       Locals
  <2>2. ~Booked(r) /\ \A q \in Procs : lv[q].ride # r
    BY <1>6 DEF CreateBegin, Fresh, Booked
  <2>3. Forward(p)
    BY <2>1 DEF Forward, Booked
  <2>4. \A q \in Procs \ {p} : SlotSees(q)'
    BY <2>3, <2>1, OthersSee
  <2>5. SlotSees(p)'
    BY <2>1, <2>2 DEF SlotSees, Booked, Before, RideRead, TripRead, Moving, MatchLocked
  <2>6. OwnRide'
    BY SMTT(30), <2>1, <2>2 DEF RideInv, OwnRide, Alone
  <2>7. RowsOK' /\ RefsOK'
    BY <2>1 DEF RideInv, RowsOK, RefsOK, MatchingAgreement, DriverBehindTrip, Booked
  <2> QED BY <2>4, <2>5, <2>6, <2>7 DEF RideInv
<1>7. ASSUME CreateCommit(p) PROVE RideInv'
  <2> DEFINE r == lv[p].ride
  <2>1. /\ Alone(p) /\ UNCHANGED <<rdriver, index, inbox, queue>>
        /\ pc[p] = "create_commit" /\ pc'[p] = "create_enqueue" /\ lv'[p] = lv[p]
        /\ r \in Rides
        /\ rstatus' = [rstatus EXCEPT ![r] = "matching"]
        /\ tstatus' = [tstatus EXCEPT ![r] = "MATCHING"]
    BY <1>7 DEF CreateCommit, At, Goto, Alone, rideFrame, RideLabels, Labels, AvailLabels,
       LocLabels
  <2>2. ~Booked(r)
    BY <2>1 DEF RideInv, SlotSees, Before
  <2>3. Forward(p)
    BY <2>1, <2>2 DEF Forward, Booked, Before, NoRow
  <2>4. RowsOK'
    BY <2>1, <2>2 DEF RideInv, RowsOK, MatchingAgreement, DriverBehindTrip, Booked, NoRow,
       MovingTrip
  <2>5. SlotSees(p)'
    BY <2>1 DEF SlotSees, Booked, NoRow, Before, RideRead, TripRead, Moving, MatchLocked
  <2>6. pc'[p] \notin Before
    BY <2>1 DEF Before
  <2> QED BY <2>1, <2>3, <2>4, <2>5, <2>6, WritingStep
<1>8. ASSUME CancelCommit(p) PROVE RideInv'
  <2> DEFINE r == lv[p].ride
  <2>1. /\ Alone(p) /\ UNCHANGED <<rdriver, index, inbox, queue>>
        /\ pc[p] = "cancel_commit" /\ pc'[p] = "idle"
        /\ r \in Rides /\ rideLock[r] = None
        /\ rstatus' = [rstatus EXCEPT ![r] = "cancelled"]
        /\ tstatus' = IF lv[p].tst \in TerminalTrip THEN tstatus
                      ELSE [tstatus EXCEPT ![r] = "CANCELLED"]
    BY <1>8 DEF CancelCommit, RideFree, At, Finish, Goto, Alone, rideFrame, RideLabels,
       Labels, AvailLabels, LocLabels
  <2>2. /\ Booked(r)
        /\ lv[p].tst # NoRow /\ (tstatus[r] = "MATCHING" => lv[p].tst = "MATCHING")
    BY <2>1 DEF RideInv, SlotSees, Before, TripRead, RideLabels, Labels, AvailLabels,
       LocLabels
  <2>3. /\ tstatus' \in [Rides -> TripStatus \cup {NoRow}]
        /\ \A s \in Rides \ {r} : tstatus'[s] = tstatus[s]
        /\ tstatus'[r] \in {tstatus[r], "CANCELLED"} /\ tstatus'[r] # "MATCHING"
    BY <2>1, <2>2 DEF TerminalTrip
  <2>4. Forward(p)
    BY <2>1, <2>2, <2>3 DEF Forward, Booked, NoRow
  <2>5. RowsOK'
    BY <2>1, <2>2, <2>3 DEF RideInv, RowsOK, MatchingAgreement, DriverBehindTrip, Booked,
       NoRow, MovingTrip
  <2>6. SlotSees(p)' /\ pc'[p] \notin Before
    BY <2>1 DEF SlotSees, Before, RideRead, TripRead, Moving, MatchLocked, RideLabels
  <2> QED BY <2>1, <2>4, <2>5, <2>6, WritingStep
<1>9. ASSUME CreateEnsureRider(p) PROVE RideInv'
  <2> DEFINE w == IF lv[p].rider \in riders THEN "" ELSE "new_rider"
  <2>1. /\ pc[p] = "create_rider" /\ pc' = [pc EXCEPT ![p] = "create_commit"]
        /\ lv' = [lv EXCEPT ![p] = [lv[p] EXCEPT !.want = w]]
        /\ UNCHANGED <<rstatus, tstatus, rdriver, index, inbox, queue>>
    BY <1>9 DEF CreateEnsureRider, At, Begin, Goto, rideFrame
  <2> HIDE DEF w
  <2>2. /\ lv'[p].ride = lv[p].ride /\ lv'[p].rst = lv[p].rst /\ lv'[p].tst = lv[p].tst
        /\ pc'[p] = "create_commit" /\ Alone(p)
    BY <2>1 DEF Locals, Alone
  <2>3. Quiet(p)
    BY <2>1, <2>2 DEF Quiet, RefsBy, Before
  <2>4. SlotSees(p)'
    BY <2>1, <2>2, GoesOn DEF Before, RideRead, TripRead, Moving, MatchLocked
  <2> QED BY <2>3, <2>4, QuietStep
<1>10. ASSUME CancelLoadTrip(p) PROVE RideInv'
  <2> DEFINE r == lv[p].ride
  <2>1. /\ pc[p] = "cancel_trip" /\ pc'[p] = "cancel_offer" /\ Alone(p) /\ r \in Rides
        /\ lv'[p].ride = r /\ lv'[p].rst = lv[p].rst /\ lv'[p].tst = tstatus[r]
        /\ UNCHANGED <<rstatus, tstatus, rdriver, index, inbox, queue>>
    BY <1>10 DEF CancelLoadTrip, At, Begin, Goto, rideFrame, Alone, Locals, RideLabels,
       Labels, AvailLabels, LocLabels
  <2>2. /\ Booked(r) /\ lv[p].rst # NoRow
        /\ rstatus[r] = "matching" => lv[p].rst = "matching"
    BY <2>1 DEF RideInv, SlotSees, Before, RideRead, RideLabels, Labels, AvailLabels,
       LocLabels
  <2>3. tstatus[r] # NoRow /\ (tstatus[r] \in MovingTrip => rdriver[r] # None)
    BY <2>1, <2>2 DEF RideInv, RowsOK, DriverBehindTrip, Booked
  <2>4. Quiet(p)
    BY <2>1 DEF Quiet, RefsBy, Before
  <2>5. SlotSees(p)'
    BY <2>1, <2>2, <2>3 DEF SlotSees, Booked, Before, Moving, MatchLocked
  <2> QED BY <2>4, <2>5, QuietStep
<1>11. ASSUME CancelReadOffer(p) \/ CancelClear(p) PROVE RideInv'
  <2>1. /\ pc[p] \in {"cancel_offer", "cancel_clear"}
        /\ pc'[p] \in {"cancel_clear", "cancel_commit"} /\ Alone(p)
        /\ lv'[p].ride = lv[p].ride /\ lv'[p].rst = lv[p].rst /\ lv'[p].tst = lv[p].tst
        /\ UNCHANGED <<rstatus, tstatus, rdriver, inbox, queue>>
    BY <1>11 DEF CancelReadOffer, CancelClear, At, Begin, Goto, rideFrame, Alone, Locals
  <2>2. index' = index \/ index' = [index EXCEPT ![lv[p].driver] = None]
    BY <1>11 DEF CancelReadOffer, CancelClear, ClearOffer
  <2>3. Quiet(p)
    BY <2>1, <2>2 DEF Quiet, RefsBy, Before
  <2>4. SlotSees(p)'
    BY <2>1, GoesOn DEF Before, RideRead, TripRead, Moving, MatchLocked, RideLabels, Labels,
       AvailLabels, LocLabels
  <2> QED BY <2>3, <2>4, QuietStep
<1> QED BY <1>1, <1>2, <1>3, <1>4, <1>5, <1>6, <1>7, <1>8, <1>9, <1>10, <1>11 DEF
     RideStep, RideCall

------------------------------------------------------------------------------
(* The trip endpoints keep RideInv. *)
LEMMA TripServiceRides ==
  ASSUME RowTypes, RowTypes', LockInv, RideInv, NEW p \in Handlers,
         TripStep(p) \/ TripCall(p)
  PROVE  RideInv'
<1> p \in Procs BY DEF Procs
<1> USE DEF SlotOK, RowTypes
<1>1. ASSUME TripRefused(p)
      PROVE  RideInv'
  <2>1. Quiet(p) /\ pc'[p] \notin RideLabels
    BY <1>1 DEF Quiet, Alone, RefsBy, Before, TripRefused, At, Finish, locks,
       tripFrame, Goto, book, redis, RideLabels, Labels, AvailLabels, LocLabels
  <2> QED BY <2>1, QuietStep
<1>2. ASSUME EndLockDriver(p) PROVE RideInv'
  <2>1. Quiet(p)
    BY <1>2 DEF Quiet, Alone, RefsBy, EndLockDriver, At, Goto, LockDriver,
       tripFrame, book, redis, Before
  <2>2. SlotSees(p)'
    BY SMTT(30), <1>2 DEF EndLockDriver, At, Goto, LockDriver, tripFrame, redis, RideInv,
       SlotSees, Booked, Before, RideRead, TripRead, Moving, MatchLocked,
       RideLabels, Labels, AvailLabels, LocLabels
  <2> QED BY <2>1, <2>2, QuietStep
<1>3. ASSUME TripLoadRide(p) PROVE RideInv'
  <2> DEFINE r == lv[p].ride
             d == IF lv[p].want = "end" THEN rdriver[r] ELSE None
             next == AfterCheck(lv[p].want)
  <2>1. /\ pc[p] = "trip_ride" /\ pc' = [pc EXCEPT ![p] = next]
        /\ lv' = [lv EXCEPT ![p] = [lv[p] EXCEPT !.rst = rstatus[r], !.drv = d]]
        /\ UNCHANGED <<rstatus, tstatus, rdriver, index, inbox, queue>>
        /\ r \in Rides /\ lv[p].want \in TripOps
        /\ MayTransition(lv[p].tst, TripTarget(lv[p].want))
    BY <1>3 DEF TripLoadRide, At, Begin, Goto, tripFrame, redis, RideLabels, Labels,
       AvailLabels, LocLabels
  <2>2. next \in {"trip_commit", "pause_commit", "end_driver"}
    BY <2>1 DEF AfterCheck, TripOps
  <2> HIDE DEF d, next
  <2>3. /\ lv'[p].ride = r /\ lv'[p].rst = rstatus[r] /\ lv'[p].tst = lv[p].tst
        /\ pc'[p] \in {"trip_commit", "pause_commit", "end_driver"} /\ Alone(p)
    BY <2>1, <2>2 DEF Locals, Alone
  <2>4. /\ Booked(r) /\ lv[p].tst # NoRow
        /\ tstatus[r] = "MATCHING" => lv[p].tst = "MATCHING"
        /\ lv[p].tst \in MovingTrip => rdriver[r] # None
    BY <2>1 DEF RideInv, SlotSees, Before, TripRead, RideLabels, Labels, AvailLabels,
       LocLabels
  <2>5. lv[p].tst \in MovingTrip
    <3>1. lv[p].tst \in TripStatus
      BY <2>4 DEF Locals
    <3>2. TripTarget(lv[p].want) \in {"IN_PROGRESS", "PAUSED", "COMPLETED"}
      BY <2>1 DEF TripTarget, TripOps
    <3>3. TripTarget(lv[p].want) \in Allowed[lv[p].tst]
      BY <2>1 DEF MayTransition
    <3> QED BY <3>1, <3>2, <3>3 DEF Allowed, TripStatus, TerminalTrip, MovingTrip
  <2>6. Quiet(p)
    BY <2>1, <2>3 DEF Quiet, RefsBy, Before
  <2>7. SlotSees(p)'
    BY <2>1, <2>3, <2>4, <2>5 DEF SlotSees, Booked, Before, MatchLocked
  <2> QED BY <2>6, <2>7, QuietStep
<1>4. ASSUME TripCommit(p) PROVE RideInv'
  <2> DEFINE r == lv[p].ride
  <2>1. /\ Alone(p) /\ UNCHANGED <<rdriver, index, inbox, queue>>
        /\ pc[p] = "trip_commit" /\ pc'[p] = "idle" /\ r \in Rides
        /\ \/ rideLock[r] = None /\ rstatus' = [rstatus EXCEPT ![r] = "in_progress"]
           \/ lv[p].rst = "in_progress" /\ rstatus' = rstatus
        /\ tstatus' = [tstatus EXCEPT ![r] = "IN_PROGRESS"]
    BY <1>4 DEF TripCommit, RideFree, At, Finish, Goto, Alone, tripFrame, redis, RideLabels,
       Labels, AvailLabels, LocLabels
  <2>2. /\ Booked(r) /\ rdriver[r] # None
        /\ rstatus[r] = "matching" => lv[p].rst = "matching"
    BY <2>1 DEF RideInv, SlotSees, Before, RideRead, TripRead, Moving, RideLabels, Labels,
       AvailLabels, LocLabels
  <2>3. /\ \A s \in Rides \ {r} : rstatus'[s] = rstatus[s] /\ tstatus'[s] = tstatus[s]
        /\ rstatus'[r] \notin {NoRow, "matching"} /\ tstatus'[r] \notin {NoRow, "MATCHING"}
        /\ rstatus'[r] # rstatus[r] => rideLock[r] = None
    BY <2>1, <2>2 DEF Booked, NoRow
  <2>4. Forward(p)
    BY <2>1, <2>2, <2>3 DEF Forward, Booked
  <2>5. RowsOK'
    BY <2>1, <2>2, <2>3 DEF RideInv, RowsOK, MatchingAgreement, DriverBehindTrip, Booked
  <2>6. SlotSees(p)' /\ pc'[p] \notin Before
    BY <2>1 DEF SlotSees, Before, RideRead, TripRead, Moving, MatchLocked, RideLabels
  <2> QED BY <2>1, <2>4, <2>5, <2>6, WritingStep
<1>5. ASSUME PauseCommit(p) PROVE RideInv'
  <2> DEFINE r == lv[p].ride
  <2>1. /\ Alone(p) /\ UNCHANGED <<rstatus, rdriver, index, inbox, queue>>
        /\ pc[p] = "pause_commit" /\ pc'[p] = "idle" /\ r \in Rides
        /\ tstatus' = [tstatus EXCEPT ![r] = "PAUSED"]
    BY <1>5 DEF PauseCommit, At, Finish, Goto, Alone, tripFrame, redis, RideLabels,
       Labels, AvailLabels, LocLabels
  <2>2. Booked(r) /\ rdriver[r] # None
    BY <2>1 DEF RideInv, SlotSees, Before, TripRead, Moving, RideLabels, Labels,
       AvailLabels, LocLabels
  <2>3. Forward(p)
    BY <2>1, <2>2 DEF Forward, Booked
  <2>4. RowsOK'
    BY <2>1, <2>2 DEF RideInv, RowsOK, MatchingAgreement, DriverBehindTrip, Booked, NoRow
  <2>5. SlotSees(p)' /\ pc'[p] \notin Before
    BY <2>1 DEF SlotSees, Before, RideRead, TripRead, Moving, MatchLocked, RideLabels
  <2> QED BY <2>1, <2>3, <2>4, <2>5, WritingStep
<1>6. ASSUME EndCommit(p) PROVE RideInv'
  <2> DEFINE r == lv[p].ride
  <2>1. /\ Alone(p) /\ UNCHANGED <<rdriver, index, inbox, queue>>
        /\ pc[p] = "end_commit" /\ pc'[p] = "idle" /\ r \in Rides
        /\ \/ rideLock[r] = None /\ rstatus' = [rstatus EXCEPT ![r] = "completed"]
           \/ lv[p].rst = "completed" /\ rstatus' = rstatus
        /\ tstatus' = [tstatus EXCEPT ![r] = "COMPLETED"]
    BY <1>6 DEF EndCommit, RideFree, At, Finish, Goto, Alone, tripFrame, redis, RideLabels,
       Labels, AvailLabels, LocLabels
  <2>2. /\ Booked(r) /\ rdriver[r] # None
        /\ rstatus[r] = "matching" => lv[p].rst = "matching"
    BY <2>1 DEF RideInv, SlotSees, Before, RideRead, TripRead, Moving, RideLabels, Labels,
       AvailLabels, LocLabels
  <2>3. /\ \A s \in Rides \ {r} : rstatus'[s] = rstatus[s] /\ tstatus'[s] = tstatus[s]
        /\ rstatus'[r] \notin {NoRow, "matching"} /\ tstatus'[r] \notin {NoRow, "MATCHING"}
        /\ rstatus'[r] # rstatus[r] => rideLock[r] = None
    BY <2>1, <2>2 DEF Booked, NoRow
  <2>4. Forward(p)
    BY <2>1, <2>2, <2>3 DEF Forward, Booked
  <2>5. RowsOK'
    BY <2>1, <2>2, <2>3 DEF RideInv, RowsOK, MatchingAgreement, DriverBehindTrip, Booked
  <2>6. SlotSees(p)' /\ pc'[p] \notin Before
    BY <2>1 DEF SlotSees, Before, RideRead, TripRead, Moving, MatchLocked, RideLabels
  <2> QED BY <2>1, <2>4, <2>5, <2>6, WritingStep
<1>7. ASSUME NEW op \in TripOps, NEW r \in Rides, TripBegin(p, op, r) PROVE RideInv'
  <2>1. /\ pc[p] = "idle" /\ pc'[p] = "trip_ride" /\ Alone(p) /\ tstatus[r] # NoRow
        /\ lv'[p].ride = r /\ lv'[p].tst = tstatus[r]
        /\ UNCHANGED <<rstatus, tstatus, rdriver, index, inbox, queue>>
    BY <1>7, NoLocalsType DEF TripBegin, MayBegin, At, Begin, Goto, tripFrame, redis, Alone,
       Locals
  <2>2. Booked(r) /\ (tstatus[r] \in MovingTrip => rdriver[r] # None)
    BY <2>1 DEF RideInv, RowsOK, DriverBehindTrip, Booked
  <2>3. Quiet(p)
    BY <2>1 DEF Quiet, RefsBy, Before
  <2>4. SlotSees(p)'
    BY <2>1, <2>2 DEF SlotSees, Booked, Before, RideRead, Moving, MatchLocked
  <2> QED BY <2>3, <2>4, QuietStep
<1>8. ASSUME EndLoadDriver(p) PROVE RideInv'
  <2>1. /\ pc[p] = "end_driver" /\ pc'[p] \in {"end_lock", "end_commit"} /\ Alone(p)
        /\ lv'[p].ride = lv[p].ride /\ lv'[p].rst = lv[p].rst /\ lv'[p].tst = lv[p].tst
        /\ UNCHANGED <<rstatus, tstatus, rdriver, index, inbox, queue>>
    BY <1>8 DEF EndLoadDriver, At, Begin, Goto, tripFrame, redis, Alone, Locals
  <2>2. Quiet(p)
    BY <2>1 DEF Quiet, RefsBy, Before
  <2>3. SlotSees(p)'
    BY <2>1, GoesOn DEF Before, RideRead, TripRead, Moving, MatchLocked, RideLabels, Labels,
       AvailLabels, LocLabels
  <2> QED BY <2>2, <2>3, QuietStep
<1> QED BY <1>1, <1>2, <1>3, <1>4, <1>5, <1>6, <1>7, <1>8 DEF TripStep, TripCall

------------------------------------------------------------------------------
(* match_ride keeps RideInv. *)
LEMMA MatchWorkerRides ==
  ASSUME RowTypes, RowTypes', LockInv, RideInv, NEW p \in Workers,
         MatchStep(p) \/ MatchCall(p)
  PROVE  RideInv'
<1> p \in Procs BY DEF Procs
<1> USE DEF SlotOK, RowTypes
<1>1. ASSUME MatchNotWanted(p) \/ MatchNoCandidates(p) \/ MatchNoneOnline(p) \/
            MatchAssignBusy(p) \/ MatchRelease(p)
      PROVE  RideInv'
  <2>1. Quiet(p) /\ pc'[p] \notin RideLabels
    BY <1>1 DEF Quiet, Alone, RefsBy, Before, MatchNotWanted, At, Finish, RideFree,
       matchFrame, Goto, book, MatchNoCandidates, MatchReturn, MatchNoneOnline,
       MatchAssignBusy, MatchRelease, RideLabels, Labels, AvailLabels, LocLabels
  <2> QED BY <2>1, QuietStep
<1>2. ASSUME NEW r \in Rides, MatchTake(p, r) PROVE RideInv'
  <2>1. Quiet(p)
    BY <1>2, NoLocalsType DEF Quiet, Alone, RefsBy, MatchTake, Begin, MayBegin,
       matchFrame, Goto, At, book, Before, Locals
  <2>2. SlotSees(p)'
    BY <1>2, NoLocalsType DEF MatchTake, Begin, MayBegin, matchFrame, Goto, At,
       RideInv, RefsOK, SlotSees, Booked, Locals, Before, RideRead, TripRead,
       Moving, MatchLocked, RideLabels, Labels, AvailLabels, LocLabels
  <2> QED BY <2>1, <2>2, QuietStep
<1>3. ASSUME MatchLockRide(p) PROVE RideInv'
  <2>1. Quiet(p)
    BY <1>3 DEF Quiet, Alone, RefsBy, MatchLockRide, At, Goto, LockRide, RideFree,
       matchFrame, book, Before
  <2>2. SlotSees(p)'
    BY <1>3 DEF MatchLockRide, At, Goto, LockRide, RideFree, matchFrame, RideInv,
       RowsOK, SlotSees, Booked, Before, RideRead, TripRead, Moving, MatchLocked,
       RideLabels, Labels, AvailLabels, LocLabels
  <2> QED BY <2>1, <2>2, QuietStep
<1>4. ASSUME NEW near \in SUBSET Drivers, MatchGeoSearch(p, near) PROVE RideInv'
  <2>1. Quiet(p)
    BY <1>4 DEF Quiet, Alone, RefsBy, MatchGeoSearch, At, Begin, matchFrame, Goto,
       book, Before, Locals
  <2>2. /\ pc[p] = "match_geo" /\ pc'[p] = "match_rank"
        /\ lv'[p].ride = lv[p].ride /\ lv'[p].rst = lv[p].rst /\ lv'[p].tst = lv[p].tst
        /\ UNCHANGED <<rstatus, tstatus, rdriver>>
    BY <1>4 DEF MatchGeoSearch, At, Begin, matchFrame, Goto, book, Locals
  <2>3. SlotSees(p)'
    BY <2>2, GoesOn DEF Before, RideRead, TripRead, Moving, MatchLocked, RideLabels,
       Labels, AvailLabels, LocLabels
  <2> QED BY <2>1, <2>3, QuietStep
<1>5. ASSUME NEW d \in Drivers, MatchChoose(p, d) PROVE RideInv'
  <2>1. Quiet(p)
    BY <1>5 DEF Quiet, Alone, RefsBy, MatchChoose, At, Begin, matchFrame, Goto,
       book, Before, Locals
  <2>2. /\ pc[p] = "match_rank" /\ pc'[p] = "match_setnx"
        /\ lv'[p].ride = lv[p].ride /\ lv'[p].rst = lv[p].rst /\ lv'[p].tst = lv[p].tst
        /\ UNCHANGED <<rstatus, tstatus, rdriver>>
    BY <1>5 DEF MatchChoose, At, Begin, matchFrame, Goto, book, Locals
  <2>3. SlotSees(p)'
    BY <2>2, GoesOn DEF Before, RideRead, TripRead, Moving, MatchLocked, RideLabels,
       Labels, AvailLabels, LocLabels
  <2> QED BY <2>1, <2>3, QuietStep
<1>6. ASSUME MatchAssignLock(p) PROVE RideInv'
  <2>1. Quiet(p)
    BY <1>6 DEF Quiet, Alone, RefsBy, MatchAssignLock, At, Goto, matchFrame, book,
       Before
  <2>2. /\ pc[p] = "match_setnx" /\ pc'[p] = "match_store"
        /\ lv'[p].ride = lv[p].ride /\ lv'[p].rst = lv[p].rst /\ lv'[p].tst = lv[p].tst
        /\ UNCHANGED <<rstatus, tstatus, rdriver>>
    BY <1>6 DEF MatchAssignLock, At, Goto, matchFrame, book, Locals
  <2>3. SlotSees(p)'
    BY <2>2, GoesOn DEF Before, RideRead, TripRead, Moving, MatchLocked, RideLabels,
       Labels, AvailLabels, LocLabels
  <2> QED BY <2>1, <2>3, QuietStep
<1>7. ASSUME NEW t \in Tokens, MatchStore(p, t) PROVE RideInv'
  <2>1. Quiet(p)
    BY <1>7 DEF Quiet, Alone, RefsBy, MatchStore, At, Goto, StoreOffer, matchFrame,
       book, Before, RideLabels, Labels, AvailLabels, LocLabels
  <2>2. /\ pc[p] = "match_store" /\ pc'[p] = "match_release"
        /\ lv'[p].ride = lv[p].ride /\ lv'[p].rst = lv[p].rst /\ lv'[p].tst = lv[p].tst
        /\ UNCHANGED <<rstatus, tstatus, rdriver>>
    BY <1>7 DEF MatchStore, At, Goto, StoreOffer, matchFrame, book, Locals
  <2>3. SlotSees(p)'
    BY <2>2, GoesOn DEF Before, RideRead, TripRead, Moving, MatchLocked, RideLabels,
       Labels, AvailLabels, LocLabels
  <2> QED BY <2>1, <2>3, QuietStep
<1> QED BY <1>1, <1>2, <1>3, <1>4, <1>5, <1>6, <1>7 DEF MatchStep, MatchCall

------------------------------------------------------------------------------
(* The driver's calls keep RideInv. *)
LEMMA DriverServiceRides ==
  ASSUME RowTypes, RowTypes', LockInv, RideInv, NEW p \in Handlers,
         DriverStep(p) \/ DriverCall(p)
  PROVE  RideInv'
<1> p \in Procs BY DEF Procs
<1> USE DEF SlotOK, RowTypes
<1>1. ASSUME AcceptInvalidOffer(p) \/ AcceptRefused(p) \/ AcceptClear(p) \/
            AvailabilityInsert(p) \/ AvailabilityGeoRem(p) \/ AvailabilityCommit(p)
            \/ LocationInsert(p) \/ LocationGeoAdd(p) \/ LocationThrottle(p) \/
            LocationCommit(p)
      PROVE  RideInv'
  <2>1. Quiet(p) /\ pc'[p] \notin RideLabels
    BY <1>1 DEF Quiet, Alone, RefsBy, Before, AcceptInvalidOffer, At, Finish, locks,
       offerFrame, Goto, book, AcceptRefused, ReleaseLocks, AcceptClear, ClearOffer,
       NoOffer, AvailabilityInsert, AfterEnsure, InsertDriver, Begin, LockDriver,
       driverFrame, AvailabilityGeoRem, AvailabilityCommit, LocationInsert,
       LocationGeoAdd, LocationThrottle, LocationCommit, RideLabels, Labels,
       AvailLabels, LocLabels
  <2> QED BY <2>1, QuietStep
<1>2. ASSUME PendingReadOffer(p) \/ RejectEnqueue(p)
      PROVE  RideInv'
  <2>1. Quiet(p) /\ pc'[p] \notin RideLabels
    BY <1>2 DEF Quiet, Alone, RefsBy, Before, PendingReadOffer, At, Finish,
       HasOffer, NoAnswer, locks, offerFrame, Goto, NoOffer, book, RejectEnqueue,
       Enqueue, RideLabels, Labels, AvailLabels, LocLabels
  <2> QED BY <2>1, QuietStep
<1>3. ASSUME NEW d \in Drivers, PendingBegin(p, d) PROVE RideInv'
  <2>1. Quiet(p)
    BY <1>3, NoLocalsType DEF Quiet, Alone, RefsBy, PendingBegin, Begin, MayBegin,
       locks, offerFrame, Goto, At, book, Before, Locals
  <2>2. SlotSees(p)'
    BY <1>3, NoLocalsType DEF PendingBegin, Begin, MayBegin, offerFrame, Goto, At,
       RideInv, RefsOK, SlotSees, Booked, Locals, Before, RideRead, TripRead,
       Moving, MatchLocked, RideLabels, Labels, AvailLabels, LocLabels
  <2> QED BY <2>1, <2>2, QuietStep
<1>4. ASSUME NEW d \in Drivers, AcceptBegin(p, d) PROVE RideInv'
  <2>1. Quiet(p)
    BY <1>4, NoLocalsType DEF Quiet, Alone, RefsBy, AcceptBegin, Begin, MayBegin,
       locks, offerFrame, Goto, At, book, Before, Locals
  <2>2. SlotSees(p)'
    BY <1>4, NoLocalsType DEF AcceptBegin, Begin, MayBegin, offerFrame, Goto, At,
       RideInv, RefsOK, SlotSees, Booked, Locals, Before, RideRead, TripRead,
       Moving, MatchLocked, RideLabels, Labels, AvailLabels, LocLabels
  <2> QED BY <2>1, <2>2, QuietStep
<1>5. ASSUME AcceptReadOffer(p) PROVE RideInv'
  <2>1. Quiet(p)
    BY <1>5 DEF Quiet, Alone, RefsBy, AcceptReadOffer, At, Begin, locks, offerFrame,
       Goto, book, Before, Locals
  <2>2. /\ pc[p] = "accept_offer" /\ pc'[p] = "accept_ride"
        /\ lv'[p].ride = lv[p].ride /\ lv'[p].rst = lv[p].rst /\ lv'[p].tst = lv[p].tst
        /\ UNCHANGED <<rstatus, tstatus, rdriver>>
    BY <1>5 DEF AcceptReadOffer, At, Begin, locks, offerFrame, Goto, book, Locals
  <2>3. SlotSees(p)'
    BY <2>2, GoesOn DEF Before, RideRead, TripRead, Moving, MatchLocked, RideLabels,
       Labels, AvailLabels, LocLabels
  <2> QED BY <2>1, <2>3, QuietStep
<1>6. ASSUME AcceptLockRide(p) PROVE RideInv'
  <2>1. Quiet(p)
    BY <1>6 DEF Quiet, Alone, RefsBy, AcceptLockRide, At, Begin, LockRide, RideFree,
       offerFrame, Goto, book, Before, Locals
  <2>2. /\ pc[p] = "accept_ride" /\ pc'[p] = "accept_driver"
        /\ lv'[p].ride = lv[p].ride /\ lv'[p].rst = lv[p].rst /\ lv'[p].tst = lv[p].tst
        /\ UNCHANGED <<rstatus, tstatus, rdriver>>
    BY <1>6 DEF AcceptLockRide, At, Begin, LockRide, RideFree, offerFrame, Goto,
       book, Locals
  <2>3. SlotSees(p)'
    BY <2>2, GoesOn DEF Before, RideRead, TripRead, Moving, MatchLocked, RideLabels,
       Labels, AvailLabels, LocLabels
  <2> QED BY <2>1, <2>3, QuietStep
<1>7. ASSUME AcceptLockDriver(p) PROVE RideInv'
  <2>1. Quiet(p)
    BY <1>7 DEF Quiet, Alone, RefsBy, AcceptLockDriver, At, Begin, LockDriver,
       offerFrame, Goto, book, Before, Locals
  <2>2. /\ pc[p] = "accept_driver" /\ pc'[p] = "accept_commit"
        /\ lv'[p].ride = lv[p].ride /\ lv'[p].rst = lv[p].rst /\ lv'[p].tst = lv[p].tst
        /\ UNCHANGED <<rstatus, tstatus, rdriver>>
    BY <1>7 DEF AcceptLockDriver, At, Begin, LockDriver, offerFrame, Goto, book,
       Locals
  <2>3. SlotSees(p)'
    BY <2>2, GoesOn DEF Before, RideRead, TripRead, Moving, MatchLocked, RideLabels,
       Labels, AvailLabels, LocLabels
  <2> QED BY <2>1, <2>3, QuietStep
<1>8. ASSUME NEW d \in Drivers, RejectBegin(p, d) PROVE RideInv'
  <2>1. Quiet(p)
    BY <1>8, NoLocalsType DEF Quiet, Alone, RefsBy, RejectBegin, Begin, MayBegin,
       locks, offerFrame, Goto, At, book, Before, Locals
  <2>2. SlotSees(p)'
    BY <1>8, NoLocalsType DEF RejectBegin, Begin, MayBegin, offerFrame, Goto, At,
       RideInv, RefsOK, SlotSees, Booked, Locals, Before, RideRead, TripRead,
       Moving, MatchLocked, RideLabels, Labels, AvailLabels, LocLabels
  <2> QED BY <2>1, <2>2, QuietStep
<1>9. ASSUME RejectClear(p) PROVE RideInv'
  <2>1. Quiet(p)
    BY <1>9 DEF Quiet, Alone, RefsBy, RejectClear, At, ClearOffer, Goto, locks,
       offerFrame, NoOffer, book, Before
  <2>2. /\ pc[p] = "reject_clear" /\ pc'[p] = "reject_enqueue"
        /\ lv'[p].ride = lv[p].ride /\ lv'[p].rst = lv[p].rst /\ lv'[p].tst = lv[p].tst
        /\ UNCHANGED <<rstatus, tstatus, rdriver>>
    BY <1>9 DEF RejectClear, At, ClearOffer, Goto, locks, offerFrame, NoOffer, book,
       Locals
  <2>3. SlotSees(p)'
    BY <2>2, GoesOn DEF Before, RideRead, TripRead, Moving, MatchLocked, RideLabels,
       Labels, AvailLabels, LocLabels
  <2> QED BY <2>1, <2>3, QuietStep
<1>10. ASSUME NEW d \in Drivers, NEW s \in DriverStatus, AvailabilityBegin(p, d, s) PROVE RideInv'
  <2>1. Quiet(p)
    BY <1>10, NoLocalsType DEF Quiet, Alone, RefsBy, AvailabilityBegin, AfterEnsure,
       Begin, MayBegin, driverFrame, Goto, At, book, Before, Locals
  <2>2. pc'[p] \notin RideLabels
    BY <1>10, NoLocalsType DEF AvailabilityBegin, AfterEnsure, Begin, MayBegin,
       driverFrame, Goto, At, book, RideLabels, Labels, AvailLabels, LocLabels
  <2> QED BY <2>1, <2>2, QuietStep
<1>11. ASSUME NEW d \in Drivers, LocationBegin(p, d) PROVE RideInv'
  <2>1. Quiet(p)
    BY <1>11, NoLocalsType DEF Quiet, Alone, RefsBy, LocationBegin, AfterLoad,
       Begin, MayBegin, driverFrame, Goto, At, book, Before, Locals
  <2>2. pc'[p] \notin RideLabels
    BY <1>11, NoLocalsType DEF LocationBegin, AfterLoad, Begin, MayBegin,
       driverFrame, Goto, At, book, RideLabels, Labels, AvailLabels, LocLabels
  <2> QED BY <2>1, <2>2, QuietStep
<1>12. ASSUME AcceptCommit(p) PROVE RideInv'
  <2> DEFINE r == lv[p].ride
             d == lv[p].driver
  <2>1. /\ UNCHANGED <<index, inbox, queue>>
        /\ pc[p] = "accept_commit" /\ pc' = [pc EXCEPT ![p] = "accept_clear"]
        /\ lv' = [lv EXCEPT ![p] = [NoLocals EXCEPT !.ride = r, !.driver = d]]
        /\ rdriver' = [rdriver EXCEPT ![r] = d]
        /\ rstatus' = [rstatus EXCEPT ![r] = "driver_assigned"]
        /\ tstatus' = [tstatus EXCEPT ![r] = "DRIVER_ASSIGNED"]
        /\ r \in Rides /\ d \in Drivers
    BY <1>12, LabelFacts DEF AcceptCommit, At, Begin, Goto, offerFrame
  <2>2. Alone(p) /\ pc'[p] = "accept_clear" /\ lv'[p].ride = r
    BY <2>1, NoLocalsType DEF Alone, Locals
  <2>3. Booked(r)
    BY <2>1 DEF RideInv, SlotSees, Before, RideLabels, Labels, AvailLabels, LocLabels
  <2>4. rideLock[r] = p /\ d # None
    BY <2>1 DEF LockInv, LocksHeld, HoldsRide
  <2>5. Forward(p)
    BY <2>1, <2>3, <2>4 DEF Forward, Booked, NoRow
  <2>6. RowsOK'
    BY <2>1, <2>3, <2>4 DEF RideInv, RowsOK, MatchingAgreement, DriverBehindTrip, Booked, NoRow
  <2>7. SlotSees(p)' /\ pc'[p] \notin Before
    BY <2>1, <2>2 DEF SlotSees, Booked, NoRow, Before, RideRead, TripRead, Moving,
       MatchLocked
  <2> QED BY <2>1, <2>2, <2>5, <2>6, <2>7, WritingStep
<1>13. ASSUME RejectReadOffer(p) PROVE RideInv'
  <2>1. /\ pc[p] = "reject_offer" /\ Alone(p)
        /\ UNCHANGED <<rstatus, tstatus, rdriver, index, inbox, queue>>
        /\ pc'[p] = "idle" \/ (pc'[p] = "reject_clear" /\ lv' = lv)
    BY <1>13 DEF RejectReadOffer, At, Finish, Goto, Alone, offerFrame
  <2>2. Quiet(p)
    BY <2>1 DEF Quiet, RefsBy, Before
  <2>3. CASE pc'[p] = "idle"
    BY <2>2, <2>3, QuietStep DEF RideLabels
  <2>4. CASE pc'[p] = "reject_clear"
    <3>1. SlotSees(p)'
      BY <2>1, <2>4, GoesOn DEF Before, RideRead, TripRead, Moving, MatchLocked, RideLabels,
         Labels, AvailLabels, LocLabels
    <3> QED BY <2>2, <3>1, QuietStep
  <2> QED BY <2>1, <2>3, <2>4
<1> QED BY <1>1, <1>2, <1>3, <1>4, <1>5, <1>6, <1>7, <1>8, <1>9, <1>10, <1>11,
     <1>12, <1>13 DEF DriverStep, DriverCall

------------------------------------------------------------------------------
(* The stores' own steps, and the early end of a call, keep RideInv. *)
LEMMA EnvironmentRides ==
  ASSUME RowTypes, RowTypes', LockInv, RideInv, Environment
  PROVE  RideInv'
<1> USE DEF RowTypes, SlotOK
<1>1. ASSUME NEW p \in Procs, Abandon(p) PROVE RideInv'
  <2>1. Quiet(p)
    BY <1>1 DEF Abandon, Finish, Goto, redis, Quiet, Alone, RefsBy, Before
  <2>2. pc'[p] \notin RideLabels
    BY <1>1 DEF Abandon, Finish, Goto, RideLabels
  <2> QED BY <2>1, <2>2, QuietStep
<1>2. ASSUME UNCHANGED <<pc, lv, rstatus, tstatus, rdriver, inbox, queue>>,
             \A d \in Drivers : index'[d] \in {index[d], None}
      PROVE  RideInv'
  <2>1. RowsOK' /\ OwnRide' /\ \A p \in Procs : SlotSees(p)'
    BY <1>2 DEF RideInv, RowsOK, OwnRide, SlotSees, MatchingAgreement, DriverBehindTrip,
       Booked
  <2>2. RefsOK'
    BY <1>2 DEF RideInv, RefsOK, Booked
  <2> QED BY <2>1, <2>2 DEF RideInv
<1>3. ASSUME NEW r \in Rides, OfferExpires(r) PROVE RideInv'
  <2>1. /\ UNCHANGED <<pc, lv, rstatus, tstatus, rdriver, inbox, queue>>
        /\ \A d \in Drivers : index'[d] \in {index[d], None}
    BY <1>3 DEF OfferExpires
  <2> QED BY <1>2, <2>1
<1>4. ASSUME NEW d \in Drivers, IndexExpires(d) PROVE RideInv'
  <2>1. /\ UNCHANGED <<pc, lv, rstatus, tstatus, rdriver, inbox, queue>>
        /\ \A c \in Drivers : index'[c] \in {index[c], None}
    BY <1>4 DEF IndexExpires
  <2> QED BY <1>2, <2>1
<1>5. ASSUME NEW r \in Rides, AssignLockExpires(r) PROVE RideInv'
  BY <1>2, <1>5 DEF AssignLockExpires
<1>6. ASSUME NEW d \in Drivers, ThrottleExpires(d) PROVE RideInv'
  BY <1>2, <1>6 DEF ThrottleExpires
<1> QED BY <1>1, <1>3, <1>4, <1>5, <1>6 DEF Environment, Fail, DeadlockVictim

(* Every step of the system keeps RideInv. *)
LEMMA NextRides ==
  TypeInv /\ TypeInv' /\ LockInv /\ RideInv /\ [Next]_vars => RideInv'
<1> SUFFICES ASSUME TypeInv, TypeInv', LockInv, RideInv, [Next]_vars PROVE RideInv'
  OBVIOUS
<1>1. RowTypes /\ RowTypes'
  BY SlotFacts, ConstantsAssumption DEF TypeInv, TypeOK, ArgsOK, OrNone, RowTypes, SlotOK
<1>2. CASE Environment
  BY <1>1, <1>2, EnvironmentRides
<1>3. ASSUME NEW p \in Handlers, Call(p) PROVE RideInv'
  BY <1>1, <1>3, RideServiceRides, DriverServiceRides, TripServiceRides DEF Call
<1>4. ASSUME NEW w \in Workers, MatchCall(w) PROVE RideInv'
  BY <1>1, <1>4, MatchWorkerRides
<1>5. ASSUME NEW p \in Procs, Step(p) PROVE RideInv'
  BY <1>1, <1>5, RideServiceRides, DriverServiceRides, TripServiceRides,
     MatchWorkerRides DEF Step, Procs
<1>6. CASE UNCHANGED vars
  BY <1>6 DEF vars, redis, RideInv, RowsOK, RefsOK, SlotSees, OwnRide, Booked,
     MatchingAgreement, DriverBehindTrip
<1> QED BY <1>2, <1>3, <1>4, <1>5, <1>6 DEF Next

(* Before the first call there is no ride. *)
LEMMA InitRides == Init => RideInv
<1> SUFFICES ASSUME Init PROVE RideInv
  OBVIOUS
<1>1. RowsOK
  BY DEF Init, RowsOK, MatchingAgreement, DriverBehindTrip, NoRow, MovingTrip
<1>2. RefsOK
  BY DEF Init, RefsOK, NoAnswer
<1>3. \A p \in Procs : SlotSees(p)
  BY DEF Init, SlotSees, Before, RideRead, TripRead, Moving, MatchLocked, RideLabels
<1>4. OwnRide
  BY DEF Init, OwnRide, Before
<1> QED BY <1>1, <1>2, <1>3, <1>4 DEF RideInv

(* What the slots know of the rows is right at every moment. *)
THEOREM RidesAndReads == Spec => []RideInv
  BY InitRides, NextRides, TypesAndArguments, LocksAndReads, PTL DEF Spec

(* rides.status and trips.status agree on matching, and a ride in matching *)
(* has no driver, whatever order accept, cancel, start, pause, resume and  *)
(* end commit in.                                                          *)
THEOREM MatchingCorrect == Spec => []MatchingAgreement
<1>1. RideInv => MatchingAgreement
  BY DEF RideInv, RowsOK
<1> QED BY <1>1, RidesAndReads, PTL

(* end_trip finds a driver on the ride of every trip it may end. *)
THEOREM DriverBehindTripCorrect == Spec => []DriverBehindTrip
<1>1. RideInv => DriverBehindTrip
  BY DEF RideInv, RowsOK
<1> QED BY <1>1, RidesAndReads, PTL

------------------------------------------------------------------------------
(* Nobody but match_ride stores an offer. *)
LEMMA OffersComeFromMatch ==
  ASSUME RowTypes, [Next]_vars
  PROVE  \/ \A r \in Rides : offer'[r] \in {offer[r], NoOffer}
         \/ \E w \in Workers, t \in Tokens : MatchStore(w, t)
<1> DEFINE Kept == \A r \in Rides : offer'[r] \in {offer[r], NoOffer}
<1> USE DEF RowTypes
<1>1. ASSUME NEW p \in Procs, RideStep(p) \/ RideCall(p) PROVE Kept
  BY <1>1 DEF RideStep, RideCall, CreateBegin, CreateReplay, CreateNoReplay,
     CreateConflict, CreateNoConflict, CreateEnsureRider, CreateCommit,
     CreateIntegrityError, CreateEnqueue, CancelBegin, CancelLoadTrip, CancelReadOffer,
     CancelClear, CancelRefused, CancelCommit, ClearOffer
<1>2. ASSUME NEW p \in Procs, DriverStep(p) \/ DriverCall(p) PROVE Kept
  BY <1>2 DEF DriverStep, DriverCall, PendingBegin, PendingReadOffer,
     AcceptBegin, AcceptReadOffer, AcceptInvalidOffer, AcceptLockRide, AcceptLockDriver,
     AcceptRefused, AcceptCommit, AcceptClear, RejectBegin, RejectReadOffer, RejectClear,
     RejectEnqueue, AvailabilityBegin, AvailabilityInsert, InsertDriver,
     AvailabilityGeoRem, AvailabilityCommit, LocationBegin, LocationInsert,
     LocationGeoAdd, LocationThrottle, LocationCommit, driverFrame, ClearOffer
<1>3. ASSUME NEW p \in Procs, TripStep(p) \/ TripCall(p) PROVE Kept
  BY <1>3 DEF TripStep, TripCall, TripBegin, TripLoadRide, TripRefused, TripCommit,
     PauseCommit, EndLoadDriver, EndLockDriver, EndCommit, tripFrame, redis
<1>4. ASSUME NEW w \in Workers, MatchStep(w) \/ MatchCall(w)
      PROVE  Kept \/ \E t \in Tokens : MatchStore(w, t)
  BY <1>4 DEF MatchStep, MatchCall, MatchTake, MatchLockRide, MatchNotWanted,
     MatchGeoSearch, MatchNoCandidates, MatchChoose, MatchNoneOnline, MatchAssignLock,
     MatchAssignBusy, MatchRelease
<1>5. CASE Environment
  BY <1>5 DEF Environment, OfferExpires, AssignLockExpires, IndexExpires,
     ThrottleExpires, Fail, DeadlockVictim, Abandon, redis
<1>6. CASE UNCHANGED vars
  BY <1>6 DEF vars, redis
<1> QED BY <1>1, <1>2, <1>3, <1>4, <1>5, <1>6 DEF Next, Call, Step, Procs

(* match_ride stores an offer for a ride that is still in matching, though *)
(* it looked three calls earlier: the row lock of the ride keeps it there. *)
THEOREM OffersCorrect == Spec => OfferOnlyInMatching
<1>1. ASSUME TypeInv, LockInv, RideInv, [Next]_vars
      PROVE  \A r \in Rides : offer'[r] \notin {offer[r], NoOffer}
                                => rstatus[r] = "matching" /\ rdriver[r] = None
  <2>1. RowTypes
    BY <1>1, RowFacts
  <2>2. ASSUME NEW w \in Workers, NEW t \in Tokens, MatchStore(w, t),
               NEW r \in Rides, offer'[r] \notin {offer[r], NoOffer}
        PROVE  rstatus[r] = "matching" /\ rdriver[r] = None
    <3>1. pc[w] = "match_store" /\ r = lv[w].ride
      BY <2>1, <2>2 DEF MatchStore, At, StoreOffer, RowTypes
    <3>2. rstatus[r] = "matching"
      BY <1>1, <3>1 DEF RideInv, SlotSees, MatchLocked, Procs
    <3> QED BY <1>1, <3>2 DEF RideInv, RowsOK, MatchingAgreement
  <2> QED BY <1>1, <2>1, <2>2, OffersComeFromMatch
<1>2. ASSUME TypeInv, LockInv, RideInv, [Next]_vars
      PROVE  [\A r \in Rides : offer'[r] \notin {offer[r], NoOffer}
                => rstatus[r] = "matching" /\ rdriver[r] = None]_vars
  BY <1>1, <1>2
<1> QED
  BY <1>2, TypesAndArguments, LocksAndReads, RidesAndReads, PTL
     DEF Spec, OfferOnlyInMatching

------------------------------------------------------------------------------
(* The four commits that write drivers.status. *)
LEMMA DriverStatusWriters ==
  ASSUME [Next]_vars
  PROVE  \/ UNCHANGED dstatus
         \/ \E p \in Procs : \/ AcceptCommit(p) \/ AvailabilityCommit(p)
                             \/ LocationCommit(p) \/ EndCommit(p)
<1>1. ASSUME NEW p \in Procs, RideStep(p) \/ RideCall(p) PROVE UNCHANGED dstatus
  BY <1>1 DEF RideStep, RideCall, CreateBegin, CreateReplay, CreateNoReplay,
     CreateConflict, CreateNoConflict, CreateEnsureRider, CreateCommit,
     CreateIntegrityError, CreateEnqueue, CancelBegin, CancelLoadTrip, CancelReadOffer,
     CancelClear, CancelRefused, CancelCommit, rideFrame
<1>2. ASSUME NEW p \in Procs, DriverStep(p) \/ DriverCall(p)
      PROVE  \/ UNCHANGED dstatus
             \/ AcceptCommit(p) \/ AvailabilityCommit(p) \/ LocationCommit(p)
  BY <1>2 DEF DriverStep, DriverCall, PendingBegin, PendingReadOffer,
     AcceptBegin, AcceptReadOffer, AcceptInvalidOffer, AcceptLockRide, AcceptLockDriver,
     AcceptRefused, AcceptClear, RejectBegin, RejectReadOffer, RejectClear,
     RejectEnqueue, AvailabilityBegin, AvailabilityInsert, InsertDriver,
     AvailabilityGeoRem, LocationBegin, LocationInsert, LocationGeoAdd, LocationThrottle
<1>3. ASSUME NEW p \in Procs, TripStep(p) \/ TripCall(p)
      PROVE  UNCHANGED dstatus \/ EndCommit(p)
  BY <1>3 DEF TripStep, TripCall, TripBegin, TripLoadRide, TripRefused, TripCommit,
     PauseCommit, EndLoadDriver, EndLockDriver
<1>4. ASSUME NEW p \in Procs, MatchStep(p) \/ MatchCall(p) PROVE UNCHANGED dstatus
  BY <1>4 DEF MatchStep, MatchCall, MatchTake, MatchLockRide, MatchNotWanted,
     MatchGeoSearch, MatchNoCandidates, MatchChoose, MatchNoneOnline, MatchAssignLock,
     MatchAssignBusy, MatchStore, MatchRelease, matchFrame
<1>5. CASE Environment
  BY <1>5 DEF Environment, OfferExpires, AssignLockExpires, IndexExpires,
     ThrottleExpires, Fail, DeadlockVictim, Abandon
<1>6. CASE UNCHANGED vars
  BY <1>6 DEF vars
<1> QED BY <1>1, <1>2, <1>3, <1>4, <1>5, <1>6 DEF Next, Call, Step, Procs

(* update_location writes a status only as part of the row it inserts, and *)
(* that row was still missing at its commit.                               *)
THEOREM LocationCorrect == Spec => LocationKeepsStatus
<1> DEFINE Keeps == \A p \in Handlers :
                      pc[p] = "loc_commit" /\ pc'[p] = "idle" /\ dstatus' # dstatus
                        => lv[p].dst = "offline" /\ dstatus[lv[p].driver] = NoRow
<1>1. ASSUME TypeInv, LockInv, [Next]_vars PROVE Keeps
  <2> SUFFICES ASSUME NEW p \in Handlers, pc[p] = "loc_commit", pc'[p] = "idle",
                      dstatus' # dstatus
               PROVE  lv[p].dst = "offline" /\ dstatus[lv[p].driver] = NoRow
    OBVIOUS
  <2>1. PICK q \in Procs : \/ AcceptCommit(q) \/ AvailabilityCommit(q)
                           \/ LocationCommit(q) \/ EndCommit(q)
    BY <1>1, DriverStatusWriters
  <2>2. p \in Procs /\ pc \in [Procs -> Labels]
    BY <1>1 DEF Procs, TypeInv, TypeOK
  <2>3. q = p
    BY <2>1, <2>2 DEF AcceptCommit, AvailabilityCommit, LocationCommit, EndCommit, Begin,
       Finish, Goto
  <2>4. LocationCommit(p)
    BY <2>1, <2>3 DEF AcceptCommit, AvailabilityCommit, EndCommit, At
  <2>5. driverLock[lv[p].driver] = p
    BY <2>4 DEF LocationCommit
  <2> QED BY <1>1, <2>2, <2>5 DEF LockInv, ReadsHold
<1>2. ASSUME TypeInv, LockInv, [Next]_vars PROVE [Keeps]_vars
  BY <1>1, <1>2
<1> QED
  BY <1>2, TypesAndArguments, LocksAndReads, PTL DEF Spec, LocationKeepsStatus

------------------------------------------------------------------------------
(* The five commits that write rides and trips, and the booking. *)
Writes(p) == \/ CreateCommit(p) \/ CancelCommit(p) \/ AcceptCommit(p)
             \/ TripCommit(p) \/ PauseCommit(p) \/ EndCommit(p)

LEMMA RowWriters ==
  ASSUME [Next]_vars
  PROVE  UNCHANGED <<rowner, rstatus, tstatus, rdriver>> \/ \E p \in Procs : Writes(p)
<1> USE DEF Writes
<1>1. ASSUME NEW p \in Procs, RideStep(p) \/ RideCall(p)
      PROVE  UNCHANGED <<rowner, rstatus, tstatus, rdriver>> \/ Writes(p)
  BY <1>1 DEF RideStep, RideCall, CreateBegin, CreateReplay, CreateNoReplay, CreateConflict,
     CreateNoConflict, CreateEnsureRider, CreateIntegrityError, CreateEnqueue, CancelBegin,
     CancelLoadTrip, CancelReadOffer, CancelClear, CancelRefused, book
<1>2. ASSUME NEW p \in Procs, DriverStep(p) \/ DriverCall(p)
      PROVE  UNCHANGED <<rowner, rstatus, tstatus, rdriver>> \/ Writes(p)
  BY <1>2 DEF DriverStep, DriverCall, PendingBegin, AcceptBegin, RejectBegin,
     AvailabilityBegin, LocationBegin, PendingReadOffer, AcceptReadOffer,
     AcceptInvalidOffer, AcceptLockRide, AcceptLockDriver, AcceptRefused, AcceptClear,
     RejectReadOffer, RejectClear, RejectEnqueue, AvailabilityInsert, AvailabilityGeoRem,
     AvailabilityCommit, LocationInsert, LocationGeoAdd, LocationThrottle, LocationCommit,
     InsertDriver, driverFrame, offerFrame, book
<1>3. ASSUME NEW p \in Procs, TripStep(p) \/ TripCall(p)
      PROVE  UNCHANGED <<rowner, rstatus, tstatus, rdriver>> \/ Writes(p)
  BY <1>3 DEF TripStep, TripCall, TripBegin, TripLoadRide, TripRefused, EndLoadDriver,
     EndLockDriver, tripFrame, book
<1>4. ASSUME NEW p \in Procs, MatchStep(p) \/ MatchCall(p)
      PROVE  UNCHANGED <<rowner, rstatus, tstatus, rdriver>>
  BY <1>4 DEF MatchStep, MatchCall, MatchTake, MatchLockRide, MatchNotWanted, MatchGeoSearch,
     MatchNoCandidates, MatchChoose, MatchNoneOnline, MatchAssignLock, MatchAssignBusy,
     MatchStore, MatchRelease, MatchReturn, matchFrame, book
<1>5. CASE Environment
  BY <1>5 DEF Environment, OfferExpires, AssignLockExpires, IndexExpires, ThrottleExpires,
     Fail, DeadlockVictim, Abandon, book
<1>6. CASE UNCHANGED vars
  BY <1>6 DEF vars, book
<1>7. ASSUME NEW p \in Procs, Step(p) \/ Call(p) \/ MatchCall(p)
      PROVE  UNCHANGED <<rowner, rstatus, tstatus, rdriver>> \/ Writes(p)
  BY <1>1, <1>2, <1>3, <1>4, <1>7 DEF Call, Step
<1>8. Handlers \subseteq Procs /\ Workers \subseteq Procs
  BY DEF Procs
<1> HIDE DEF Writes
<1> QED BY <1>5, <1>6, <1>7, <1>8 DEF Next

(* A trip move is written under a check that passed on the status read.     *)
Checked(p) ==
  /\ pc[p] = "trip_commit" => MayTransition(lv[p].tst, "IN_PROGRESS")
  /\ pc[p] = "pause_commit" => MayTransition(lv[p].tst, "PAUSED")
  /\ pc[p] \in {"end_driver", "end_lock", "end_commit"} => MayTransition(lv[p].tst, "COMPLETED")

CheckedMoves == \A p \in Procs : Checked(p)

(* The steps that lead to a write of a trip move. *)
LEMMA MovesFollowCheck ==
  ASSUME SlotOK, [Next]_vars, NEW p \in Procs, pc'[p] \in Moving
  PROVE  \/ pc'[p] = pc[p] /\ lv'[p] = lv[p]
         \/ TripLoadRide(p) \/ EndLoadDriver(p) \/ EndLockDriver(p)
<1> USE DEF SlotOK
<1> DEFINE Same == pc'[p] = pc[p] /\ lv'[p] = lv[p]
<1>1. ASSUME NEW q \in Procs, RideStep(q) \/ RideCall(q) PROVE Same
  BY <1>1 DEF Moving, RideStep, RideCall, CreateBegin, CreateReplay, CreateNoReplay,
     CreateConflict, CreateNoConflict, CreateEnsureRider, CreateCommit,
     CreateIntegrityError, CreateEnqueue, CancelBegin, CancelLoadTrip, CancelReadOffer,
     CancelClear, CancelRefused, CancelCommit, Begin, Finish, Goto
<1>2. ASSUME NEW q \in Procs, TripStep(q) \/ TripCall(q)
      PROVE  Same \/ TripLoadRide(p) \/ EndLoadDriver(p) \/ EndLockDriver(p)
  <2>1. CASE TripLoadRide(q) \/ EndLoadDriver(q) \/ EndLockDriver(q)
    BY <2>1 DEF TripLoadRide, EndLoadDriver, EndLockDriver, Begin, Goto
  <2>2. CASE TripRefused(q) \/ TripCommit(q) \/ PauseCommit(q) \/ EndCommit(q) \/ TripCall(q)
    BY <2>2 DEF Moving, TripRefused, TripCommit, PauseCommit, EndCommit, TripCall, TripBegin,
       Begin, Finish, Goto
  <2> QED BY <1>2, <2>1, <2>2 DEF TripStep
<1>3. ASSUME NEW q \in Procs, MatchStep(q) \/ MatchCall(q) PROVE Same
  BY <1>3 DEF Moving, MatchStep, MatchCall, MatchTake, MatchLockRide, MatchNotWanted,
     MatchGeoSearch, MatchNoCandidates, MatchChoose, MatchNoneOnline, MatchAssignLock,
     MatchAssignBusy, MatchStore, MatchRelease, MatchReturn, Begin, Finish, Goto
<1>4. ASSUME NEW q \in Procs, DriverStep(q) \/ DriverCall(q) PROVE Same
  <2>1. CASE \/ AvailabilityInsert(q) \/ AvailabilityGeoRem(q) \/ AvailabilityCommit(q)
             \/ LocationInsert(q) \/ LocationGeoAdd(q) \/ LocationThrottle(q) \/ LocationCommit(q)
    BY <2>1 DEF Moving, AvailabilityInsert, AvailabilityGeoRem, AvailabilityCommit,
       LocationInsert, LocationGeoAdd, LocationThrottle, LocationCommit, InsertDriver,
       AfterEnsure, Begin, Finish, Goto
  <2>2. CASE \/ PendingReadOffer(q) \/ AcceptReadOffer(q) \/ AcceptInvalidOffer(q)
             \/ AcceptLockRide(q) \/ AcceptLockDriver(q) \/ AcceptRefused(q) \/ AcceptCommit(q)
             \/ AcceptClear(q) \/ RejectReadOffer(q) \/ RejectClear(q) \/ RejectEnqueue(q)
    BY <2>2 DEF Moving, PendingReadOffer, AcceptReadOffer, AcceptInvalidOffer, AcceptLockRide,
       AcceptLockDriver, AcceptRefused, AcceptCommit, AcceptClear, RejectReadOffer, RejectClear,
       RejectEnqueue, Begin, Finish, Goto
  <2>3. CASE DriverCall(q)
    <3>1. pc'[q] \in DriverLabels
      BY <2>3 DEF DriverCall, PendingBegin, AcceptBegin, RejectBegin, AvailabilityBegin,
         LocationBegin, AfterEnsure, AfterLoad, Begin, Goto, DriverLabels, AvailLabels, LocLabels
    <3>2. q # p
      BY <3>1 DEF Moving, DriverLabels, AvailLabels, LocLabels
    <3> QED BY <2>3, <3>2 DEF DriverCall, PendingBegin, AcceptBegin, RejectBegin,
               AvailabilityBegin, LocationBegin, Begin, Goto
  <2> QED BY <1>4, <2>1, <2>2, <2>3 DEF DriverStep
<1>5. CASE Environment
  BY <1>5 DEF Moving, Environment, OfferExpires, AssignLockExpires, IndexExpires,
     ThrottleExpires, Fail, DeadlockVictim, Abandon, Finish, Goto
<1>6. CASE UNCHANGED vars
  BY <1>6 DEF vars
<1> QED BY <1>1, <1>2, <1>3, <1>4, <1>5, <1>6 DEF Next, Call, Step, Procs

LEMMA CheckedNext == TypeInv /\ CheckedMoves /\ [Next]_vars => CheckedMoves'
<1> SUFFICES ASSUME TypeInv, CheckedMoves, [Next]_vars, NEW p \in Procs PROVE Checked(p)'
  BY DEF CheckedMoves
<1>1. SlotOK
  BY SlotFacts
<1>2. CASE pc'[p] \notin Moving
  BY <1>2 DEF Checked, Moving
<1>3. CASE pc'[p] = pc[p] /\ lv'[p] = lv[p]
  BY <1>3 DEF CheckedMoves, Checked
<1>4. CASE TripLoadRide(p)
  <2> DEFINE op == lv[p].want
  <2>1. op \in TripOps /\ MayTransition(lv[p].tst, TripTarget(op))
    BY <1>1, <1>4 DEF TripLoadRide, At, SlotOK
  <2>2. pc'[p] = AfterCheck(op) /\ lv'[p].tst = lv[p].tst
    BY <1>1, <1>4 DEF TripLoadRide, Begin, Goto, SlotOK, Locals
  <2> HIDE DEF op
  <2> QED BY <2>1, <2>2 DEF Checked, AfterCheck, TripTarget, TripOps
<1>5. CASE EndLoadDriver(p) \/ EndLockDriver(p)
  <2>1. pc[p] \in {"end_driver", "end_lock"} /\ pc'[p] \in {"end_lock", "end_commit"}
    BY <1>1, <1>5 DEF EndLoadDriver, EndLockDriver, At, Begin, Goto, SlotOK
  <2>2. lv'[p].tst = lv[p].tst
    BY <1>1, <1>5 DEF EndLoadDriver, EndLockDriver, Begin, SlotOK, Locals
  <2> QED BY <2>1, <2>2 DEF CheckedMoves, Checked
<1> QED BY <1>1, <1>2, <1>3, <1>4, <1>5, MovesFollowCheck

LEMMA ChecksKnown == Spec => []CheckedMoves
<1>1. Init => CheckedMoves
  BY DEF Init, CheckedMoves, Checked
<1> QED BY <1>1, CheckedNext, TypesAndArguments, PTL DEF Spec

(* No code writes the status REQUESTED: a trip is inserted in matching.      *)
NeverRequested == \A r \in Rides : tstatus[r] # "REQUESTED"

LEMMA RequestedNever == Spec => []NeverRequested
<1>1. Init => NeverRequested
  BY DEF Init, NeverRequested, NoRow
<1>2. TypeInv /\ NeverRequested /\ [Next]_vars => NeverRequested'
  <2> SUFFICES ASSUME TypeInv, NeverRequested, [Next]_vars PROVE NeverRequested'
    OBVIOUS
  <2>1. ASSUME NEW p \in Procs, Writes(p) PROVE NeverRequested'
    BY <2>1 DEF TypeInv, TypeOK, NeverRequested, Writes, CreateCommit, CancelCommit, AcceptCommit,
       TripCommit, PauseCommit, EndCommit
  <2> QED BY <2>1, RowWriters DEF NeverRequested
<1> QED BY <1>1, <1>2, TypesAndArguments, PTL DEF Spec

(* What a commit makes of a trip: an accept assigns or revives it, the      *)
(* others make the move that was checked.                                  *)
LEMMA TripWrite ==
  ASSUME TypeInv, LockInv, RideInv, CheckedMoves, NeverRequested, [Next]_vars,
         NEW r \in Rides, tstatus'[r] # tstatus[r]
  PROVE  \/ tstatus[r] = NoRow /\ tstatus'[r] = "MATCHING"
         \/ /\ tstatus[r] \in {"MATCHING", "CANCELLED"} /\ tstatus'[r] = "DRIVER_ASSIGNED"
            /\ rdriver[r] = None
         \/ /\ tstatus[r] # NoRow
            /\ \E p \in Procs :
                 /\ pc[p] # "idle" /\ pc'[p] = "idle" /\ lv[p].ride = r
                 /\ MayTransition(lv[p].tst, tstatus'[r])
                 /\ \/ tstatus'[r] \in {"IN_PROGRESS", "PAUSED", "CANCELLED"}
                    \/ tstatus'[r] = "COMPLETED" /\ EndCommit(p)
<1>1. RowTypes
  BY RowFacts
<1>2. PICK p \in Procs : Writes(p)
  BY RowWriters
<1>3. lv[p].ride \in Rides /\ SlotSees(p) /\ Checked(p)
  <2>1. pc[p] \in RideLabels
    BY <1>2 DEF Writes, CreateCommit, CancelCommit, AcceptCommit, TripCommit, PauseCommit,
       EndCommit, At, RideLabels, Labels, AvailLabels, LocLabels
  <2> QED BY <1>1, <2>1 DEF RideInv, RowTypes, SlotOK, CheckedMoves
<1>4. lv[p].ride = r
  BY <1>1, <1>2, <1>3 DEF RowTypes, Writes, CreateCommit, CancelCommit, AcceptCommit,
     TripCommit, PauseCommit, EndCommit
<1>5. CASE CreateCommit(p)
  BY <1>1, <1>3, <1>4, <1>5 DEF CreateCommit, At, SlotSees, Before, Booked, RideInv, RowsOK,
     RowTypes
<1>6. CASE AcceptCommit(p)
  <2>1. pc[p] = "accept_commit" /\ rdriver[r] = None /\ tstatus'[r] = "DRIVER_ASSIGNED"
    BY <1>1, <1>4, <1>6 DEF AcceptCommit, At, AcceptAllowed, LockInv, ReadsHold, RowTypes
  <2>2. tstatus[r] # NoRow
    BY <1>3, <1>4, <2>1 DEF SlotSees, Before, RideLabels, Labels, AvailLabels, LocLabels,
       RideInv, RowsOK, Booked
  <2>3. tstatus[r] \notin MovingTrip
    BY <2>1 DEF RideInv, RowsOK, DriverBehindTrip
  <2> QED BY <1>1, <2>1, <2>2, <2>3 DEF NeverRequested, RowTypes, TripStatus, MovingTrip
<1>7. CASE CancelCommit(p)
  <2>1. /\ pc[p] = "cancel_commit" /\ pc'[p] = "idle"
        /\ lv[p].tst \notin TerminalTrip /\ tstatus'[r] = "CANCELLED"
    BY <1>1, <1>4, <1>7 DEF CancelCommit, At, Finish, Goto, RowTypes, SlotOK
  <2>2. lv[p].tst \in TripStatus /\ tstatus[r] # NoRow
    BY <1>1, <1>3, <1>4, <2>1 DEF SlotSees, TripRead, Before, RideLabels, Labels, AvailLabels,
       LocLabels, RideInv, RowsOK, Booked, RowTypes, SlotOK, Locals
  <2>3. MayTransition(lv[p].tst, "CANCELLED")
    BY <2>1, <2>2 DEF MayTransition, Allowed, TripStatus, TerminalTrip
  <2> QED BY <1>4, <2>1, <2>2, <2>3
<1>8. CASE TripCommit(p) \/ PauseCommit(p) \/ EndCommit(p)
  <2>1. pc[p] \in Moving /\ pc'[p] = "idle"
    BY <1>1, <1>8 DEF TripCommit, PauseCommit, EndCommit, At, Finish, Goto, Moving, RowTypes, SlotOK
  <2>2. tstatus[r] # NoRow
    BY <1>3, <1>4, <2>1 DEF SlotSees, Moving, Before, RideLabels, Labels, AvailLabels, LocLabels,
       RideInv, RowsOK, Booked
  <2>3. CASE TripCommit(p)
    BY <1>1, <1>3, <1>4, <2>1, <2>2, <2>3 DEF TripCommit, At, Checked, RowTypes
  <2>4. CASE PauseCommit(p)
    BY <1>1, <1>3, <1>4, <2>1, <2>2, <2>4 DEF PauseCommit, At, Checked, RowTypes
  <2>5. CASE EndCommit(p)
    <3>1. tstatus'[r] = "COMPLETED" /\ pc[p] = "end_commit"
      BY <1>1, <1>4, <2>5 DEF EndCommit, At, RowTypes
    <3>2. MayTransition(lv[p].tst, "COMPLETED")
      BY <1>3, <3>1 DEF Checked
    <3> QED BY <1>4, <2>1, <2>2, <2>5, <3>1, <3>2
  <2> QED BY <1>8, <2>3, <2>4, <2>5
<1> QED BY <1>2, <1>5, <1>6, <1>7, <1>8 DEF Writes

(* Whatever calls overlap, a transition the table forbids is made in two    *)
(* ways only: on a check that has gone stale, or by an accept that revives  *)
(* a cancelled trip, and never one that is completed or has a driver.       *)
THEOREM IllegalMoveIsStaleCorrect == Spec => IllegalMoveIsStale
<1>1. ASSUME TypeInv, LockInv, RideInv, CheckedMoves, NeverRequested, [Next]_vars, NEW r \in Rides,
             tstatus[r] \notin {NoRow, tstatus'[r]}, ~MayTransition(tstatus[r], tstatus'[r])
      PROVE  \/ tstatus[r] = "CANCELLED" /\ tstatus'[r] = "DRIVER_ASSIGNED" /\ rdriver[r] = None
             \/ \E p \in Procs : /\ pc[p] # "idle" /\ pc'[p] = "idle" /\ lv[p].ride = r
                                /\ MayTransition(lv[p].tst, tstatus'[r])
                                /\ tstatus[r] # lv[p].tst
  <2>1. MayTransition("MATCHING", "DRIVER_ASSIGNED")
    BY DEF MayTransition, Allowed, TripStatus, TerminalTrip
  <2> QED BY <1>1, <2>1, TripWrite
<1>2. ASSUME TypeInv, LockInv, RideInv, CheckedMoves, NeverRequested, [Next]_vars
      PROVE  [\A r \in Rides :
                tstatus[r] \notin {NoRow, tstatus'[r]} /\ ~MayTransition(tstatus[r], tstatus'[r]) =>
                  \/ tstatus[r] = "CANCELLED" /\ tstatus'[r] = "DRIVER_ASSIGNED" /\ rdriver[r] = None
                  \/ \E p \in Procs : /\ pc[p] # "idle" /\ pc'[p] = "idle" /\ lv[p].ride = r
                                     /\ MayTransition(lv[p].tst, tstatus'[r])
                                     /\ tstatus[r] # lv[p].tst]_vars
  BY <1>1, <1>2
<1> QED BY <1>2, TypesAndArguments, LocksAndReads, RidesAndReads, ChecksKnown, RequestedNever, PTL
        DEF Spec, IllegalMoveIsStale

(* What Fares takes of the services: a trip is booked once, in matching;    *)
(* end_trip alone completes it, after a check; every other write is an      *)
(* OtherMove.                                                              *)
TripWritesAsInFares ==
  [][\A r \in Rides : tstatus'[r] # tstatus[r] =>
       \/ tstatus[r] = NoRow /\ tstatus'[r] = "MATCHING"
       \/ tstatus[r] # NoRow /\ tstatus'[r] \in TripStatus \ {"REQUESTED", "MATCHING", "COMPLETED"}
       \/ /\ tstatus[r] # NoRow /\ tstatus'[r] = "COMPLETED"
          /\ \E p \in Procs : EndCommit(p) /\ lv[p].ride = r /\ MayTransition(lv[p].tst, "COMPLETED")]_vars

(* The fares and payments are proved against every writer of trips.status   *)
(* that Comet has, and in the form Comet has it.                           *)
THEOREM TripWritesCorrect == Spec => TripWritesAsInFares
<1> DEFINE Known(r) ==
       \/ tstatus[r] = NoRow /\ tstatus'[r] = "MATCHING"
       \/ tstatus[r] # NoRow /\ tstatus'[r] \in TripStatus \ {"REQUESTED", "MATCHING", "COMPLETED"}
       \/ /\ tstatus[r] # NoRow /\ tstatus'[r] = "COMPLETED"
          /\ \E p \in Procs : EndCommit(p) /\ lv[p].ride = r /\ MayTransition(lv[p].tst, "COMPLETED")
<1>1. ASSUME TypeInv, LockInv, RideInv, CheckedMoves, NeverRequested, [Next]_vars
      PROVE  \A r \in Rides : tstatus'[r] # tstatus[r] => Known(r)
  <2> SUFFICES ASSUME NEW r \in Rides, tstatus'[r] # tstatus[r] PROVE Known(r)
    OBVIOUS
  <2>1. {"DRIVER_ASSIGNED", "IN_PROGRESS", "PAUSED", "CANCELLED"}
          \subseteq TripStatus \ {"REQUESTED", "MATCHING", "COMPLETED"}
    BY DEF TripStatus
  <2>2. "MATCHING" # NoRow /\ "CANCELLED" # NoRow
    BY DEF NoRow
  <2> QED BY <1>1, <2>1, <2>2, TripWrite
<1>2. ASSUME TypeInv, LockInv, RideInv, CheckedMoves, NeverRequested, [Next]_vars
      PROVE  [\A r \in Rides : tstatus'[r] # tstatus[r] => Known(r)]_vars
  BY <1>1, <1>2
<1> QED BY <1>2, TypesAndArguments, LocksAndReads, RidesAndReads, ChecksKnown, RequestedNever, PTL
        DEF Spec, TripWritesAsInFares

------------------------------------------------------------------------------
(* Who waits, and for whom. *)
BlockedLabels == {"accept_ride", "match_lock", "cancel_commit", "trip_commit", "end_commit",
                  "accept_driver", "avail_insert", "loc_insert", "loc_commit", "avail_commit",
                  "end_lock"}

(* A slot that is waited for is between its lock and its commit.            *)
LEMMA BlockerHolds ==
  ASSUME RowTypes, LockInv, NEW p \in Procs, NEW q \in Procs, BlockedBy(p, q)
  PROVE  /\ p # q /\ pc[p] \in BlockedLabels
         /\ \/ /\ NeedsRide(p) /\ pc[q] \in HoldsRide
               /\ lv[p].ride \in Rides /\ lv[q].ride = lv[p].ride
            \/ \E d \in Drivers :
                 /\ NeedsDriver(p, d) /\ driverLock[d] = q
                 /\ \/ pc[q] \in HoldsDriver /\ lv[q].driver = d
                    \/ pc[q] = "end_commit"
<1>1. p # q /\ pc[p] \in BlockedLabels /\ q # None
  BY DEF BlockedBy, NeedsRide, NeedsDriver, BlockedLabels, At, RowTypes, SlotOK
<1>2. CASE NeedsRide(p) /\ rideLock[lv[p].ride] = q
  <2>1. pc[p] \in RideLabels
    BY <1>2 DEF NeedsRide, At, RideLabels, Labels, AvailLabels, LocLabels
  <2>2. lv[p].ride \in Rides
    BY <2>1 DEF RowTypes, SlotOK
  <2> QED BY <1>1, <1>2, <2>2 DEF LockInv, LocksHeldInside
<1>3. ASSUME NEW d \in Drivers, NeedsDriver(p, d), driverLock[d] = q
      PROVE  (pc[q] \in HoldsDriver /\ lv[q].driver = d) \/ pc[q] = "end_commit"
  BY <1>1, <1>3 DEF LockInv, LocksHeldInside
<1> QED BY <1>1, <1>2, <1>3 DEF BlockedBy

(* Who waits while somebody waits for him is in accept or in end.           *)
LEMMA WaitingHolders ==
  ASSUME RowTypes, LockInv, NEW p \in Procs, NEW q \in Procs, NEW s \in Procs,
         BlockedBy(q, p), BlockedBy(p, s)
  PROVE  pc[p] \in {"accept_driver", "end_commit"}
<1>1. pc[p] \in BlockedLabels /\ pc[p] \in HoldsRide \cup HoldsDriver \cup {"end_commit"}
  BY BlockerHolds
<1>2. pc[p] \in {"accept_driver", "end_commit", "avail_commit", "loc_commit"}
  BY <1>1 DEF BlockedLabels, HoldsRide, HoldsDriver
<1>3. ASSUME pc[p] \in {"avail_commit", "loc_commit"} PROVE FALSE
  <2>1. driverLock[lv[p].driver] = p
    BY <1>3, BlockerHolds DEF HoldsRide
  <2>2. driverLock[lv[p].driver] = s
    BY <1>3 DEF BlockedBy, NeedsRide, NeedsDriver, At
  <2> QED BY <2>1, <2>2 DEF BlockedBy
<1> QED BY <1>2, <1>3

(* An end that waits behind an accept waits for one that will be refused:   *)
(* the ride of a trip it may end has its driver.                           *)
LEMMA EndBehindDoomed ==
  ASSUME RowTypes, LockInv, RideInv, NEW p \in Procs, NEW q \in Procs, BlockedBy(q, p),
         pc[p] = "accept_driver", pc[q] \in {"accept_driver", "end_commit"}
  PROVE  pc[q] = "end_commit" /\ lv[p].drv # None
<1>1. lv[q].ride \in Rides /\ lv[p].ride = lv[q].ride /\ pc[q] = "end_commit"
  BY BlockerHolds DEF HoldsDriver, NeedsRide, At
<1>2. rdriver[lv[q].ride] # None
  BY <1>1 DEF RideInv, SlotSees, Moving, TripRead
<1>3. lv[p].drv = rdriver[lv[p].ride]
  BY DEF LockInv, ReadsHold
<1> QED BY <1>1, <1>2, <1>3

(* Every deadlock, of any number of slots, is between ends of trips and     *)
(* accepts that would be refused, and is one the model's detector finds.    *)
THEOREM DeadlockCorrect == Spec => []DeadlockCostsNoRide
<1>1. TypeInv /\ LockInv /\ RideInv => DeadlockCostsNoRide
  <2> SUFFICES ASSUME TypeInv, LockInv, RideInv, NEW S \in SUBSET Procs, Deadlocked(S), NEW p \in S
               PROVE  /\ \/ At(p, "end_commit")
                         \/ At(p, "accept_driver") /\ lv[p].drv # None
                      /\ \A q \in S : BlockedBy(p, q) => WaitsFor(p, q)
    BY DEF DeadlockCostsNoRide
  <2>1. RowTypes
    BY RowFacts
  <2>2. \A q \in S : pc[q] \in {"accept_driver", "end_commit"}
    BY <2>1, WaitingHolders DEF Deadlocked
  <2>3. pc[p] = "accept_driver" => lv[p].drv # None
    BY <2>1, <2>2, EndBehindDoomed DEF Deadlocked
  <2>4. \A q \in S : BlockedBy(p, q) => WaitsFor(p, q)
    BY <2>2 DEF BlockedBy, NeedsRide, NeedsDriver, WaitsFor, At
  <2> QED BY <2>2, <2>3, <2>4 DEF At
<1> QED BY <1>1, TypesAndArguments, LocksAndReads, RidesAndReads, PTL

==============================================================================
