-------------------------------- MODULE Comet --------------------------------
(***************************************************************************)
(* The whole booking core: the API's request slots, the worker's slots and *)
(* the environment of the stores, interleaved at every await.              *)
(***************************************************************************)
EXTENDS RideService, DriverService, MatchWorker, TripService

(* The next step of a call or task already taken up. *)
Step(p) == IF p \in Workers THEN MatchStep(p)
                            ELSE RideStep(p) \/ DriverStep(p) \/ TripStep(p)

Call(p) == RideCall(p) \/ DriverCall(p) \/ TripCall(p)

Next ==
  \/ \E p \in Handlers : Call(p)
  \/ \E w \in Workers : MatchCall(w)
  \/ \E p \in Procs : Step(p)
  \/ Environment

Spec == Init /\ [][Next]_vars

(* Handlers and tasks run on, and a queued task is taken; nothing is assumed *)
(* of clients or of failures.  Strong fairness because PostgreSQL grants a   *)
(* row lock in the order of the requests, so a waiter that finds the row     *)
(* free again and again gets it.                                             *)
Fairness == \A p \in Procs : /\ SF_vars(Step(p))
                             /\ SF_vars(DeadlockVictim(p))
                             /\ p \in Workers => WF_vars(MatchCall(p))

FairSpec == Spec /\ Fairness

------------------------------------------------------------------------------
(* Every variable keeps to its domain, the locals of a slot included. *)
Labels == {"idle", "create_key", "create_active", "create_rider", "create_commit",
           "create_enqueue", "cancel_trip", "cancel_offer", "cancel_clear",
           "cancel_commit", "pending_offer", "accept_offer", "accept_ride",
           "accept_driver", "accept_commit", "accept_clear", "reject_offer",
           "reject_clear", "reject_enqueue", "avail_insert", "avail_georem",
           "avail_commit", "loc_insert", "loc_geo", "loc_throttle", "loc_commit",
           "match_lock", "match_geo", "match_rank", "match_setnx", "match_store",
           "match_release", "trip_ride", "trip_commit", "pause_commit",
           "end_driver", "end_lock", "end_commit"}

TypeOK ==
  /\ riders \subseteq Riders
  /\ rowner \in [Rides -> OrNone(Riders)]
  /\ rkey \in [Rides -> OrNone(Keys)]
  /\ rstatus \in [Rides -> RideStatus \cup {NoRow}]
  /\ rdriver \in [Rides -> OrNone(Drivers)]
  /\ tstatus \in [Rides -> TripStatus \cup {NoRow}]
  /\ dstatus \in [Drivers -> DriverStatus \cup {NoRow}]
  /\ rideLock \in [Rides -> OrNone(Procs)]
  /\ driverLock \in [Drivers -> OrNone(Procs)]
  /\ offer \in [Rides -> [driver: OrNone(Drivers), token: OrNone(Tokens)]]
  /\ index \in [Drivers -> OrNone(Rides)]
  /\ geo \subseteq Drivers
  /\ assignLock \in [Rides -> BOOLEAN]
  /\ throttle \subseteq Drivers
  /\ queue \in [Rides -> Nat]
  /\ inbox \in [Drivers -> [ride: OrNone(Rides), token: OrNone(Tokens)]]
  /\ pc \in [Procs -> Labels]
  /\ lv \in [Procs -> Locals]

(* A row lock never outlives the transaction that took it: whoever holds a *)
(* ride or a driver is at a step between the SELECT FOR UPDATE (or insert, *)
(* or flush) of that very row and the commit or rollback, whatever way the *)
(* handler ends (409, IntegrityError, throttled location, crash).          *)
HoldsRide   == {"accept_driver", "accept_commit", "match_geo", "match_rank",
                "match_setnx", "match_store", "match_release"}
HoldsDriver == {"accept_commit", "avail_georem", "avail_commit", "loc_throttle",
                "loc_commit"}

LocksHeldInside ==
  /\ \A r \in Rides : rideLock[r] # None =>
       /\ pc[rideLock[r]] \in HoldsRide
       /\ lv[rideLock[r]].ride = r
  /\ \A d \in Drivers : driverLock[d] # None =>
       \/ pc[driverLock[d]] \in HoldsDriver /\ lv[driverLock[d]].driver = d
       \/ pc[driverLock[d]] = "end_commit"  /\ lv[driverLock[d]].drv = d

(* One accept or match_ride at a time is past its lock on a ride.  So a     *)
(* task that finds the assign lock taken finds it left by a task that died, *)
(* and that the lock may lapse under its holder lets nobody in.            *)
OneInside ==
  \A p, q \in Procs : p # q /\ pc[p] \in HoldsRide /\ pc[q] \in HoldsRide
                        => lv[p].ride # lv[q].ride

(* A ride in matching has no driver, and the two tables agree on whether a *)
(* ride is in matching: what match_ride tests on both of them.             *)
MatchingAgreement ==
  \A r \in Rides : /\ rstatus[r] = "matching" <=> tstatus[r] = "MATCHING"
                   /\ rstatus[r] = "matching" => rdriver[r] = None

(* A trip a driver is on, or was on until it ended, has that driver on its *)
(* ride, whatever start, pause, resume, end, accept and cancel overwrite:  *)
(* end_trip always has a driver to release.                                *)
DriverBehindTrip ==
  \A r \in Rides : tstatus[r] \in MovingTrip => rdriver[r] # None

(* match_ride stores an offer only for a ride that is still in matching at *)
(* that very moment, although it checked several calls earlier.            *)
OfferOnlyInMatching ==
  [][\A r \in Rides : offer'[r] \notin {offer[r], NoOffer}
                        => rstatus[r] = "matching" /\ rdriver[r] = None]_vars

(* A ride in matching is waiting for something: a task in the queue, an     *)
(* offer that is out, or a call or task that has it in hand.                *)
Hands == {"create_enqueue", "reject_enqueue", "cancel_commit", "match_lock", "match_geo",
          "match_rank", "match_setnx", "match_store"}
HasChance(r) == \/ queue[r] > 0 \/ HasOffer(r)
                \/ \E p \in Procs : pc[p] \in Hands /\ lv[p].ride = r

(* It is dropped, and stays in matching until it is cancelled, only when a  *)
(* task finds no candidate, none online or the assign lock taken, when the  *)
(* offer lapses, or by a failure: no reject, accept or cancel, and no two   *)
(* tasks between them, drop a ride.                                        *)
ChanceKept ==
  [][\A r \in Rides :
       rstatus[r] = "matching" /\ HasChance(r) /\ rstatus'[r] = "matching" /\ ~HasChance(r)' =>
         \/ OfferExpires(r)
         \/ \E w \in Workers : MatchNoCandidates(w) \/ MatchNoneOnline(w) \/ MatchAssignBusy(w)
         \/ \E p \in Procs : Fail(p)]_vars

(* assigned is rides.driver_id, available the online drivers. *)
A == INSTANCE Assignment WITH assigned <- rdriver,
                              available <- {d \in Drivers : dstatus[d] = "online"}

(* Accepting implements Assignment, for any interleaving of accepts with   *)
(* cancels, trips and availability changes: a ride's driver is set once    *)
(* and never replaced, and whoever is set was online at that moment and    *)
(* stops being so in the same transaction.                                 *)
AssignmentSpec == A!Spec

(* A location update may create a driver's row and never changes the       *)
(* status of one: the "offline" it inserts for a driver it found no row of *)
(* cannot overwrite what a concurrent availability call committed.         *)
LocationKeepsStatus ==
  [][\A p \in Handlers : pc[p] = "loc_commit" /\ pc'[p] = "idle" /\ dstatus' # dstatus
       => lv[p].dst = "offline" /\ dstatus[lv[p].driver] = NoRow]_vars

(* An illegal transition is made in two ways only, whatever overlaps: by a  *)
(* commit whose check passed on a status that is no longer the trip's, or   *)
(* by an accept that revives a cancelled trip.  Nothing revives a trip that *)
(* is completed, or that has a driver, without a stale read.                *)
IllegalMoveIsStale ==
  [][\A r \in Rides :
       tstatus[r] \notin {NoRow, tstatus'[r]} /\ ~MayTransition(tstatus[r], tstatus'[r]) =>
         \/ tstatus[r] = "CANCELLED" /\ tstatus'[r] = "DRIVER_ASSIGNED" /\ rdriver[r] = None
         \/ \E p \in Procs : /\ pc[p] # "idle" /\ pc'[p] = "idle" /\ lv[p].ride = r
                            /\ MayTransition(lv[p].tst, tstatus'[r])
                            /\ tstatus[r] # lv[p].tst]_vars

(* The slot whose transaction has the row that p's next statement locks or  *)
(* updates.                                                                *)
NeedsRide(p) == \/ pc[p] \in {"accept_ride", "match_lock"}
                \/ At(p, "cancel_commit") /\ lv[p].rst \in ActiveRideStatuses
                \/ At(p, "trip_commit") /\ lv[p].rst # "in_progress"
                \/ At(p, "end_commit") /\ lv[p].rst # "completed"

NeedsDriver(p, d) ==
  \/ pc[p] \in {"accept_driver", "avail_insert", "loc_insert", "loc_commit"} /\ d = lv[p].driver
  \/ At(p, "avail_commit") /\ lv[p].want # lv[p].dst /\ d = lv[p].driver
  \/ At(p, "end_lock") /\ d = lv[p].drv

BlockedBy(p, q) ==
  q # p /\ \/ NeedsRide(p) /\ rideLock[lv[p].ride] = q
           \/ \E d \in Drivers : NeedsDriver(p, d) /\ driverLock[d] = q

(* Slots that wait for each other: none of them goes on unless the database *)
(* makes one of them fail.                                                 *)
Deadlocked(S) == \A p \in S : /\ \E q \in S : BlockedBy(p, q)
                            /\ \E q \in S : BlockedBy(q, p)

(* A deadlock costs nobody a ride: those in it are ends of trips, and       *)
(* accepts of rides that have a driver already, to be refused anyway.  No   *)
(* task, booking, cancellation, first accept or driver's own call is ever   *)
(* the victim, and WaitsFor, which picks the victims, misses no deadlock.   *)
DeadlockCostsNoRide ==
  \A S \in SUBSET Procs : Deadlocked(S) =>
    \A p \in S : /\ \/ At(p, "end_commit")
                    \/ At(p, "accept_driver") /\ lv[p].drv # None
                 /\ \A q \in S : BlockedBy(p, q) => WaitsFor(p, q)

(* Every request is answered and every task returns: no lock, queue or     *)
(* wait cycle holds a slot for ever.                                       *)
CallsEnd == \A p \in Procs : pc[p] # "idle" ~> pc[p] = "idle"

------------------------------------------------------------------------------
(* What holds when calls and tasks come one at a time, with crashes and    *)
(* expiries between any two steps (Serial), and what concurrency breaks.   *)

(* The lifecycle's one status is trips.status; riders see rides.status. *)
L == INSTANCE RideLifecycle WITH status <- tstatus, shown <- rstatus, driver <- rdriver

(* Rides, trips and drivers implement RideLifecycle: ride and trip status  *)
(* never part, only legal moves are made, and a driver is given a ride     *)
(* only when no other active ride has that driver.                         *)
LifecycleSpec == L!Spec

(* Illegal transitions of the trip state machine do not happen: the        *)
(* promise of trip_fsm.py, for every writer of trips.status.               *)
TripMovesLegal ==
  [][\A r \in Rides : tstatus[r] \notin {NoRow, tstatus'[r]}
                        => MayTransition(tstatus[r], tstatus'[r])]_vars

(* A rider never has two rides that are neither completed nor cancelled. *)
OneActiveRide ==
  \A u \in Riders :
    Cardinality({r \in Rides : rowner[r] = u /\ rstatus[r] \in ActiveRideStatuses}) <= 1

(* A driver is on one active ride at most. *)
DriverOneRide ==
  \A d \in Drivers :
    Cardinality({r \in Rides : rdriver[r] = d /\ rstatus[r] \in ActiveRideStatuses}) <= 1

(* The driver's index key is a reverse lookup: it leads to an offer made   *)
(* to that driver.                                                         *)
ReverseLookup == \A d \in Drivers : index[d] # None => offer[index[d]].driver = d

(* A ride has one chance at a time: an offer out, or a task in the queue.  *)
(* A reject, a clear and a match_ride never leave it with two.             *)
OneChance ==
  \A r \in Rides : queue[r] + (IF HasOffer(r) THEN 1 ELSE 0) <= 1

(* A create whose key names a ride is answered with that ride: apart from   *)
(* the empty key, which is stored but not looked up, none gets as far as    *)
(* the unique index.                                                       *)
ReplayAnswered ==
  \A p \in Handlers : pc[p] = "create_commit" /\ ~CreateUnique(p) => lv[p].key = EmptyKey

(* The GEO set has no driver who is offline. *)
OfflineNotInGeo == \A d \in geo : dstatus[d] # "offline"

(* The same, once every call has returned. *)
OfflineLeavesGeo == (\A p \in Procs : pc[p] = "idle") => OfflineNotInGeo
==============================================================================
