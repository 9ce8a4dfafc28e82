----------------------------- MODULE CometState ------------------------------
(***************************************************************************)
(* The stores the API and the worker share, and the request slots that    *)
(* work on them.                                                           *)
(*                                                                         *)
(* PostgreSQL: the variables hold COMMITTED rows (READ COMMITTED is the   *)
(* default isolation and no code changes it).  A ride and its trip are    *)
(* inserted in one transaction and the trip's ride_id is unique, so a trip *)
(* is named by its ride.  rideLock and driverLock are the row locks taken  *)
(* by SELECT ... FOR UPDATE, by an UPDATE, or by an uncommitted INSERT of  *)
(* the row; an UPDATE or a FOR UPDATE waits for them, a plain SELECT does  *)
(* not.                                                                    *)
(*                                                                         *)
(* Redis: offers, the driver index, the GEO set, the assign lock, the      *)
(* location throttle and the Celery queue.  Every command, and every       *)
(* MULTI/EXEC pipeline, is atomic.                                         *)
(*                                                                         *)
(* A slot runs one handler (or task) at a time: pc is the await it will    *)
(* perform next, lv the Python locals and the ORM attributes it has loaded. *)
(* The ORM sessions are built with expire_on_commit=False and              *)
(* autoflush=False, so a loaded attribute keeps the value it was read with. *)
(***************************************************************************)
EXTENDS Naturals, FiniteSets, TripFsm

CONSTANTS
  Rides,      \* ride/trip identifiers create_ride can draw
  Drivers,    \* driver identifiers
  Riders,     \* rider identifiers
  Keys,       \* Idempotency-Key header values
  EmptyKey,   \* the empty value of the header, if it is in Keys
  Tokens,     \* offer tokens (uuid4)
  Handlers,   \* request slots of the API process
  Workers,    \* slots of the Celery worker
  None,       \* Python's None
  Ops,        \* the operations clients invoke
  OnDuty,     \* drivers already online, with a position, when the run begins
  KnownRiders,\* riders that already have a row
  MaxQueue,   \* bound on the queued match_ride tasks of one ride
  Faults,     \* TRUE: a store call may raise and a worker process may die
  Serial,     \* TRUE: at most one slot is busy (one call at a time)
  OffDutyOnly \* TRUE: a driver changes availability only with no active ride

AllOps == {"create", "cancel", "pending", "accept", "reject", "availability",
           "location"} \cup TripOps

Procs == Handlers \cup Workers

ASSUME ConstantsAssumption ==
  /\ None \notin Rides \cup Drivers \cup Riders \cup Keys \cup Tokens \cup Procs
  /\ Handlers \cap Workers = {}
  /\ Ops \subseteq AllOps
  /\ OnDuty \subseteq Drivers
  /\ KnownRiders \subseteq Riders
  /\ MaxQueue \in Nat \ {0}
  /\ Faults \in BOOLEAN /\ Serial \in BOOLEAN /\ OffDutyOnly \in BOOLEAN

VARIABLES
  riders,     \* rows of "riders"
  rowner,     \* rides.rider_id
  rkey,       \* rides.idempotency_key (unique)
  rstatus,    \* rides.status, NoRow before the insert
  rdriver,    \* rides.driver_id
  tstatus,    \* trips.status
  dstatus,    \* drivers.status, NoRow before the insert
  rideLock,   \* slot holding the row lock of a ride
  driverLock, \* slot holding the row lock of a driver
  offer,      \* comet:offer:ride:{ride_id}
  index,      \* comet:offer:driver:{driver_id}
  geo,        \* members of comet:drivers:geo
  assignLock, \* comet:assign:ride:{ride_id}
  throttle,   \* comet:driver_db_loc:{driver_id}
  queue,      \* match_ride tasks waiting in the broker, by ride
  inbox,      \* what each driver's app last got from GET .../offers/pending
  pc, lv

book  == <<riders, rowner, rkey>>
locks == <<rideLock, driverLock>>
redis == <<offer, index, geo, assignLock, throttle, queue>>
vars  == <<book, rstatus, rdriver, tstatus, dstatus, locks, redis, inbox, pc, lv>>

NoOffer  == [driver |-> None, token |-> None]
NoAnswer == [ride |-> None, token |-> None]

OrNone(S) == S \cup {None}

(* What else a call carries: the missing rider row, the requested           *)
(* availability, the requested trip operation.                              *)
Wants == {"", "new_rider"} \cup DriverStatus \cup TripOps

Locals == [ride: OrNone(Rides), driver: OrNone(Drivers), rider: OrNone(Riders),
           key: OrNone(Keys), token: OrNone(Tokens), want: Wants,
           rst: RideStatus \cup {NoRow}, tst: TripStatus \cup {NoRow},
           dst: DriverStatus \cup {NoRow}, drv: OrNone(Drivers),
           near: SUBSET Drivers]

NoLocals == [ride |-> None, driver |-> None, rider |-> None, key |-> None,
             token |-> None, want |-> "", rst |-> NoRow, tst |-> NoRow,
             dst |-> NoRow, drv |-> None, near |-> {}]

Init ==
  /\ riders = KnownRiders
  /\ rowner = [r \in Rides |-> None]
  /\ rkey = [r \in Rides |-> None]
  /\ rstatus = [r \in Rides |-> NoRow]
  /\ rdriver = [r \in Rides |-> None]
  /\ tstatus = [r \in Rides |-> NoRow]
  /\ dstatus = [d \in Drivers |-> IF d \in OnDuty THEN "online" ELSE NoRow]
  /\ rideLock = [r \in Rides |-> None]
  /\ driverLock = [d \in Drivers |-> None]
  /\ offer = [r \in Rides |-> NoOffer]
  /\ index = [d \in Drivers |-> None]
  /\ geo = OnDuty
  /\ assignLock = [r \in Rides |-> FALSE]
  /\ throttle = {}
  /\ queue = [r \in Rides |-> 0]
  /\ inbox = [d \in Drivers |-> NoAnswer]
  /\ pc = [p \in Procs |-> "idle"]
  /\ lv = [p \in Procs |-> NoLocals]

------------------------------------------------------------------------------
(* Control of a slot. *)

At(p, label) == pc[p] = label
Goto(p, label) == pc' = [pc EXCEPT ![p] = label]

(* A slot takes up a call only when it is free and, in serial runs, when   *)
(* every other slot is free too.                                           *)
MayBegin(p) == /\ At(p, "idle")
               /\ Serial => \A q \in Procs : pc[q] = "idle"

Begin(p, label, locals) == /\ Goto(p, label)
                           /\ lv' = [lv EXCEPT ![p] = locals]

(* The handler returns (or raises): its session is closed. *)
Finish(p) == /\ Goto(p, "idle")
             /\ lv' = [lv EXCEPT ![p] = NoLocals]

------------------------------------------------------------------------------
(* Row locks. *)

RideFree(r) == rideLock[r] = None
DriverFree(d) == driverLock[d] = None

(* Seeded fault: the SELECT of the ride without FOR UPDATE. *)
ReadRideOnly(p, r) == UNCHANGED rideLock

LockRide(p, r) == rideLock' = [rideLock EXCEPT ![r] = p]
LockDriver(p, d) == driverLock' = [driverLock EXCEPT ![d] = p]

(* Seeded fault: the locks on drivers outlive the transaction. *)
ReleaseRides(p) ==
  /\ rideLock' = [r \in Rides |-> IF rideLock[r] = p THEN None ELSE rideLock[r]]
  /\ UNCHANGED driverLock

(* Commit or rollback: every row lock of the transaction is released. *)
ReleaseLocks(p) ==
  /\ rideLock' = [r \in Rides |-> IF rideLock[r] = p THEN None ELSE rideLock[r]]
  /\ driverLock' = [d \in Drivers |-> IF driverLock[d] = p THEN None
                                                          ELSE driverLock[d]]

------------------------------------------------------------------------------
(* The offer keys of app/matching/offers.py. *)

StoreOffer(r, d, t) ==
  /\ offer' = [offer EXCEPT ![r] = [driver |-> d, token |-> t]]
  /\ index' = [index EXCEPT ![d] = r]

(* Seeded faults: the index key is overwritten with a null payload, or one  *)
(* of the two keys is forgotten.                                            *)
BlankOffer(r, d) == /\ offer' = [offer EXCEPT ![r] = NoOffer]
                    /\ index' = [index EXCEPT ![d] = NoOffer]

ClearRideKey(r, d) == /\ offer' = [offer EXCEPT ![r] = NoOffer]
                      /\ UNCHANGED index

ClearDriverKey(r, d) == /\ index' = [index EXCEPT ![d] = None]
                        /\ UNCHANGED offer

(* Deletes the driver's index key whatever ride it points to. *)
ClearOffer(r, d) ==
  /\ offer' = [offer EXCEPT ![r] = NoOffer]
  /\ index' = [index EXCEPT ![d] = None]

HasOffer(r) == offer[r] # NoOffer

Enqueue(r) == /\ queue[r] < MaxQueue
              /\ queue' = [queue EXCEPT ![r] = @ + 1]

------------------------------------------------------------------------------
(* What the environment does on its own. *)

(* The two keys of one store_offer share a TTL and lapse together; an index *)
(* entry whose ride was offered again, to someone else, lapses alone.       *)
OfferExpires(r) ==
  /\ HasOffer(r)
  /\ offer' = [offer EXCEPT ![r] = NoOffer]
  /\ index' = IF index[offer[r].driver] = r
              THEN [index EXCEPT ![offer[r].driver] = None]
              ELSE index
  /\ UNCHANGED <<book, rstatus, rdriver, tstatus, dstatus, locks, geo, assignLock,
                 throttle, queue, inbox, pc, lv>>

IndexExpires(d) ==
  /\ index[d] # None
  /\ offer[index[d]].driver # d
  /\ index' = [index EXCEPT ![d] = None]
  /\ UNCHANGED <<book, rstatus, rdriver, tstatus, dstatus, locks, offer, geo,
                 assignLock, throttle, queue, inbox, pc, lv>>

AssignLockExpires(r) ==
  /\ assignLock[r]
  /\ assignLock' = [assignLock EXCEPT ![r] = FALSE]
  /\ UNCHANGED <<book, rstatus, rdriver, tstatus, dstatus, locks, offer, index, geo,
                 throttle, queue, inbox, pc, lv>>

ThrottleExpires(d) ==
  /\ d \in throttle
  /\ throttle' = throttle \ {d}
  /\ UNCHANGED <<book, rstatus, rdriver, tstatus, dstatus, locks, offer, index, geo,
                 assignLock, queue, inbox, pc, lv>>

(* A slot ends early: the open transaction is rolled back and what was     *)
(* already written to Redis, or committed, stays.                          *)
Abandon(p) ==
  /\ Finish(p)
  /\ ReleaseLocks(p)
  /\ UNCHANGED <<book, rstatus, rdriver, tstatus, dstatus, redis, inbox>>

(* A Redis or PostgreSQL call raises, or the process dies.  A task is      *)
(* acknowledged before it runs (Celery's default), so it is not retried.   *)
Fail(p) == /\ Faults
           /\ ~At(p, "idle")
           /\ Abandon(p)

(* A slot that holds a row lock and waits for one q has: accept has the ride *)
(* and waits for the driver, end has the driver and waits for the ride.    *)
WaitsFor(p, q) ==
  \/ At(p, "accept_driver") /\ driverLock[lv[p].driver] = q
  \/ At(p, "end_commit") /\ lv[p].rst # "completed" /\ rideLock[lv[p].ride] = q

(* PostgreSQL breaks a wait cycle of any length by failing one transaction *)
(* of it.                                                                  *)
DeadlockVictim(p) ==
  /\ pc[p] \in {"accept_driver", "end_commit"}
  /\ \E cycle \in SUBSET Procs :
       /\ p \in cycle
       /\ \A q \in cycle : /\ \E s \in cycle : WaitsFor(q, s)
                           /\ \E s \in cycle : WaitsFor(s, q)
  /\ Abandon(p)

Environment ==
  \/ \E r \in Rides : OfferExpires(r) \/ AssignLockExpires(r)
  \/ \E d \in Drivers : IndexExpires(d) \/ ThrottleExpires(d)
  \/ \E p \in Procs : Fail(p) \/ DeadlockVictim(p)
==============================================================================
