# Comet: TLA+ models and proofs

Comet is a ride-hailing backend: a FastAPI process (`src/app/api`, `src/app/services`), a Celery
worker (`src/app/workers`), PostgreSQL and Redis. This directory models what happens from a rider's
`POST /rides` to the payment of the trip: which driver the ride is offered to and who gets it, which
statuses the tables go through, which offers, locks and queued tasks are in flight meanwhile, what
the trip costs and how often it is paid, and who hears of it. Every handler and task is split at its
awaits, so the models show what concurrent requests, repeated requests, crashes, expiring keys, row
locks and slow clients do to one another.

Contents: [inventory](#1-the-system), [modules](#2-modules-and-their-code),
[abstractions](#3-what-is-abstracted-and-why-it-is-sound), [properties](#4-properties),
[runs](#5-runs-bounds-and-what-they-show), [fairness](#6-fairness),
[disagreements](#7-where-code-and-documentation-part), [proofs](#8-proofs), [not
modelled](#9-not-modelled).

## 1. The system

| part | code | state | operations | what makes it correct |
|---|---|---|---|---|
| Ride booking | `services/rides.py`, `endpoints/rides.py` | `riders`, `rides`, `trips` rows | create (replay by key, conflict check, insert, enqueue), cancel | a key names one ride; a rider has one active ride; ride and trip agree; no ride in matching is dropped |
| Driver calls | `services/drivers_service.py`, `endpoints/drivers.py` | `drivers` rows, GEO set, throttle key | availability, location, pending, accept, reject | a ride is assigned once, to an online driver; an offline driver is not in the GEO set |
| Offer store | `matching/offers.py`, `matching/constants.py` | `comet:offer:ride:*`, `comet:offer:driver:*`, `comet:assign:ride:*` | store, clear, read, expiry | the two keys of an offer agree |
| Matching worker | `workers/tasks.py`, `workers/db_sync.py` | Celery queue, assign lock | `match_ride` | offers only for rides in matching; never two chances for one ride |
| Ranking | `matching/engine.py`, `workers/tasks.py` | what the search answered | GEO search, `rank_drivers`, the choice | nobody online in reach is missed; a rating or a tier costs a bounded detour |
| Trip lifecycle | `services/trips.py`, `services/trip_fsm.py` | `trips.status`, `rides.status`, `drivers.status` | start, pause, resume, end | only the moves of `_ALLOWED`; the driver is released at the end |
| Pricing and surge | `pricing/*.py`, `services/trips.py` | `comet:surge:zones`, booked multiplier, fare | surge lookup, estimate, fare of an end | no fare below the one without surge |
| Payments | `services/payments_service.py`, `workers/tasks.py` | `payments` rows, `retry_payment` tasks | initiate, retry | one payment per key, none without a fare; a decline is retried |
| Sessions and locks | `db/session.py`, `workers/db_sync.py`, PostgreSQL | row locks, loaded attributes | commit, rollback, deadlock detection | locks end with the transaction |
| WebSocket hub | `websockets/manager.py`, `websockets/routes.py` | channels and their sockets | connect, disconnect, broadcast, evict | nobody is lost or left behind; only committed news |
| Application | `main.py`, `api/health.py`, `api/deps.py`, `core/middleware.py`, `core/limits.py`, `core/exceptions.py`, `core/config.py` | engine and pool, Redis client, requests in flight | startup, shutdown, request, health probe | every request ends; who has changed something gets its identifier; the probe answers when nothing else runs, as long as synchronous calls return |
| Authentication | `core/security.py`, `endpoints/auth_*.py` | none | token verdict, roles, issuance | who is refused |
| Logging, notifications, migrations, seeds, load | `core/logging.py`, `notifications/`, `alembic/`, `scripts/` | none of the above | | section 9 |

How the parts meet:

* API handlers of one process interleave at every `await`; the worker is another process. They share
  PostgreSQL and Redis and call each other only through the Celery queue (`match_ride.delay`,
  `retry_payment.apply_async`).
* A ride is offered by `match_ride` (worker writes Redis), read by the driver's poll, and taken by
  `accept_offer` (reads Redis, then locks and writes PostgreSQL, then clears Redis).
* `cancel`, `start`, `pause`, `resume`, `end` read rows without locks and write them several awaits
  later; `accept_offer` and `match_ride` use `SELECT ... FOR UPDATE`.
* `end_trip` prices the trip with the surge multiplier of that moment; `initiate_payment` reads the
  trip's status, and nothing ties it to the other writers of that status.
* Handlers broadcast through the hub after their commit. A broadcast awaits every client in turn,
  and the `refresh` before it keeps a pooled connection meanwhile: clients that do not read reach
  the database through it.
* The limiter (on every request), `.delay` and `.apply_async` talk to Redis synchronously, on the
  event loop: until such a call returns, nothing else in the process runs.

Hard behaviours, all in the models: check-then-insert races (active ride, idempotency keys, first
row of a driver), decisions on loaded ORM attributes that are stale when written, two stores updated
one after the other with a crash in between, offers that expire or outlive their ride, repeated
client calls, lock order between accept and end, tasks lost with their worker, evictions of sockets
that other broadcasts also evict, an exhausted pool, an event loop that stands still. `PROJECT.json`
lists each hazard with its line and the properties that cover it.

## 2. Modules and their code

Three compositions, each a specification of its own. They share operators, not state: what one needs
of another's writes, it takes as free moves (section 3).

```
TripFsm               statuses, _ALLOWED, assert_transition, _align_ride_status    (no state)
 ├ CometState         stores, locks, slots, expiry, failures
 │  ├ RideService       create_ride, cancel_ride and their endpoints
 │  ├ DriverService     pending, accept, reject, availability, location
 │  ├ MatchWorker       match_ride
 │  └ TripService       start, pause, resume, end
 │     └ Comet          all of it interleaved: Next, Spec, FairSpec, the properties
 │        ├ MCComet       symmetries for TLC
 │        └ CometTypes    proofs: type correctness
 │           └ CometLocks   proofs: locks, reads under locks, Assignment
 │              └ CometRides  proofs: ride and trip rows, offers, locations
 │                 ├ CometChance  proofs: no ride in matching is dropped
 │                 └ CometSerial  proofs: what holds with one call at a time, RideLifecycle
 └ Pricing, Fares     fare and surge; booking, surge changes, end_trip's price
    └ Payments          initiate_payment, retry_payment
       └ Billing        fares and payments interleaved, the properties
          └ BillingTheorems  proofs
Ranking               GEO search, score, order, choice, against drivers who move
 ├ MCRanking            ratings for TLC
 └ RankingTheorems      proofs
WebSocketHub          hub, /ws handler, far ends of the sockets
HttpLayer             tokens and roles, the middleware stack, error responses     (no state)
 └ ApiProcess         lifespan, requests and connections, broadcasts, health (with WebSocketHub)
    ├ MCProcess          which request asks what, for TLC
    └ ProcessTheorems    proofs
Assignment            abstract: a ride gets an available driver once      (refined by Comet, proved)
RideLifecycle         abstract: one status, legal moves, one ride a driver (refined by serial Comet, proved)
PaymentLedger         abstract: final entries, one per key, for priced trips (refined by Billing, proved)
```

**Comet.** `rstatus`, `rdriver`, `rowner`, `rkey`, `tstatus`, `dstatus`, `riders` are committed
columns of PostgreSQL. `rideLock`, `driverLock` are row locks. `offer`, `index`, `geo`,
`assignLock`, `throttle`, `queue` are the Redis keys and the broker queue. `inbox[d]` is the last
answer of `GET /drivers/{d}/offers/pending` that driver `d`'s app holds: it is where the ride id and
the token of an accept come from. `pc[p]` is the await slot `p` performs next and `lv[p]` the values
its handler has loaded; a slot is one request in flight (`Handlers`) or one worker process
(`Workers`). There is one action per await that touches shared state, named after the function and
the step: `AcceptBegin` (first Redis read), `AcceptReadOffer` (second), `AcceptLockRide`,
`AcceptLockDriver` (the two `FOR UPDATE`), `AcceptCommit` or `AcceptRefused` (the `session.begin()`
block's commit or rollback), `AcceptClear`. A flush and its commit are one action unless a lock
taken in the flush is held while the flush waits for another (`EndLockDriver`, then `EndCommit`).

**Billing.** `trip[t]` holds the committed columns of a trip and its ride that pricing and payments
look at; `surge` is the Redis hash; `ender[e]` an `end_trip` in flight (rows and transition check,
then the multiplier, then the commit of fare and status). `call[c]` is a `POST /payments`: lookup by
key, trip, insert, commit, the retry task if declined, the broadcast. `payment[c]` is the row call
`c` inserted, `retries` and `retried` the tasks in the broker and those that ran. A row is inserted
before it is committed: meanwhile its key blocks other inserts of it (`KeyHeld`), afterwards the
unique index refuses them (`KeyTaken`).

**Ranking.** `pos` is the GEO set as distances from the pickup, `status`, `tier`, `rating` the rows,
`seen` and `found` what the search met and answered. `match_ride` searches (`Search`), then reads
the rows and takes the first of the ranking who is online (`Choose`) or nobody (`NoneOnline`);
between the two, drivers ping, leave the set and change their status.

**ApiProcess.** `Awaits(kind)` gives a handler as the sequence of its awaits that take a connection,
give it back or depend on other clients, and of its synchronous calls (`enqueue`); `req[r]` is a
request's place in it, whether it holds a pooled connection, whether it has committed, and what
answered it. `loop` is the request that is in a synchronous call, if any: from its arrival to its
first await, the limiter's call included, and while it enqueues a task. Every action of the process
needs `loop` free (`OnLoop`) except the return of that call (`SyncReturns`); clients go on
meanwhile. `members`, `keys` are the hub's `defaultdict` of sets, `cast[r]` the broadcast of request
`r` with what is left of its snapshot, `socket`, `channel` the `/ws` handlers and `client` the far
ends, which read, stall, or are gone. `HttpLayer` has the middleware stack as a sequence. An answer
has an origin in it (the router, slowapi's 429 or the exception of its store, a CORS preflight): the
request has `Entered` the layers outside of the origin, and the response has `Passed` them too,
unless it is the 500 of an unhandled exception, which is made outside of the whole stack.

**Failures.** `Fail(p)` ends a slot of Comet at any await: an exception of Redis, PostgreSQL or the
broker, or the death of the process. The transaction is rolled back, locks are released, and what
was committed, written to Redis or enqueued stays. `EndFail`, `PayFail` and `StoreError` are the
same in the other compositions. A task is acknowledged before it runs (Celery's default;
`celery_app.py` does not set `acks_late`), so a failed one is gone. `DeadlockVictim(p)` is
PostgreSQL breaking a wait cycle of any length (accept has a ride and waits for a driver, end has a
driver and waits for a ride; no other step waits while it holds a lock: `DeadlockCorrect`).
`OfferExpires`, `IndexExpires`, `AssignLockExpires`, `ThrottleExpires` are the TTLs, at any moment.

**Clients** are unconstrained: any call of `Ops` at any time, duplicates included. `Serial`
restricts a run to one call at a time (failures and expiries still anywhere); `OffDutyOnly`
restricts availability calls to drivers without an active ride. Both are off in the concurrent runs.

Operators whose comment begins "Seeded fault" are faulty variants of the definition after them. No
specification uses them; they exist to confirm that a property notices the fault. `PROJECT.json`
"map" gives the source lines of the definitions that model code.

## 3. What is abstracted, and why it is sound

Stores and slots:

* **READ COMMITTED.** The engine sets no isolation level, so a statement sees what is committed when
  it runs: actions read the committed variables directly. Sessions have `expire_on_commit=False` and
  `autoflush=False`, hence `lv` keeps attributes as loaded.
* **ORM writes.** SQLAlchemy emits an UPDATE only for columns whose value differs from the one
  loaded. `TripCommit` (`writesRide`), `EndCommit` and `AvailabilityCommit` (`writes`) keep that
  rule: whether a stale write overwrites, and whether it waits for a lock, depends on it. A location
  update is taken to move the driver, so it always has a column to write.
* **A trip is named by its ride.** They are inserted in one transaction and `trips.ride_id` is
  unique. The trip row is only written in flushes that end with their commit, so its row lock is
  never held across an action.
* **Flush and commit in one action.** Between the first row written and the commit the transaction
  only waits for row locks, and no other transaction can see its rows. A wait that matters (holding
  one lock, waiting for another) is a separate action.
* **Guards that cannot be taken** have no action: `accept_offer`'s and `match_ride`'s tests for a
  missing ride, trip or driver row (rows are never deleted and their ids come from stored offers and
  tasks), and `end_trip`'s ride without a driver, which `DriverBehindTrip` excludes.
* **The choice** of `match_ride` is left open in Comet: `MatchGeoSearch` lets any non-empty subset
  of the GEO set be near, `MatchChoose` any online one of it come first. This admits every order
  `rank_drivers` could compute; `Ranking` models which one it is, and makes no choice that Comet
  does not admit (`ChoicesCorrect`).
* **Tokens.** A `uuid4` is new. Tokens are only compared with the token of the same ride's offer, so
  `MatchStore` may take any token that no app and no accept in flight holds for that ride, which
  lets a small set stand for infinitely many.
* **Offers.** `offer[r]` holds driver and token; both keys are written by one MULTI with one TTL and
  so lapse together. An index entry that survived because its ride was offered to someone else
  lapses alone.
* **The queue** counts `match_ride` tasks per ride: tasks of one ride are alike, and the order of
  tasks of different rides is left open. `MaxQueue` bounds the count in the guard of `Enqueue`; at
  the bound an enqueue waits.
* **The empty Idempotency-Key** (`EmptyKey`) is falsy, so it is not looked up, and not `None`, so it
  is stored. Both create and payment keep the difference.
* **The driver's app** keeps its latest answer. Calls with an arbitrary ride or token fail their
  first comparison and change nothing, so they are no steps; nor are other calls that answer 4xx
  after one read. Those that fail later are steps (`CreateConflict`, `AcceptInvalidOffer`, ...).

Money and distance:

* **Units.** Amounts and fares are in cents, distances in tenths of a kilometre, multipliers in
  hundredths. A duration is the exact fraction of minutes that `estimate_duration_minutes` stands
  for, and the only rounding of a fare is the final one to cents; in `Ranking`, distances and scores
  are in tenths of a metre (what GEOSEARCH resolves) and ratings in hundredths (`numeric(3, 2)`).
  One point of rating is 0.15 km, so scores are whole. `round` on an exact half may go either way in
  floating point; no property depends on which way.
* **Trips in Billing** are moved by `OtherMove` from any status to any but COMPLETED, since accept,
  cancel, start, pause and resume write on stale reads. This is more than they do, and all they do:
  Comet's writers of `trips.status` book a trip once, complete it in `end_trip` after its check, and
  otherwise make an `OtherMove` (`TripWritesCorrect`). What Billing's properties say thus holds of
  trips as Comet moves them.
* **Surge** is any multiplier or a field that is missing or unparseable, changed at any time.
* **A payment** is named by its call (a call inserts one row at most). `PROCESSING` is flushed and
  never committed, so rows appear in their final status.
* **Ranking.** `status` "other" stands for busy and offline, which the loop passes over alike. The
  tier and the rating of a driver do not change while a task runs. Equal scores keep the order of
  the search (the sort is stable), which is by distance. `engine.py` adds floats, so two drivers
  whose exact scores are equal may be told apart by the last bit and come in either order: "exact
  ties" in `Ahead` and `ChoiceSettledCorrect` are of the real numbers. `NobodyMissed` does not
  depend on the order, and `DetourBounded` allows far more than such a bit. The Haversine distance
  of `estimate` is an input of `FareOf`.

The process:

* **One event loop**: between two awaits nothing else runs, so the bodies under the hub's lock,
  which have no await, are parts of single steps. That the lock is free then is `LockTaken`.
  Synchronous calls of Redis are the ones that may last: `loop` says who is in one.
* **Answers** are reduced to what made them. The rate limiter, when it is enabled, may refuse any
  request or fail with its store: its counters are left open.
* **Tokens** are a verdict (`Credentials`): decodable or not, and whose role and driver they name.
* **Shutdown** waits for requests and sockets, as uvicorn does by default; then the engine, then
  Redis.

## 4. Properties

Each comment in the modules says what code behaviour a property is about.

| property | module | kind | statement |
|---|---|---|---|
| `TypeOK` | Comet, Billing, ApiProcess, Ranking | invariant | domains of all variables, slots' locals included |
| `LocksHeldInside` | Comet | invariant | whoever holds a row lock is between taking it and its commit or rollback |
| `OneInside` | Comet | invariant | one accept or `match_ride` at a time is past its lock on a ride, so the assign lock is found taken only after a task died |
| `DeadlockCostsNoRide` | Comet | invariant | slots that wait for each other's rows are ends of trips and accepts that would be refused anyway |
| `MatchingAgreement` | Comet | invariant | `rides` and `trips` agree on being in matching, and then there is no driver |
| `DriverBehindTrip` | Comet | invariant | a trip that was ever assigned has a driver on its ride |
| `OfferOnlyInMatching` | Comet | action | `match_ride` writes an offer only while the ride is in matching and free |
| `IllegalMoveIsStale` | Comet | action | a transition the table forbids is made on a check that has gone stale, or by an accept that revives a cancelled trip; never otherwise |
| `ChanceKept` | Comet | action | a ride in matching that has a task, an offer or a call at work on it keeps one, unless a task gives it up, its offer lapses, or something fails |
| `LocationKeepsStatus` | Comet | action | a location update changes a status only by creating the row |
| `AssignmentSpec` | Comet | refinement | any interleaving implements `Assignment` |
| `LifecycleSpec` | Comet | refinement | calls one at a time implement `RideLifecycle` |
| `OneActiveRide`, `OfflineNotInGeo`, `ReverseLookup`, `OneChance`, `ReplayAnswered` | Comet | invariants of serial runs | with one call at a time, crashes and expiries anywhere |
| `CallsEnd` | Comet | liveness | every call and task taken up ends |
| `SameAnswer` | Billing | invariant | all calls of one key that get a payment get the same one |
| `DeclineRetried` | Billing | invariant | a declined payment has its retry queued or run, unless its call failed first |
| `NeverBelowPlainFare` | Billing | invariant | no fare is below the one without surge |
| `LedgerSpec` | Billing | refinement | the payments table implements `PaymentLedger` |
| `PaymentsEnd` | Billing | liveness | every call is answered, also one that waits for another's key |
| `NobodyMissed` | Ranking | action | a task that offers to nobody met nobody online within the radius, unless the search overflowed |
| `DetourBounded` | Ranking | action | the chosen driver is at most 3.25 km farther than another found online, and of another tier only if 1.75 km nearer |
| `Subscribed` | ApiProcess | invariant | no empty channel, no socket without a handler, no working subscriber outside his channel |
| `Delivered` | ApiProcess | action | a broadcast passes over nobody of its snapshot who is still there |
| `NewsIsCommitted` | ApiProcess | invariant | who gets a message finds the change in the database |
| `ChangeTraceable` | ApiProcess | action | whoever has committed a change is answered with the request's id, in the header or the error body |
| `HealthAnswers`, `RequestsEnd` | ApiProcess | liveness | if synchronous calls return: the probe answers whatever else is stuck; every request ends if clients are given up in the end |
| `DriverOneRide` | Comet | invariant | a driver is on one active ride at most: proved for serial calls and drivers who go on and off duty between rides |
| `TripMovesLegal`, `OfflineLeavesGeo`, and `OneActiveRide` again | Comet | refuted | what documents promise and the code does not keep (section 7) |

`RideLifecycle` is the promise a client reads out of `docs/LLD.md`: one status shown two ways, moves
of the trip state machine only, a driver from the assignment on who has no other active ride. The
code keeps it when calls do not overlap, even with a crash between any two steps.

## 5. Runs, bounds and what they show

| run | constants that matter | distinct states | checks |
|---|---|---|---|
| `assign` | 1 ride, 2 drivers, 2 handlers, 1 worker, 3 tokens, faults | 625 722 | `TypeOK`, `MatchingAgreement`, `OneInside`, `OfferOnlyInMatching`, `ChanceKept`, `AssignmentSpec` |
| `trips` | 1 ride, 1 driver, 2 handlers, 1 worker, 1 token; create, pending, accept, cancel, start, end; faults, fairness | 41 789 | `LocksHeldInside`, `DriverBehindTrip`, `DeadlockCostsNoRide`, `IllegalMoveIsStale`, `CallsEnd` |
| `inserts` | 1 driver without a row, 3 handlers; availability, location; faults | 18 820 | `LocationKeepsStatus` |
| `serial_trips` | 2 rides, 2 riders, 1 driver, 1 call at a time, all lifecycle calls, faults | 890 678 | `OneActiveRide`, `OfflineNotInGeo`, `LifecycleSpec` |
| `serial_offers` | 2 rides, 2 drivers, a key and the empty key, 1 call at a time, faults | 979 387 | `ReverseLookup`, `OneChance`, `ReplayAnswered` |
| `billing` | 1 trip of 5.3 km, 1 zone, multipliers 0.5 and 1.5, 1 ender, 2 payment calls, a key and the empty key, amounts 10.50 and 10.99, faults, fairness | 312 183 | `TypeOK`, `SameAnswer`, `DeclineRetried`, `NeverBelowPlainFare`, `LedgerSpec`, `PaymentsEnd` |
| `ranking` | 3 drivers, 1.0 and 4.3 km away or absent, ratings -1.00, 5.00 and none, radius 5 km, COUNT 2 | 587 112 | `TypeOK`, `NobodyMissed`, `DetourBounded` |
| `process` | 2 requests (one of create, accept, health; one of end, token), 2 sockets, 1 channel, 1 connection, limiter on | 131 147 | `TypeOK`, `Subscribed`, `NewsIsCommitted`, `ChangeTraceable`, `Delivered`, `RequestsEnd` |
| `probe` | the same, with fairness for the probe only | 131 147 | `HealthAnswers` |
| `two_rides`, `resurrect`, `ghost_driver` | smallest instance that shows it | | section 7 |

Why these bounds are enough for the cases of interest.

* An assignment race needs two accepts and a match in flight together: two handlers and a worker.
  Two drivers let a ride be offered again to someone else, and let an index entry outlive its offer.
  With three tokens, apps and accepts in flight can hold all of them at once in rare states, where
  `MatchStore` waits until one is dropped; a fourth token makes 0.6 % more states and no new case.
* A lifecycle race needs two stale handlers. Two of a driver's first calls race for his row, and a
  third has committed a status in between. Two rides of one rider and a key are what `OneActiveRide`
  and `ReplayAnswered` can be violated with. `trips` leaves out `pause` and `resume`, which take no
  lock and write the trip only; `serial_trips` has them.
* `MaxQueue` is 1 in all runs: a ride is enqueued once by its create and once by each reject, and
  with one worker a second task of one ride only repeats the first one's reads. In `serial_offers`,
  `OneChance` would be violated before the bound could be met with an offer out.
* Two payments overlap in every way with one key, with the empty key and without any; a multiplier
  below 1 is what the clamp of the fare is for, one above makes the end's differ from the booked
  one; the duration of 5.3 km is no whole number of minutes or of their tenths; 10.99 is declined.
* Three drivers against COUNT 2 overflow the search; 3.3 km between two of them is more than tier
  and rating can make up for and less than an unclamped rating of -1.00 would.
* One connection and one other request exhaust the pool; two sockets in one channel let one
  broadcast meet a dead and a stalled client in either order, and two broadcasts of one request
  evict what the socket's handler also evicts.

Deadlock is checked where there is always a call to make or an expiry to come. `CHECK_DEADLOCK
FALSE` is in `process` and `probe`, where the process shuts down, and in `two_rides`, whose few
calls run out. Symmetry is used in safety runs only, on tokens, on handlers, and on drivers where
all of them start alike (`OnDuty` is all or none of them).

## 6. Fairness

* `Comet!FairSpec` assumes that a slot that has taken up a call runs on (`SF` on `Step`), that a
  queued task is taken (`WF` on `MatchCall`) and that PostgreSQL's deadlock detector fires (`SF` on
  `DeadlockVictim`). asyncio resumes a coroutine whose await is done, and a worker process does
  nothing else than its task. Strong fairness is for the row locks: PostgreSQL queues waiters per
  row and grants in order, so a waiter is not overtaken for ever, whereas the model lets the lock be
  free again and again.
* `Billing!FairSpec` assumes that a payment call runs on (`WF` on `PayStep`): the wait for a key
  ends with the transaction that holds it and does not come back.
* `ApiProcess!FairSpec` assumes only that the event loop runs a probe's timers and its answer
  whenever it is free often enough (`SF` on `OnLoop(HealthStep)`): asyncio runs what has become
  ready in order, so a timer that has expired while the loop stood still runs when it comes free.
  That it comes free is not assumed. It is a premise of `HealthAnswers` and `RequestsEnd`,
  `SyncEnds`: a synchronous call returns or raises in the end, which holds while Redis answers or
  refuses connections. The code sets no timeout for these calls, so with a Redis that is silent for
  ever the probe hangs with everything else; what `HealthAnswers` adds is that the database, the
  pool, other handlers and clients cannot hold it up.
* `RequestsEnd` has a wider premise, `RunOn`: besides `SyncEnds`, requests are run (strong fairness,
  since the pool serves its waiters in turn, and since the loop is free again and again), and a
  client that stalls for ever is given up by the server's ping timeout. Nothing is assumed of the
  `/ws` handlers. `trips` and `process` show that without failures or timeouts helping, nothing
  waits for ever.

Nothing is assumed of clients, of TTLs, of operators or of failures.

## 7. Where code and documentation part

Each is a run whose `expect` is `violation`; `PROJECT.json` "findings" quotes the line.

* `two_rides`: `create_ride` checks for an active ride with a plain SELECT; two overlapping creates
  of one rider both pass it and both commit.
* `resurrect`: `match_ride` stores an offer after cancel has looked for one; `accept_offer` looks at
  neither ride nor trip status, and CANCELLED becomes DRIVER_ASSIGNED.
* `ghost_driver`: `update_location` adds a driver to the GEO set on a status loaded before
  `set_availability` took him out and committed offline; he stays in the set until another offline
  call of his.

How far these go is proved (section 8). A forbidden transition takes a stale check or a revived
cancellation (`IllegalMoveIsStale`): under a lock or a version column on the trip, and a status test
in `accept_offer`, none would be left. With calls one at a time `TripMovesLegal`, `OneActiveRide`
and `OfflineNotInGeo` (hence `OfflineLeavesGeo`) hold, and `DriverOneRide` and `LifecycleSpec` if
besides drivers go on and off duty between rides only.

Met on the way, with no run of their own:

* `ReverseLookup` is a property of serial calls only: a reject carries no token, so a repeated one
  clears the ride's next offer, leaves another driver's index entry and starts a second task.
  Setting `Serial = FALSE` and a second handler in `SerialOffers.cfg` shows it.
* A repeated create or payment whose first request is still in flight, or whose key is the empty
  string, gets 500 from the unique index rather than the first one's answer (`docs/LLD.md` has the
  replay under "Idempotency"). `ReplayAnswered` and `SameAnswer` state what does hold.
* `middleware.py:37` says of the request-id layer "Ensures X-Request-ID on request/response".
  slowapi and CORS are outside of it, and unhandled exceptions are answered outside of all layers:
  429s, preflights and 500s have no such header, and the access log misses them. A handler's 500
  carries the identifier in the error body; the 500 of a limiter whose store fails, which happens
  before the layer is reached, has none at all. None of those without one has changed anything,
  which is `ChangeTraceable`.
* Availability is unconditional, so a driver on a trip can set himself online and be matched again,
  and a repeated `end_trip` sets a driver online who may be on his next ride. No document says
  otherwise; `LifecycleSpec` and `DriverOneRide` are therefore stated for `OffDutyOnly`.

## 8. Proofs

TLAPS checks `CometTypes`, `CometLocks`, `CometRides`, `CometChance`, `CometSerial`,
`BillingTheorems`, `RankingTheorems` and `ProcessTheorems`. The constants are arbitrary sets subject
to the named assumptions of their modules (`ConstantsAssumption`, `FaresAssumption`,
`PaymentsAssumption`, `RankingAssumption`, `ProcessAssumption`): `None` is not a member of the
others, bounds are positive, multipliers and distances are naturals. Nothing is assumed of the sizes
of the sets (drivers in `Ranking` are finitely many).

Booking core:

* **`TypeCorrect`** (`Spec => []TypeOK`). `TypeOK` is not inductive: `rstatus' = [rstatus EXCEPT
  ![lv[p].ride] = ...]` keeps the type only if the slot has a ride. `ArgsOK` says which locals a
  slot has set at which label, and `TypeInv == TypeOK /\ ArgsOK` is inductive: one lemma per service
  with one step per action, one for the environment, one for the initial state.
* **`LocksCorrect`** (`LocksHeldInside`). `LockInv` adds the converse, `LocksHeld` (whoever is past
  a lock step has the lock; at `end_commit` the driver's lock is held unless nothing is to be
  written), and `ReadsHold` (what accept read under its locks is what the rows hold; a location call
  that holds an uncommitted row has an offline driver and no committed row). The proof sorts steps
  into kinds and proves the invariant once per kind: `FreeStep` (no lock held or taken),
  `InsideStep` (goes on with its locks), `EndingStep` (releases all it has and wrote only rows
  nobody else had locked). What remains is one step per action that takes a lock.
* **`OneInsideCorrect`** (`OneInside`), from `LocksHeld`: two slots inside one ride would both have
  its lock.
* **`AssignmentCorrect`** (`AssignmentSpec`): refinement under the mapping `assigned <-
  rides.driver_id`, `available <-` the online drivers. `AcceptCommit` is `Assign` by `ReadsHold`;
  the commits of availability, location and end are `ChangeAvailability`; everything else stutters.
* **`MatchingCorrect`, `DriverBehindTripCorrect`, `OffersCorrect`** (`MatchingAgreement`,
  `DriverBehindTrip`, `OfferOnlyInMatching`). Cancel, start, pause, resume and end write on values
  read long before, with no lock in between, so the two tables by themselves are not inductive.
  `RideInv` adds what saves them: `SlotSees(p)` relates what slot p has read to the rows as they are
  now (a ride or trip read past matching is still past matching, a trip found movable has a driver,
  a task past its lock has a ride in matching), `RefsOK` says that every ride named by an offer key,
  an app or the queue exists, and `OwnRide` that two creates on their way have different rides.
  `OthersSee` is the core of the argument: a step that moves rides only `Forward`, and changes no
  status of a ride somebody else has locked, leaves every other slot's `SlotSees` true. It is
  applied once for the steps that leave the rows alone (`QuietStep`) and once for the commits that
  write them (`WritingStep`).
* **`LocationCorrect`** (`LocationKeepsStatus`) follows from `ReadsHold`.
* **`IllegalMoveIsStaleCorrect`** (`IllegalMoveIsStale`). `CheckedMoves`: a slot about to write a
  move of start, pause, resume or end holds a status from which `_ALLOWED` has it. With `SlotSees`,
  `ReadsHold` and `NeverRequested`, `TripWrite` says what a commit can make of a trip: an accept
  takes it from MATCHING or revives it from CANCELLED (nothing else without a driver is left, by
  `DriverBehindTrip`), the others make the checked move. If the table forbids it for the status the
  row has, that is not the status that was checked.
* **`TripWritesCorrect`**, from `TripWrite`: the assumption of `Fares` about the other writers of
  `trips.status`, proved of those writers.
* **`DeadlockCorrect`** (`DeadlockCostsNoRide`). Who is waited for is between a lock and a commit
  (`BlockerHolds`); who waits besides is an accept at its driver or an end at its ride
  (`WaitingHolders`); an end waits behind an accept only if its trip has moved, so that the accept
  has read a driver on the ride and will be refused (`EndBehindDoomed`, from `SlotSees` and
  `ReadsHold`). Hence of any number of slots that wait for each other, all are of these two kinds.
* **`ChanceKeptCorrect`** (`ChanceKept`). A slot that clears an offer or takes a task has the ride
  in hand until it commits or enqueues (`ChanceStays`). Two steps end a hand without passing the
  ride on, and the proof is that neither had a ride in matching: accept's clear, since by then the
  ride has a driver (`ClearsLate`, an invariant of its own), and a refused cancel, since the status
  it read was past matching and `SlotSees` says that it still is.

Booking core with one call at a time (`ASSUME Serial PROVE Spec => ...`, in `CometSerial`; failures
and expiries still come between any two steps, and a crashed call leaves what it had written):

* `OneBusy` says that one slot at most is not idle, and every step of a service is its slot's
  `Turn`. Each invariant below is a statement about rows and keys and one about the busy slot; the
  second need be proved only for the slot whose turn it is.
* **`OfflineNotInGeoCorrect`** from `GeoInv`: members of the GEO set have a row that is not offline,
  a ping about to add a driver found him online, a call about to commit offline has removed him.
* **`ReplayAnsweredCorrect`** from `KeyInv`: a create that found no ride with its key still would
  find none.
* **`ReverseLookupCorrect`, `OneChanceCorrect`** from `OfferInv`: whoever is about to enqueue or to
  offer a ride is its only chance, and whoever is about to clear an offer knows whom it was made to,
  unless it has lapsed.
* **`OneActiveRideCorrect`** from `StatusInv` and `BookInv`. `StatusInv`: the two tables say the
  same, what the busy slot has read of them is what they are, and a ride that is offered and has no
  driver is in matching (so an accept whose token matched finds it there, even if the offer has
  lapsed since). Then the commits that write the rows are the moves of `RideLifecycle`
  (`WritesAreMoves`) and none makes a finished ride active (`NoneRevived`); only a create can add an
  active ride, and it found none.
* **`TripMovesLegalCorrect`** (`TripMovesLegal`, which `resurrect` refutes for calls that overlap)
  from `WritesAreMoves`, and with `OffDutyOnly` **`DriverOneRideCorrect`** (`DriverOneRide`) from
  `DutyInv`.
* **`LifecycleCorrect`** (`LifecycleSpec`), with `OffDutyOnly`: refinement under `status <-
  trips.status`, `shown <- rides.status`, `driver <- rides.driver_id`. `DutyInv` says that a driver
  on an active ride is not online and is on no other, which is the guard of `AssignDriver`.

Fares and payments (`BillInv` = `TypeOK`, `ArgsOK`, `FareInv`, `CallInv`, `KeyInv`,
`DeclineRetried`):

* **`SameAnswerCorrect`, `DeclineRetriedCorrect`, `TypeCorrect`.** `CallInv` ties a call's place to
  its row (a row from the commit on, the answer a row with the call's key); `KeyInv` says that of
  all rows and uncommitted inserts one at most has a key.
* **`NeverBelowPlainFareCorrect`** rests on lemmas about the arithmetic: `RoundHalfEven` is within
  half a unit and monotone (`FareRounds` brings a fare to one denominator), so `FareOf` is monotone
  in distance and multiplier (**`FareMonotone`**, `FareOrder`) and the clamp at 1 does the rest.
* **`LedgerCorrect`** (`LedgerSpec`): refinement under `ledger <- payment`, `priced <-` the trips
  that have a fare. `PayCommit` is `Enter`; a call past its check has a priced trip (`FareInv`,
  `CallInv`), whatever the status has become since.

Ranking (`RankInv` = `TypeOK` and `SearchOK`, what the search answered): **`NobodyMissedCorrect`**
and **`DetourCorrect`**, the latter from bounds of the rating term and the order of the scores.
**`ChoiceSettledCorrect`**: of those online somebody has nobody ahead (`Foremost`: the least
distance among the least scores, which exist because `<` is well-founded on the naturals), so a task
always chooses or reports nobody, and two it could choose are exact ties. **`ChoicesCorrect`**:
whatever the ranking does, `match_ride` may do in Comet.

Process (`ProcInv` = `TypeOK`, `Subscribed`, and what it needs: a handler with a socket has a
channel, a dead socket's client is gone, only a request at a broadcast has one under way, and who
has committed is past his commit, `Settled`): **`SubscribedCorrect`, `NewsCorrect`,
`DeliveredCorrect`, `ProcessTypeCorrect`**. **`ChangeTraceableCorrect`** (`ChangeTraceable`): a
request that has committed is past the limiter, so the steps that can answer it are the router's
answer and a 500, and with the layers as they are added both are of a request that went through the
request-id layer.

Every safety property and every refinement that a passing run of section 5 checks is stated by a
theorem. Model-checked only is liveness (`CallsEnd`, `PaymentsEnd`, `HealthAnswers`, `RequestsEnd`),
which is outside what the prover handles. The refuted properties have counterexamples, and theorems
about serial calls (of `TripMovesLegal` and `DriverOneRide` there, TLC checks what is stronger,
`LifecycleSpec`). `TripWritesCorrect`, `FareMonotone`, `ChoiceSettledCorrect` and `ChoicesCorrect`
are proved only: they are about operators, or tie one composition to another, and no run has both.

## 9. Not modelled

* **Reposition suggestions** (`endpoints/reposition.py`): a read of a sorted set that only the seed
  script writes.
* **Logging and notifications**: output only.
* **Migrations, seeds, load script, deployment**: tooling. The unique constraints they create are
  guards (`CreateUnique`, `InsertDriver`, `KeyTaken`).
* Parts of modelled components: the limiter's counters, token signatures and claims, CORS rules,
  JSON shapes and validation, the Haversine distance, timestamps. None of them is read by a modelled
  guard.

What is left to do: liveness of a booking (that a ride in matching is assigned or given up) needs
more of the clients than the code demands of them, and is not stated; the other open ends are the
parts above.
