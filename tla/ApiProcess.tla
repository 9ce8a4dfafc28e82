----------------------------- MODULE ApiProcess ------------------------------
(***************************************************************************)
(* One API process: start and shutdown, requests and the database          *)
(* connections they hold, the hub they broadcast to, and the health probe.  *)
(* What the handlers do to the stores is in Comet and Billing; here a      *)
(* handler is the sequence of its awaits that need a connection, give it   *)
(* back, or depend on other clients, and of its calls that stop the whole   *)
(* event loop until they return.                                            *)
(***************************************************************************)
EXTENDS WebSocketHub, HttpLayer

CONSTANTS
  Pool,         \* connections the pool may open: pool_size + max_overflow
  Env,          \* APP_ENV
  RateLimited,  \* RATE_LIMIT_ENABLED
  Asked,        \* the kinds each request may be of
  RideChannel, DriverChannel

ASSUME ProcessAssumption ==
  /\ Pool \in Nat \ {0}
  /\ Env \in AppEnv /\ RateLimited \in BOOLEAN /\ Asked \in [Requests -> SUBSET Kinds]
  /\ {RideChannel, DriverChannel} \subseteq Channels
  /\ None \notin Sockets \cup Channels \cup Requests

VARIABLES
  phase,     \* "down", "serving", "disposing", "stopped"
  engine,    \* _engine and _session_factory are set
  redisPool, \* _pool and _client are set
  loop,      \* the request in a synchronous call, during which nothing else runs
  req        \* the requests

procVars == <<phase, engine, redisPool, loop, req>>
vars == <<hubVars, procVars>>

(* Seeded fault: subscribers are told before the commit. *)
TellFirst == << "load", "cast_ride", "commit", "refresh", "enqueue" >>

(* end_trip: the refresh takes a connection again, the broadcast comes      *)
(* after it, and the task for analytics last.                               *)
EndAwaits == << "load", "commit", "refresh", "cast_ride", "enqueue" >>

(* create_ride, accept_offer, reject_offer, start_trip (and a payment that  *)
(* succeeds), end_trip, a declined payment, health_overall, issue_token.    *)
Awaits(kind) ==
  CASE kind = "create"  -> << "load", "commit", "refresh", "enqueue" >>
    [] kind = "accept"  -> << "load", "commit", "cast_ride", "cast_driver", "refresh" >>
    [] kind = "reject"  -> << "enqueue" >>
    [] kind = "start"   -> << "load", "commit", "refresh", "cast_ride" >>
    [] kind = "end"     -> EndAwaits
    [] kind = "decline" -> << "load", "commit", "refresh", "enqueue", "cast_ride" >>
    [] kind = "health"  -> << "ping_db", "ping_redis" >>
    [] kind = "token"   -> << >>

NoRequest == [kind |-> None, step |-> 0, conn |-> FALSE, committed |-> FALSE, from |-> None]

Init == /\ HubInit
        /\ phase = "down" /\ engine = FALSE /\ redisPool = FALSE /\ loop = None
        /\ req = [r \in Requests |-> NoRequest]

Running(r) == req[r].kind # None
InUse == {r \in Requests : req[r].conn}

At(r, await) == /\ Running(r) /\ req[r].step \in DOMAIN Awaits(req[r].kind)
                /\ Awaits(req[r].kind)[req[r].step] = await

Update(r, new) == req' = [req EXCEPT ![r] = new]
Onward(r, row) == Update(r, [row EXCEPT !.step = @ + 1])

(* The response: get_session closes the session first, which returns a      *)
(* connection and rolls back.  Of the answer only the layer that made it    *)
(* matters here.                                                           *)
Respond(r, from) == Update(r, [NoRequest EXCEPT !.from = from])

------------------------------------------------------------------------------
(* lifespan. *)
Startup == /\ phase = "down" /\ \A r \in Requests : req[r] = NoRequest
           /\ engine' = TRUE /\ redisPool' = TRUE
           /\ phase' = "serving"
           /\ UNCHANGED <<hubVars, req>>

(* uvicorn resumes lifespan when it takes no more connections and those it  *)
(* has are served.                                                         *)
Idle == /\ \A r \in Requests : ~Running(r)
        /\ \A s \in Sockets : socket[s] \in {"new", "closed"}

DisposeEngine == /\ phase = "serving" /\ Idle
                 /\ engine' = FALSE /\ phase' = "disposing"
                 /\ UNCHANGED <<hubVars, redisPool, req>>

CloseRedis == /\ phase = "disposing"
              /\ redisPool' = FALSE /\ phase' = "stopped"
              /\ UNCHANGED <<hubVars, engine, req>>

------------------------------------------------------------------------------
(* The way in.  A request has the loop to itself from its arrival to its    *)
(* first await, the limiter's synchronous call of Redis included.           *)
Arrive(r, kind) ==
  /\ phase = "serving" /\ req[r] = NoRequest /\ loop = None
  /\ Update(r, [NoRequest EXCEPT !.kind = kind])
  /\ loop' = r
  /\ UNCHANGED <<hubVars, phase, engine, redisPool>>

Entering(r) == Running(r) /\ req[r].step = 0

(* 429, or the storage's exception, which slowapi does not handle. *)
Limit(r) ==
  /\ Entering(r) /\ RateLimited
  /\ \E from \in {"slowapi", "limiter_error"} : Respond(r, from)
  /\ UNCHANGED <<hubVars, phase, engine, redisPool>>

Enter(r, cred) ==
  /\ Entering(r)
  /\ IF Denied(req[r].kind, cred, Env) = 0 THEN Onward(r, req[r]) ELSE Respond(r, "router")
  /\ UNCHANGED <<hubVars, phase, engine, redisPool>>

(* An OPTIONS request of a browser; slowapi exempts what has no route.      *)
Preflight(r) ==
  /\ phase = "serving" /\ req[r] = NoRequest
  /\ Respond(r, "cors")
  /\ UNCHANGED <<hubVars, phase, engine, redisPool>>

(* match_ride.delay, analytics_stub.delay, retry_payment.apply_async: the   *)
(* broker is called synchronously.  The connection of the refresh is kept.  *)
Enqueue(r) ==
  /\ At(r, "enqueue") /\ loop = None
  /\ loop' = r
  /\ UNCHANGED <<hubVars, phase, engine, redisPool, req>>

Enqueued(r) ==
  /\ At(r, "enqueue")
  /\ Onward(r, req[r]) \/ Respond(r, "server_error")
  /\ UNCHANGED <<hubVars, phase, engine, redisPool>>

------------------------------------------------------------------------------
(* Connections.  A session takes one at its first statement and keeps it    *)
(* until it commits or is closed; statements after a commit take another.  *)
NeedsConnection(r) == (At(r, "load") \/ At(r, "refresh") \/ At(r, "ping_db")) /\ ~req[r].conn

Checkout(r) ==
  /\ NeedsConnection(r) /\ engine
  /\ Cardinality(InUse) < Pool
  /\ Update(r, [req[r] EXCEPT !.conn = TRUE])
  /\ UNCHANGED <<hubVars, phase, engine, redisPool>>

(* After 30 s in the pool's queue: sqlalchemy.exc.TimeoutError. *)
PoolTimeout(r) ==
  /\ NeedsConnection(r) /\ Cardinality(InUse) >= Pool /\ ~At(r, "ping_db")
  /\ Respond(r, "server_error")
  /\ UNCHANGED <<hubVars, phase, engine, redisPool>>

Query(r) ==
  /\ (At(r, "load") \/ At(r, "refresh")) /\ req[r].conn
  /\ Onward(r, req[r])
  /\ UNCHANGED <<hubVars, phase, engine, redisPool>>

(* HTTPException of the service (404, 409), or a replay by key. *)
Refuse(r) ==
  /\ At(r, "load") /\ req[r].conn
  /\ Respond(r, "router")
  /\ UNCHANGED <<hubVars, phase, engine, redisPool>>

Commit(r) ==
  /\ At(r, "commit")
  /\ Onward(r, [req[r] EXCEPT !.committed = TRUE, !.conn = FALSE])
  /\ UNCHANGED <<hubVars, phase, engine, redisPool>>

(* A store raises: 500, also after the commit. *)
StoreError(r) ==
  /\ \E await \in {"load", "commit", "refresh"} : At(r, await)
  /\ Respond(r, "server_error")
  /\ UNCHANGED <<hubVars, phase, engine, redisPool>>

------------------------------------------------------------------------------
(* Broadcasts; the connection of a refresh before them is kept. *)
Cast(r, await, c) ==
  /\ At(r, await)
  /\ \/ ~Casting(r) /\ CastBegin(r, c) /\ UNCHANGED req
     \/ CastStep(r) /\ UNCHANGED req
     \/ CastEnd(r) /\ Onward(r, req[r])
  /\ UNCHANGED <<phase, engine, redisPool>>

Broadcast(r) == Cast(r, "cast_ride", RideChannel) \/ Cast(r, "cast_driver", DriverChannel)

(* The last await is done. *)
Done(r) == Running(r) /\ req[r].step > Len(Awaits(req[r].kind))

Return(r) ==
  /\ Done(r) /\ req[r].kind # "health"
  /\ Respond(r, "router")
  /\ UNCHANGED <<hubVars, phase, engine, redisPool>>

------------------------------------------------------------------------------
(* health_overall: each check within wait_for(2 s), any exception caught. *)
PingDb(r) ==
  /\ At(r, "ping_db") /\ req[r].conn
  /\ Onward(r, req[r])
  /\ UNCHANGED <<hubVars, phase, engine, redisPool>>

PingRedis(r) ==
  /\ At(r, "ping_redis") /\ redisPool
  /\ Onward(r, req[r])
  /\ UNCHANGED <<hubVars, phase, engine, redisPool>>

(* Seeded fault: the database is pinged without a timeout. *)
TimedRedisOnly(r) == At(r, "ping_redis")

Timed(r) == At(r, "ping_db") \/ At(r, "ping_redis")

CheckFails(r) ==
  /\ Timed(r)
  /\ Onward(r, req[r])
  /\ UNCHANGED <<hubVars, phase, engine, redisPool>>

Report(r) ==
  /\ Done(r) /\ req[r].kind = "health"
  /\ Respond(r, "router")
  /\ UNCHANGED <<hubVars, phase, engine, redisPool>>

------------------------------------------------------------------------------
HealthStep(r) == PingDb(r) \/ PingRedis(r) \/ CheckFails(r) \/ Report(r)

RequestStep(r) ==
  Checkout(r) \/ Query(r) \/ Commit(r) \/ Broadcast(r) \/ Return(r) \/ HealthStep(r)

(* What the event loop runs, between two synchronous calls. *)
OnLoop(step) == loop = None /\ step /\ UNCHANGED loop

(* A synchronous call returns or raises. *)
SyncReturns(r) ==
  /\ loop = r /\ loop' = None
  /\ Limit(r) \/ (\E cred \in Credentials : Enter(r, cred)) \/ Enqueued(r)

Next ==
  \/ OnLoop(Startup \/ DisposeEngine \/ CloseRedis)
  \/ \E r \in Requests :
       \/ \E kind \in Asked[r] : Arrive(r, kind)
       \/ Enqueue(r) \/ SyncReturns(r)
       \/ OnLoop(Preflight(r) \/ RequestStep(r) \/ PoolTimeout(r) \/ Refuse(r) \/ StoreError(r))
  \/ \E s \in Sockets :
       \/ phase = "serving" /\ OnLoop(ConnectStep(s) /\ UNCHANGED <<phase, engine, redisPool, req>>)
       \/ OnLoop(SocketStep(s) /\ UNCHANGED <<phase, engine, redisPool, req>>)
       \/ ClientStep(s) /\ UNCHANGED procVars

Spec == Init /\ [][Next]_vars

(* The loop runs its callbacks in the order they became ready, so a timer   *)
(* or an answer of a probe is served when the loop comes free.  That it     *)
(* does come free is not assumed here.                                      *)
FairSpec == Spec /\ \A r \in Requests : SF_vars(OnLoop(HealthStep(r)))

------------------------------------------------------------------------------
TypeOK ==
  /\ client \in [Sockets -> {"away", "reading", "stalled", "gone"}]
  /\ socket \in [Sockets -> {"new", "accepting", "open", "closed"}]
  /\ channel \in [Sockets -> Channels \cup {None}]
  /\ keys \subseteq Channels
  /\ members \in [Channels -> SUBSET Sockets]
  /\ cast \in [Requests -> [channel: Channels \cup {None},
                            todo: SUBSET Sockets, now: Sockets \cup {None},
                            dead: SUBSET Sockets, got: SUBSET Sockets]]
  /\ phase \in {"down", "serving", "disposing", "stopped"}
  /\ engine \in BOOLEAN /\ redisPool \in BOOLEAN /\ loop \in Requests \cup {None}
  /\ req \in [Requests ->
       [kind: Kinds \cup {None}, step: 0..6, conn: BOOLEAN, committed: BOOLEAN,
        from: Answers \cup {None}]]

(* The hub leaks nothing and loses nobody, whatever joins, leaves and       *)
(* evictions of several broadcasts meet: no empty channel stays, a          *)
(* registered socket has a handler that will remove it, and a subscriber    *)
(* who is still there is still registered.                                  *)
Subscribed ==
  /\ \A c \in Channels : c \in keys <=> members[c] # {}
  /\ \A c \in Channels : \A s \in members[c] : socket[s] = "open" /\ channel[s] = c
  /\ \A s \in Sockets : socket[s] = "open" /\ client[s] # "gone" => s \in members[channel[s]]

(* A broadcast passes no subscriber of its snapshot over: each has got the   *)
(* message or is gone, however many others stalled or broke in between.     *)
Delivered ==
  [][\A r \in Requests : \A s \in cast[r].todo \ cast'[r].todo :
       client[s] = "gone" \/ s \in cast'[r].got]_vars

(* Subscribers hear of committed changes only: who asks for the ride on a   *)
(* message finds it in the database.                                        *)
NewsIsCommitted ==
  \A r \in Requests : cast[r].got # {} => req[r].committed

(* A request that has committed a change is answered with its id, in the    *)
(* header or in the error envelope, whatever fails after the commit (the    *)
(* refresh, the broker).  Answers without one, of the limiter and of CORS,  *)
(* are given before anything is changed.                                    *)
ChangeTraceable ==
  [][\A r \in Requests : LET from == req'[r].from IN
       req[r].committed /\ Running(r) /\ ~Running(r)' => HasHeader(from) \/ HasEnvelopeId(from)]_vars

(* Synchronous calls return: Redis, as the limiter's store and as the       *)
(* broker, answers or refuses.  No timeout in this code bounds them, so     *)
(* this is a premise wherever it is needed.                                 *)
SyncEnds == \A r \in Requests : WF_vars(SyncReturns(r))

(* The probe answers although nothing else does, as long as synchronous     *)
(* calls return: with the database silent, the pool exhausted by requests   *)
(* that broadcast to clients that do not read, and no client ever leaving.  *)
HealthAnswers ==
  SyncEnds => \A r \in Requests : Running(r) /\ req[r].kind = "health" ~> ~Running(r)

(* Every request is answered, without any timeout of the pool, when         *)
(* synchronous calls return, the event loop runs every request, the pool    *)
(* serves in turn, and a client that does not read is given up in the end   *)
(* (uvicorn's ping timeout): no connection is lost, and the hub's lock      *)
(* keeps no one waiting.                                                    *)
RunOn == /\ SyncEnds
         /\ \A r \in Requests : SF_vars(OnLoop(RequestStep(r))) /\ WF_vars(Enqueue(r))
         /\ \A s \in Sockets : WF_vars(client[s] = "stalled" /\ Hangup(s) /\ UNCHANGED procVars)
RequestsEnd == RunOn => \A r \in Requests : Running(r) ~> ~Running(r)
==============================================================================
