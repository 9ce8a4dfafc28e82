-------------------------- MODULE ProcessTheorems ----------------------------
(***************************************************************************)
(* Proofs about ApiProcess, for any number of requests, sockets, channels   *)
(* and pooled connections.                                                 *)
(***************************************************************************)
EXTENDS ApiProcess, TLAPS

(* A socket with a handler has a channel, and a broadcast takes nobody for   *)
(* dead who is still there.                                                 *)
EndsKnown ==
  \A s \in Sockets :
    /\ socket[s] \in {"accepting", "open"} => channel[s] \in Channels
    /\ \A r \in Requests : s \in cast[r].dead => client[s] = "gone"

(* Only a request that is at one of its broadcasts has one under way. *)
AtCast(r) == At(r, "cast_ride") \/ At(r, "cast_driver")
CastsKnown == \A r \in Requests : Casting(r) => AtCast(r) /\ cast[r].channel \in Channels

(* The second await of a handler that writes is its commit; before its      *)
(* first it has committed nothing.                                          *)
Writing == {"create", "accept", "start", "end", "decline"}
Settled(row) == /\ row.kind \in Writing /\ row.step > 2 => row.committed
                /\ row.step = 0 => ~row.committed
CommitKnown == \A r \in Requests : Settled(req[r])

HubInv == Subscribed /\ EndsKnown
ProcInv == TypeOK /\ HubInv /\ CastsKnown /\ CommitKnown

------------------------------------------------------------------------------
(* The awaits of the handlers, by position. *)
LEMMA AwaitsBounded ==
  ASSUME NEW kind \in Kinds
  PROVE  DOMAIN Awaits(kind) \subseteq 1..5
<1> USE DEF Kinds
<1>1. CASE kind \in {"create", "accept"}   BY <1>1 DEF Awaits
<1>2. CASE kind \in {"start", "decline"}   BY <1>2 DEF Awaits
<1>3. CASE kind = "end"                    BY <1>3 DEF Awaits, EndAwaits
<1>4. CASE kind \in {"reject", "health"}   BY <1>4 DEF Awaits
<1>5. CASE kind = "token"                  BY <1>5 DEF Awaits
<1> QED BY <1>1, <1>2, <1>3, <1>4, <1>5

LEMMA AwaitsInOrder ==
  ASSUME NEW kind \in Kinds, NEW i \in DOMAIN Awaits(kind)
  PROVE  /\ kind \in Writing => (Awaits(kind)[i] = "commit" <=> i = 2)
         /\ kind \notin Writing => Awaits(kind)[i] \notin {"load", "commit", "refresh", "cast_ride", "cast_driver"}
         /\ kind \in Writing => Awaits(kind)[i] \notin {"ping_db", "ping_redis"}
         /\ Awaits(kind)[i] \in {"cast_ride", "cast_driver"} => i > 2
<1> USE DEF Kinds, Writing
<1>1. CASE kind \in {"create", "accept"}   BY <1>1 DEF Awaits
<1>2. CASE kind \in {"start", "decline"}   BY <1>2 DEF Awaits
<1>3. CASE kind = "end"                    BY <1>3 DEF Awaits, EndAwaits
<1>4. CASE kind \in {"reject", "health"}   BY <1>4 DEF Awaits
<1>5. CASE kind = "token"                  BY <1>5 DEF Awaits
<1> QED BY <1>1, <1>2, <1>3, <1>4, <1>5

LEMMA ProcessInit == Init => ProcInv
<1> SUFFICES ASSUME Init PROVE ProcInv
  OBVIOUS
<1> USE DEF Init, HubInit
<1>1. TypeOK
  <2>1. NoCast \in [channel: Channels \cup {None}, todo: SUBSET Sockets, now: Sockets \cup {None},
                   dead: SUBSET Sockets, got: SUBSET Sockets]
    BY DEF NoCast
  <2>2. NoRequest \in [kind: Kinds \cup {None}, step: 0..6, conn: BOOLEAN, committed: BOOLEAN,
                      from: Answers \cup {None}]
    BY DEF NoRequest
  <2> QED BY <2>1, <2>2 DEF TypeOK
<1>2. HubInv
  BY DEF HubInv, Subscribed, EndsKnown, NoCast
<1>3. CastsKnown /\ CommitKnown
  BY DEF CastsKnown, Casting, CommitKnown, Settled, Writing, NoRequest
<1> QED BY <1>1, <1>2, <1>3 DEF ProcInv

------------------------------------------------------------------------------
(* The hub's own types. *)
CastRows == [channel: Channels \cup {None}, todo: SUBSET Sockets, now: Sockets \cup {None},
             dead: SUBSET Sockets, got: SUBSET Sockets]

HubTypes ==
  /\ client \in [Sockets -> {"away", "reading", "stalled", "gone"}]
  /\ socket \in [Sockets -> {"new", "accepting", "open", "closed"}]
  /\ channel \in [Sockets -> Channels \cup {None}]
  /\ keys \subseteq Channels
  /\ members \in [Channels -> SUBSET Sockets]
  /\ cast \in [Requests -> CastRows]

(* Removing a socket that nobody is at the other end of, or whose handler   *)
(* ends.                                                                    *)
LEMMA DiscardKeeps ==
  ASSUME HubTypes, Subscribed, NEW c \in Channels, NEW s \in Sockets,
         Discard(c, s), UNCHANGED client,
         \/ client[s] = "gone" /\ UNCHANGED <<socket, channel>>
         \/ /\ channel[s] = c
            /\ socket' = [socket EXCEPT ![s] = "closed"]
            /\ channel' = [channel EXCEPT ![s] = None]
  PROVE  Subscribed' /\ keys' \subseteq Channels /\ members' \in [Channels -> SUBSET Sockets]
<1> USE DEF Discard, HubTypes, Subscribed
<1>1. keys' \subseteq Channels /\ members' \in [Channels -> SUBSET Sockets]
  OBVIOUS
<1>2. ASSUME NEW e \in Channels PROVE (e \in keys <=> members[e] # {})'
  <2>1. CASE e = c
    BY <2>1
  <2>2. CASE e # c
    BY <2>2
  <2> QED BY <2>1, <2>2
<1>3. ASSUME NEW e \in Channels, NEW x \in members'[e]
      PROVE  socket'[x] = "open" /\ channel'[x] = e
  <2>1. x \in members[e] /\ x \in Sockets /\ (e = c => x # s)
    BY <1>3
  <2>2. socket[x] = "open" /\ channel[x] = e
    BY <2>1
  <2> QED BY <2>1, <2>2
<1>4. ASSUME NEW x \in Sockets, socket'[x] = "open", client'[x] # "gone"
      PROVE  x \in members'[channel'[x]]
  <2>1. x # s
    BY <1>4
  <2>2. socket[x] = "open" /\ channel'[x] = channel[x] /\ x \in members[channel[x]]
    BY <2>1, <1>4
  <2>3. members'[channel[x]] = members[channel[x]] \/ members'[channel[x]] = members[channel[x]] \ {s}
    OBVIOUS
  <2> QED BY <2>1, <2>2, <2>3
<1> QED BY <1>1, <1>2, <1>3, <1>4

(* A step of a socket or of its far end. *)
LEMMA SocketSteps ==
  ASSUME HubTypes, HubInv, NEW s \in Sockets, ConnectStep(s) \/ SocketStep(s) \/ ClientStep(s)
  PROVE  HubTypes' /\ HubInv' /\ UNCHANGED cast
<1> USE DEF HubInv, EndsKnown, HubTypes
<1>1. CASE Stall(s) \/ Resume(s) \/ Hangup(s)
  BY <1>1 DEF Stall, Resume, Hangup, Subscribed
<1>2. CASE WsRefuse(s)
  BY <1>2 DEF WsRefuse, Subscribed
<1>3. ASSUME NEW c \in Channels, WsAccept(s, c) PROVE HubTypes' /\ HubInv' /\ UNCHANGED cast
  BY <1>3 DEF WsAccept, Subscribed
<1>4. CASE WsJoin(s)
  <2>1. channel[s] \in Channels /\ UNCHANGED cast
    BY <1>4 DEF WsJoin
  <2>2. HubTypes' /\ EndsKnown'
    BY <1>4, <2>1 DEF WsJoin
  <2>3. ASSUME NEW e \in Channels PROVE (e \in keys <=> members[e] # {})'
    BY <1>4, <2>1 DEF WsJoin, Subscribed
  <2>4. ASSUME NEW e \in Channels, NEW x \in members'[e]
        PROVE  socket'[x] = "open" /\ channel'[x] = e
    BY <1>4, <2>1, <2>4 DEF WsJoin, Subscribed
  <2>5. ASSUME NEW x \in Sockets, socket'[x] = "open", client'[x] # "gone"
        PROVE  x \in members'[channel'[x]]
    BY <1>4, <2>1, <2>5 DEF WsJoin, Subscribed
  <2> QED BY <2>1, <2>2, <2>3, <2>4, <2>5 DEF Subscribed
<1>5. CASE WsAcceptFails(s)
  BY <1>5 DEF WsAcceptFails, Subscribed
<1>6. CASE WsLeave(s)
  <2>1. channel[s] \in Channels /\ Discard(channel[s], s)
        /\ UNCHANGED <<client, cast>>
        /\ socket' = [socket EXCEPT ![s] = "closed"] /\ channel' = [channel EXCEPT ![s] = None]
    BY <1>6 DEF WsLeave
  <2>2. Subscribed' /\ keys' \subseteq Channels /\ members' \in [Channels -> SUBSET Sockets]
    BY <2>1, DiscardKeeps
  <2> QED BY <2>1, <2>2
<1> QED BY <1>1, <1>2, <1>3, <1>4, <1>5, <1>6 DEF ConnectStep, SocketStep, ClientStep

(* A step of a broadcast. *)
LEMMA CastSteps ==
  ASSUME HubTypes, HubInv, NEW r \in Requests, Casting(r), cast[r].channel \in Channels,
         CastStep(r) \/ CastEnd(r)
  PROVE  /\ HubTypes' /\ HubInv'
         /\ \A q \in Requests : q # r => cast'[q] = cast[q]
         /\ cast'[r].channel = cast[r].channel \/ CastEnd(r)
         /\ CastEnd(r) => cast'[r] = NoCast
<1> USE DEF HubInv, EndsKnown, HubTypes
<1>1. CASE CastEnd(r)
  BY <1>1 DEF CastEnd, NoCast, CastRows, Subscribed
<1>2. ASSUME NEW s \in Sockets, CastSend(r, s) \/ CastWait(r, s) \/ CastLost(r, s) \/ CastDead(r, s)
      PROVE  HubTypes' /\ HubInv' /\ (\A q \in Requests : q # r => cast'[q] = cast[q])
             /\ cast'[r].channel = cast[r].channel
  <2>1. /\ cast' = [cast EXCEPT ![r] = cast'[r]] /\ cast'[r] \in CastRows
        /\ cast'[r].channel = cast[r].channel
        /\ \A x \in cast'[r].dead : x \in cast[r].dead \/ client[x] = "gone"
    <3>1. cast[r] \in CastRows
      BY DEF CastRows
    <3>2. CASE CastSend(r, s)
      BY <3>1, <3>2 DEF CastSend, CastRows
    <3>3. CASE CastWait(r, s)
      BY <3>1, <3>3 DEF CastWait, CastRows
    <3>4. CASE CastLost(r, s)
      BY <3>1, <3>4 DEF CastLost, CastRows
    <3>5. CASE CastDead(r, s)
      BY <3>1, <3>5 DEF CastDead, StillToSend, CastRows
    <3> QED BY <1>2, <3>2, <3>3, <3>4, <3>5
  <2>2. UNCHANGED <<client, socket, channel, keys, members>>
    BY <1>2 DEF CastSend, CastWait, CastLost, CastDead
  <2>3. HubTypes'
    BY <2>1, <2>2 DEF CastRows
  <2>4. Subscribed'
    BY <2>2 DEF Subscribed
  <2> QED BY <2>1, <2>2, <2>3, <2>4
<1>3. ASSUME NEW s \in Sockets, CastEvict(r, s)
      PROVE  HubTypes' /\ HubInv' /\ (\A q \in Requests : q # r => cast'[q] = cast[q])
             /\ cast'[r].channel = cast[r].channel
  <2>1. Discard(cast[r].channel, s) /\ client[s] = "gone" /\ UNCHANGED <<client, socket, channel>>
    BY <1>3 DEF CastEvict
  <2>2. Subscribed' /\ keys' \subseteq Channels /\ members' \in [Channels -> SUBSET Sockets]
    BY <2>1, DiscardKeeps
  <2>3. /\ cast' = [cast EXCEPT ![r] = cast'[r]] /\ cast'[r] \in CastRows
        /\ cast'[r].channel = cast[r].channel /\ cast'[r].dead \subseteq cast[r].dead
    BY <1>3 DEF CastEvict, CastRows
  <2>4. HubTypes'
    BY <2>1, <2>2, <2>3 DEF CastRows
  <2> QED BY <2>1, <2>2, <2>3, <2>4
<1>4. CASE CastStep(r) /\ ~CastEnd(r)
  BY <1>2, <1>3, <1>4 DEF CastStep
<1> QED BY <1>1, <1>4

------------------------------------------------------------------------------
(* The requests' own types. *)
RequestRows == [kind: Kinds \cup {None}, step: 0..6, conn: BOOLEAN, committed: BOOLEAN,
                from: Answers \cup {None}]

LEMMA Types ==
  TypeOK <=> /\ HubTypes
             /\ phase \in {"down", "serving", "disposing", "stopped"}
             /\ engine \in BOOLEAN /\ redisPool \in BOOLEAN /\ loop \in Requests \cup {None}
             /\ req \in [Requests -> RequestRows]
BY DEF TypeOK, HubTypes, CastRows, RequestRows

(* Where a request is between two awaits. *)
LEMMA AtFacts ==
  ASSUME ProcInv, NEW r \in Requests, NEW await, At(r, await)
  PROVE  /\ req[r] \in RequestRows /\ req[r].kind \in Kinds /\ req[r].step \in 1..5
         /\ await \in {"load", "commit", "refresh", "cast_ride", "cast_driver"} => req[r].kind \in Writing
         /\ await \in {"ping_db", "ping_redis"} => req[r].kind \notin Writing
         /\ await \in {"load", "refresh", "cast_ride", "cast_driver"} => req[r].step # 2
         /\ await # "commit" /\ req[r].kind \in Writing => req[r].step # 2
         /\ await \in {"cast_ride", "cast_driver"} => req[r].step > 2
         /\ await \notin {"cast_ride", "cast_driver"} => ~AtCast(r)
<1>1. req[r] \in RequestRows /\ req[r].kind \in Kinds
  BY Types DEF ProcInv, RequestRows, At, Running
<1>2. req[r].step \in DOMAIN Awaits(req[r].kind) /\ Awaits(req[r].kind)[req[r].step] = await
  BY DEF At
<1>3. req[r].step \in 1..5
  BY <1>1, <1>2, AwaitsBounded
<1>4. await \notin {"cast_ride", "cast_driver"} => ~AtCast(r)
  BY <1>2 DEF AtCast, At
<1> HIDE DEF Writing
<1> QED BY <1>1, <1>2, <1>3, <1>4, AwaitsInOrder

(* A step of a request that is at none of its broadcasts. *)
LEMMA RequestKeeps ==
  ASSUME ProcInv, NEW r \in Requests, NEW row \in RequestRows, Update(r, row), ~AtCast(r),
         Settled(row), loop' \in Requests \cup {None}, UNCHANGED <<hubVars, phase, engine, redisPool>>
  PROVE  ProcInv'
<1>1. TypeOK'
  <2>1. HubTypes'
    BY Types DEF ProcInv, HubTypes, hubVars
  <2>2. req' \in [Requests -> RequestRows]
    BY Types DEF ProcInv, Update
  <2> QED BY <2>1, <2>2, Types DEF ProcInv, TypeOK, HubTypes, CastRows, RequestRows
<1>2. HubInv'
  BY DEF ProcInv, HubInv, Subscribed, EndsKnown, hubVars
<1>3. CastsKnown'
  <2>1. ~Casting(r)
    BY DEF ProcInv, CastsKnown
  <2>2. \A q \in Requests : q # r => req'[q] = req[q]
    BY Types DEF ProcInv, Update
  <2> QED BY <2>1, <2>2 DEF ProcInv, CastsKnown, Casting, AtCast, At, Running, hubVars
<1>4. CommitKnown'
  BY Types DEF ProcInv, CommitKnown, Update
<1> QED BY <1>1, <1>2, <1>3, <1>4 DEF ProcInv

LEMMA NoRequestType == NoRequest \in RequestRows
BY DEF NoRequest, RequestRows

LEMMA ResponseKeeps ==
  ASSUME ProcInv, NEW r \in Requests, NEW from \in Answers,
         Respond(r, from), ~AtCast(r), loop' \in Requests \cup {None},
         UNCHANGED <<hubVars, phase, engine, redisPool>>
  PROVE  ProcInv'
<1> DEFINE row == [NoRequest EXCEPT !.from = from]
<1>1. row \in RequestRows
  BY NoRequestType DEF RequestRows
<1>2. Settled(row)
  BY DEF NoRequest, Settled
<1>3. Update(r, row)
  BY DEF Respond
<1> HIDE DEF row
<1> QED BY <1>1, <1>2, <1>3, RequestKeeps

(* A step of a request that is at one of its broadcasts. *)
LEMMA BroadcastKeeps ==
  ASSUME ProcInv, NEW r \in Requests, Broadcast(r), UNCHANGED loop
  PROVE  ProcInv'
<1>1. PICK await \in {"cast_ride", "cast_driver"}, c \in Channels : Cast(r, await, c)
  BY ProcessAssumption DEF Broadcast
<1>2. /\ req[r] \in RequestRows /\ req[r].kind \in Writing /\ req[r].step \in 3..5
      /\ req[r].committed /\ AtCast(r)
  BY <1>1, AtFacts DEF Cast, AtCast, ProcInv, CommitKnown, Settled
<1>3. UNCHANGED <<phase, engine, redisPool>>
  BY <1>1 DEF Cast
<1>4. CASE CastBegin(r, c) /\ UNCHANGED req
  <2>1. /\ cast' = [cast EXCEPT ![r] = cast'[r]] /\ cast'[r] \in CastRows
        /\ cast'[r].channel = c /\ cast'[r].dead = {}
        /\ UNCHANGED <<client, socket, channel, keys, members>>
    BY <1>4, Types DEF CastBegin, CastRows, HubTypes, ProcInv
  <2>2. HubTypes'
    BY <2>1, Types DEF ProcInv, HubTypes
  <2>3. HubInv'
    BY <2>1, Types DEF ProcInv, HubTypes, HubInv, Subscribed, EndsKnown
  <2>4. CastsKnown' /\ CommitKnown'
    BY <1>2, <1>4, <2>1, Types
    DEF ProcInv, HubTypes, CastsKnown, CommitKnown, Casting, AtCast, At, Running
  <2> QED BY <1>3, <1>4, <2>2, <2>3, <2>4 DEF ProcInv, TypeOK, HubTypes, CastRows
<1>5. CASE CastStep(r) /\ UNCHANGED req
  <2>1. Casting(r)
    BY <1>5 DEF CastStep, CastSend, CastWait, CastDead, CastLost, CastEvict, MaySend, Casting, NoCast
  <2>2. cast[r].channel \in Channels /\ HubTypes /\ HubInv
    BY <2>1, Types DEF ProcInv, CastsKnown
  <2>3. /\ HubTypes' /\ HubInv' /\ \A q \in Requests : q # r => cast'[q] = cast[q]
        /\ cast'[r].channel = cast[r].channel \/ cast'[r] = NoCast
    BY <1>5, <2>1, <2>2, CastSteps
  <2>4. CastsKnown' /\ CommitKnown'
    BY <1>2, <1>5, <2>2, <2>3
    DEF ProcInv, CastsKnown, CommitKnown, Casting, AtCast, At, Running
  <2> QED BY <1>3, <1>5, <2>3, <2>4 DEF ProcInv, TypeOK, HubTypes, CastRows
<1>6. CASE CastEnd(r) /\ Onward(r, req[r])
  <2>1. Casting(r)
    BY <1>6 DEF CastEnd, CastReturns
  <2>2. cast[r].channel \in Channels /\ HubTypes /\ HubInv
    BY <2>1, Types DEF ProcInv, CastsKnown
  <2>3. HubTypes' /\ HubInv' /\ (\A q \in Requests : q # r => cast'[q] = cast[q]) /\ cast'[r] = NoCast
    BY <1>6, <2>1, <2>2, CastSteps
  <2>4. /\ req' = [req EXCEPT ![r] = req'[r]] /\ req'[r] \in RequestRows
        /\ req'[r].committed /\ req'[r].step # 0
    BY <1>2, <1>6, Types DEF ProcInv, Onward, Update, RequestRows
  <2>5. req' \in [Requests -> RequestRows] /\ \A q \in Requests : q # r => req'[q] = req[q]
    BY <2>4, Types DEF ProcInv
  <2>6. CastsKnown' /\ CommitKnown'
    BY <2>3, <2>4, <2>5 DEF ProcInv, CastsKnown, CommitKnown, Settled, Casting, AtCast, At, Running
  <2> QED BY <1>3, <2>3, <2>5, <2>6 DEF ProcInv, TypeOK, HubTypes, CastRows, RequestRows
<1> QED BY <1>1, <1>4, <1>5, <1>6 DEF Cast

(* The other steps of a request. *)
LEMMA HandlerKeeps ==
  ASSUME ProcInv, NEW r \in Requests,
         \/ Checkout(r) \/ Query(r) \/ Commit(r) \/ PingDb(r) \/ PingRedis(r) \/ CheckFails(r)
         \/ Return(r) \/ Report(r) \/ PoolTimeout(r) \/ Refuse(r) \/ StoreError(r) \/ Preflight(r)
         \/ Limit(r) \/ (\E cred \in Credentials : Enter(r, cred)) \/ Enqueued(r)
         \/ \E kind \in Asked[r] : Arrive(r, kind),
         loop' \in Requests \cup {None}
  PROVE  ProcInv'
<1>0. req[r] \in RequestRows
  BY Types DEF ProcInv
<1>1. CASE Checkout(r)
  <2>1. PICK await \in {"load", "refresh", "ping_db"} : At(r, await)
    BY <1>1 DEF Checkout, NeedsConnection
  <2>2. ~AtCast(r)
    BY <2>1, AtFacts
  <2> DEFINE row == [req[r] EXCEPT !.conn = TRUE]
  <2>3. row \in RequestRows /\ row.kind = req[r].kind /\ row.step = req[r].step /\ row.committed = req[r].committed
    BY <1>0 DEF RequestRows
  <2>4. Settled(row)
    BY <2>3 DEF ProcInv, CommitKnown, Settled
  <2>5. Update(r, row) /\ UNCHANGED <<hubVars, phase, engine, redisPool>>
    BY <1>1 DEF Checkout
  <2> HIDE DEF row
  <2> QED BY <2>2, <2>3, <2>4, <2>5, RequestKeeps
<1>2. CASE Query(r) \/ PingDb(r) \/ PingRedis(r) \/ CheckFails(r) \/ (Enqueued(r) /\ Onward(r, req[r]))
  <2>1. PICK await \in {"load", "refresh", "ping_db", "ping_redis", "enqueue"} : At(r, await)
    BY <1>2 DEF Query, PingDb, PingRedis, CheckFails, Timed, Enqueued
  <2>2. /\ ~AtCast(r) /\ req[r].step \in 1..5
        /\ req[r].step # 2 \/ req[r].kind \notin Writing
    BY <2>1, AtFacts
  <2> DEFINE row == [req[r] EXCEPT !.step = @ + 1]
  <2>3. /\ row \in RequestRows /\ row.kind = req[r].kind /\ row.step = req[r].step + 1
        /\ row.committed = req[r].committed
    BY <1>0, <2>2 DEF RequestRows
  <2>4. Settled(row)
    BY <2>2, <2>3 DEF ProcInv, CommitKnown, Settled
  <2>5. Update(r, row) /\ UNCHANGED <<hubVars, phase, engine, redisPool>>
    BY <1>2 DEF Query, PingDb, PingRedis, CheckFails, Enqueued, Onward
  <2> HIDE DEF row
  <2> QED BY <2>2, <2>3, <2>4, <2>5, RequestKeeps
<1>3. CASE Commit(r)
  <2>1. ~AtCast(r) /\ req[r].step \in 1..5
    BY <1>3, AtFacts DEF Commit
  <2> DEFINE done == [req[r] EXCEPT !.committed = TRUE, !.conn = FALSE]
             row  == [done EXCEPT !.step = @ + 1]
  <2>2. done \in RequestRows /\ done.committed /\ done.step \in 1..5
    BY <1>0, <2>1 DEF RequestRows
  <2>3. row \in RequestRows /\ Settled(row)
    <3> HIDE DEF done
    <3> QED BY <2>2 DEF RequestRows, Settled
  <2>4. Update(r, row) /\ UNCHANGED <<hubVars, phase, engine, redisPool>>
    BY <1>3 DEF Commit, Onward
  <2> HIDE DEF row
  <2> QED BY <2>1, <2>3, <2>4, RequestKeeps
<1>4. CASE Return(r) \/ Report(r)
  BY <1>4, ResponseKeeps DEF Return, Report, Done, AtCast, At, Answers
<1>5. CASE PoolTimeout(r) \/ Refuse(r) \/ StoreError(r) \/ (Enqueued(r) /\ Respond(r, "server_error"))
  <2>1. \E await \in {"load", "commit", "refresh", "enqueue"} : At(r, await)
    BY <1>5 DEF PoolTimeout, Refuse, StoreError, NeedsConnection, Enqueued
  <2>2. ~AtCast(r)
    BY <2>1, AtFacts
  <2> QED BY <1>5, <2>2, ResponseKeeps DEF PoolTimeout, Refuse, StoreError, Enqueued, Answers
<1>6. ASSUME NEW kind \in Asked[r], Arrive(r, kind) PROVE ProcInv'
  <2> DEFINE row == [NoRequest EXCEPT !.kind = kind]
  <2>1. kind \in Kinds /\ ~AtCast(r) /\ UNCHANGED <<hubVars, phase, engine, redisPool>>
    BY <1>6, ProcessAssumption DEF Arrive, AtCast, At, Running, NoRequest
  <2>2. row \in RequestRows
    BY <2>1, NoRequestType DEF RequestRows
  <2>4. Settled(row)
    BY DEF NoRequest, Settled
  <2>3. Update(r, row)
    BY <1>6 DEF Arrive
  <2> HIDE DEF row
  <2> QED BY <2>1, <2>2, <2>3, <2>4, RequestKeeps
<1>7. CASE Limit(r) \/ Preflight(r)
  <2>1. ~AtCast(r) /\ UNCHANGED <<hubVars, phase, engine, redisPool>>
    <3>1. req[r].step = 0
      BY <1>7 DEF Limit, Entering, Preflight, NoRequest
    <3>2. AtCast(r) => req[r].step > 2
      BY AtFacts DEF AtCast
    <3> QED BY <1>7, <3>1, <3>2 DEF Limit, Preflight
  <2> QED BY <1>7, <2>1, ResponseKeeps DEF Limit, Preflight, Answers
<1>8. ASSUME NEW cred \in Credentials, Enter(r, cred) PROVE ProcInv'
  <2>1. ~AtCast(r) /\ req[r].step = 0 /\ UNCHANGED <<hubVars, phase, engine, redisPool>>
    <3>1. req[r].step = 0
      BY <1>8 DEF Enter, Entering
    <3>2. AtCast(r) => req[r].step > 2
      BY AtFacts DEF AtCast
    <3> QED BY <1>8, <3>1, <3>2 DEF Enter
  <2>2. CASE Onward(r, req[r])
    <3> DEFINE row == [req[r] EXCEPT !.step = @ + 1]
    <3>1. row \in RequestRows /\ Settled(row)
      BY <1>0, <2>1 DEF RequestRows, Settled
    <3>2. Update(r, row)
      BY <2>2 DEF Onward
    <3> HIDE DEF row
    <3> QED BY <2>1, <3>1, <3>2, RequestKeeps
  <2> QED BY <1>8, <2>1, <2>2, ResponseKeeps DEF Enter, Answers
<1>9. Enqueued(r) => Onward(r, req[r]) \/ Respond(r, "server_error")
  BY DEF Enqueued
<1> QED BY <1>1, <1>2, <1>3, <1>4, <1>5, <1>6, <1>7, <1>8, <1>9

(* Every step keeps the invariant. *)
LEMMA ProcessStep == ProcInv /\ [Next]_vars => ProcInv'
<1> SUFFICES ASSUME ProcInv, [Next]_vars PROVE ProcInv'
  OBVIOUS
<1>0. loop \in Requests \cup {None}
  BY DEF ProcInv, TypeOK
<1>1. ASSUME Startup \/ DisposeEngine \/ CloseRedis, UNCHANGED loop PROVE ProcInv'
  <2>1. UNCHANGED <<hubVars, req>> /\ TypeOK'
    BY <1>1 DEF Startup, DisposeEngine, CloseRedis, ProcInv, TypeOK, hubVars
  <2> QED BY <2>1 DEF ProcInv, HubInv, Subscribed, EndsKnown, CastsKnown, CommitKnown,
                      Casting, AtCast, At, Running, hubVars
<1>2. ASSUME NEW s \in Sockets, ConnectStep(s) \/ SocketStep(s) \/ ClientStep(s), UNCHANGED procVars
      PROVE  ProcInv'
  <2>1. HubTypes' /\ HubInv' /\ UNCHANGED cast
    BY <1>2, SocketSteps, Types DEF ProcInv
  <2>2. TypeOK'
    BY <1>2, <2>1 DEF ProcInv, TypeOK, HubTypes, CastRows, procVars
  <2> QED BY <1>2, <2>1, <2>2
          DEF ProcInv, CastsKnown, CommitKnown, Casting, AtCast, At, Running, procVars
<1>3. ASSUME UNCHANGED vars \/ (\E r \in Requests : Enqueue(r)) PROVE ProcInv'
  <2>1. UNCHANGED <<hubVars, phase, engine, redisPool, req>> /\ loop' \in Requests \cup {None}
    BY <1>0, <1>3 DEF Enqueue, vars, procVars
  <2>2. TypeOK'
    BY <2>1 DEF ProcInv, TypeOK, hubVars
  <2> QED BY <2>1, <2>2 DEF hubVars, ProcInv, HubInv, Subscribed, EndsKnown, CastsKnown,
                            CommitKnown, Casting, AtCast, At, Running
<1>4. ASSUME NEW r \in Requests,
             \/ \E kind \in Asked[r] : Arrive(r, kind)
             \/ SyncReturns(r)
             \/ OnLoop(Preflight(r) \/ RequestStep(r) \/ PoolTimeout(r) \/ Refuse(r) \/ StoreError(r))
      PROVE  ProcInv'
  <2>1. loop' \in Requests \cup {None}
    BY <1>0, <1>4 DEF Arrive, SyncReturns, OnLoop
  <2>2. CASE Broadcast(r) /\ UNCHANGED loop
    BY <2>2, BroadcastKeeps
  <2> QED BY <1>4, <2>1, <2>2, HandlerKeeps DEF SyncReturns, OnLoop, RequestStep, HealthStep
<1>5. ASSUME NEW s \in Sockets,
             \/ OnLoop(ConnectStep(s) /\ UNCHANGED <<phase, engine, redisPool, req>>)
             \/ OnLoop(SocketStep(s) /\ UNCHANGED <<phase, engine, redisPool, req>>)
             \/ ClientStep(s) /\ UNCHANGED procVars
      PROVE  ProcInv'
  BY <1>2, <1>5 DEF OnLoop, procVars
<1> QED BY <1>1, <1>3, <1>4, <1>5 DEF Next, OnLoop

LEMMA ProcessInvariant == Spec => []ProcInv
BY ProcessInit, ProcessStep, PTL DEF Spec

------------------------------------------------------------------------------
(* Types of the process, whatever number of requests and sockets it serves. *)
THEOREM ProcessTypeCorrect == Spec => []TypeOK
BY ProcessInvariant, PTL DEF ProcInv

(* The hub leaks no channel, has nobody registered without a handler, and   *)
(* loses no subscriber who is still there, however joins, leaves and the    *)
(* evictions of any number of broadcasts meet.                              *)
THEOREM SubscribedCorrect == Spec => []Subscribed
BY ProcessInvariant, PTL DEF ProcInv, HubInv

(* No subscriber hears of a change that is not committed. *)
THEOREM NewsCorrect == Spec => []NewsIsCommitted
<1>1. ProcInv => NewsIsCommitted
  <2> SUFFICES ASSUME ProcInv, NEW r \in Requests, cast[r].got # {} PROVE req[r].committed
    BY DEF NewsIsCommitted
  <2>1. AtCast(r)
    BY DEF ProcInv, CastsKnown, Casting, NoCast
  <2> QED BY <2>1, AtFacts DEF AtCast, ProcInv, CommitKnown, Settled
<1> QED BY <1>1, ProcessInvariant, PTL

(* A broadcast passes over nobody of its snapshot, whichever sends wait or  *)
(* break.                                                                   *)
THEOREM DeliveredCorrect == Spec => Delivered
<1> DEFINE Served(r) == \A s \in cast[r].todo \ cast'[r].todo :
                          client[s] = "gone" \/ s \in cast'[r].got
<1>1. ASSUME ProcInv, [Next]_vars, NEW q \in Requests PROVE Served(q)
  <2> USE DEF HubTypes, CastRows
  <2>0. HubTypes
    BY <1>1, Types DEF ProcInv
  <2>1. CASE cast' = cast
    BY <2>1
  <2>2. ASSUME NEW r \in Requests, Broadcast(r) PROVE Served(q)
    <3>1. CASE \E c \in Channels : ~Casting(r) /\ CastBegin(r, c)
      BY <2>0, <3>1 DEF CastBegin, Casting, NoCast
    <3>2. CASE CastEnd(r)
      BY <2>0, <3>2 DEF CastEnd, CastReturns
    <3>3. CASE CastStep(r)
      <4> SUFFICES ASSUME NEW s \in Sockets, \/ CastSend(r, s) \/ CastWait(r, s) \/ CastDead(r, s)
                                             \/ CastLost(r, s) \/ CastEvict(r, s)
                   PROVE  Served(q)
        BY <3>3 DEF CastStep
      <4>1. CASE CastSend(r, s)
        BY <2>0, <4>1 DEF CastSend
      <4>2. CASE CastWait(r, s)
        BY <2>0, <4>2 DEF CastWait
      <4>3. CASE CastDead(r, s)
        BY <2>0, <4>3 DEF CastDead, StillToSend
      <4>4. CASE CastLost(r, s)
        BY <2>0, <4>4 DEF CastLost
      <4>5. CASE CastEvict(r, s)
        BY <2>0, <4>5 DEF CastEvict
      <4> QED BY <4>1, <4>2, <4>3, <4>4, <4>5
    <3> QED BY <2>2, <3>1, <3>2, <3>3, ProcessAssumption DEF Broadcast, Cast
  <2>3. CASE UNCHANGED vars
    BY <2>1, <2>3 DEF vars, hubVars
  <2>4. CASE \E s \in Sockets : ConnectStep(s) \/ SocketStep(s) \/ ClientStep(s)
    BY <2>1, <2>4 DEF ConnectStep, SocketStep, ClientStep, WsJoin, WsAcceptFails, WsLeave, Stall, Resume, Hangup,
                      WsRefuse, WsAccept
  <2>5. CASE Startup \/ DisposeEngine \/ CloseRedis
    BY <2>1, <2>5 DEF Startup, DisposeEngine, CloseRedis, hubVars
  <2>6. ASSUME NEW r \in Requests, ~Broadcast(r),
               \/ RequestStep(r) \/ PoolTimeout(r) \/ Refuse(r) \/ StoreError(r) \/ Preflight(r)
               \/ (\E kind \in Asked[r] : Arrive(r, kind)) \/ Enqueue(r) \/ SyncReturns(r)
        PROVE  Served(q)
    <3>1. UNCHANGED hubVars
      BY <2>6 DEF RequestStep, HealthStep, Checkout, Query, Commit, Return, PingDb, PingRedis,
                  CheckFails, Report, PoolTimeout, Refuse, StoreError, Preflight, Arrive, Enqueue,
                  SyncReturns, Limit, Enter, Enqueued
    <3> QED BY <2>1, <3>1 DEF hubVars
  <2> HIDE DEF Served
  <2> QED BY <1>1, <2>2, <2>3, <2>4, <2>5, <2>6 DEF Next, OnLoop
<1>2. ProcInv /\ [Next]_vars => [\A r \in Requests : Served(r)]_vars
  BY <1>1
<1> QED BY <1>2, ProcessInvariant, PTL DEF Spec, Delivered

------------------------------------------------------------------------------
(* Where the layers end up in the stack. *)
LEMMA StackPlaces ==
  /\ 3 \in DOMAIN Stack /\ Stack[3] = "request_id"
  /\ 6 \in DOMAIN Stack /\ Stack[6] = "access_log"
  /\ Len(Stack) = 6
<1>1. Added \in Seq({"access_log", "rate_prep", "idempotency", "request_id", "cors", "slowapi"})
      /\ Len(Added) = 6 /\ Added[4] = "request_id" /\ Added[1] = "access_log"
  BY DEF Added
<1>2. DOMAIN Added = 1..6
  BY <1>1
<1>3. Stack = [i \in 1..6 |-> Added[7 - i]]
  BY <1>1, <1>2 DEF Stack
<1>4. Len(Stack) = 6
  BY <1>1, <1>3
<1> QED BY <1>1, <1>3, <1>4

(* Who has committed a change gets an answer with its id, whatever fails    *)
(* after the commit: answers without one are of the limiter and of CORS,    *)
(* and no request of theirs has committed anything.                         *)
THEOREM ChangeTraceableCorrect == Spec => ChangeTraceable
<1> DEFINE Found(r) == LET from == req'[r].from IN
             req[r].committed /\ Running(r) /\ ~Running(r)' => HasHeader(from) \/ HasEnvelopeId(from)
<1>1. HasHeader("router") /\ HasEnvelopeId("server_error")
  <2>1. Depth("router") = 7
    BY StackPlaces DEF Depth
  <2>2. "request_id" \in Entered("router") /\ "request_id" \in Entered("server_error")
    BY <2>1, StackPlaces DEF Entered, Origin
  <2> QED BY <2>2 DEF HasHeader, HasEnvelopeId, Passed, Unhandled
<1>2. ASSUME ProcInv, [Next]_vars, NEW q \in Requests PROVE Found(q)
  <2> SUFFICES ASSUME req[q].committed, Running(q), ~Running(q)'
               PROVE  req'[q].from \in {"router", "server_error"}
    BY <1>1
  <2>0. req[q].step # 0 /\ req \in [Requests -> RequestRows] /\ req'[q] # req[q] /\ req[q] # NoRequest
    BY <1>2, Types DEF ProcInv, CommitKnown, Settled, Running, NoRequest
  <2>1. PICK r \in Requests :
          \/ (\E kind \in Asked[r] : Arrive(r, kind)) \/ SyncReturns(r)
          \/ Preflight(r) \/ RequestStep(r) \/ PoolTimeout(r) \/ Refuse(r) \/ StoreError(r)
    BY <1>2, <2>0 DEF Next, OnLoop, Startup, DisposeEngine, CloseRedis, Enqueue, procVars, vars
  <2>2. \/ req[r] = NoRequest \/ req[r].step = 0 \/ UNCHANGED req
        \/ Onward(r, req[r]) \/ Checkout(r) \/ Commit(r)
        \/ Respond(r, "router") \/ Respond(r, "server_error")
    BY <2>1 DEF SyncReturns, RequestStep, HealthStep, Arrive, Limit, Enter, Entering, Enqueued,
       Preflight, Query, Broadcast, Cast, Return, PingDb, PingRedis, CheckFails, Report, PoolTimeout,
       Refuse, StoreError
  <2>3. \A row : Update(r, row) => r = q /\ req'[q] = row
    BY <2>0 DEF Update
  <2>4. req[q] \in RequestRows
    BY <2>0
  <2>5. r = q
    BY <2>0, <2>1, <2>3 DEF SyncReturns, RequestStep, HealthStep, Arrive, Limit, Enter, Enqueued,
       Preflight, Checkout, Query, Commit, Broadcast, Cast, Return, PingDb, PingRedis, CheckFails,
       Report, PoolTimeout, Refuse, StoreError, Onward, Respond
  <2>6. CASE Onward(r, req[r]) \/ Checkout(r) \/ Commit(r)
    <3> DEFINE done == [req[q] EXCEPT !.committed = TRUE, !.conn = FALSE]
    <3>1. ASSUME NEW row \in RequestRows, row.kind = req[q].kind,
                 Onward(q, row) \/ Update(q, row)
          PROVE  req'[q].kind = req[q].kind
      <4> DEFINE next == [row EXCEPT !.step = row.step + 1]
      <4>1. next.kind = row.kind
        BY <3>1 DEF RequestRows
      <4>2. Update(q, next) \/ Update(q, row)
        BY <3>1 DEF Onward
      <4> HIDE DEF next
      <4>3. req'[q] = next \/ req'[q] = row
        BY <2>3, <2>5, <4>2
      <4> QED BY <3>1, <4>1, <4>3
    <3>2. done \in RequestRows /\ done.kind = req[q].kind
      BY <2>4 DEF RequestRows
    <3>3. [req[q] EXCEPT !.conn = TRUE] \in RequestRows /\ [req[q] EXCEPT !.conn = TRUE].kind = req[q].kind
      BY <2>4 DEF RequestRows
    <3>4. \/ Onward(q, req[q]) \/ Onward(q, done) \/ Update(q, [req[q] EXCEPT !.conn = TRUE])
      BY <2>5, <2>6 DEF Checkout, Commit
    <3> HIDE DEF done
    <3>5. req'[q].kind = req[q].kind
      BY <2>4, <3>1, <3>2, <3>3, <3>4
    <3> QED BY <3>5 DEF Running
  <2>7. CASE Respond(r, "router") \/ Respond(r, "server_error")
    BY <2>3, <2>7 DEF Respond, NoRequest
  <2> QED BY <2>0, <2>2, <2>5, <2>6, <2>7
<1>3. ProcInv /\ [Next]_vars => [\A r \in Requests : Found(r)]_vars
  BY <1>2
<1> QED BY <1>3, ProcessInvariant, PTL DEF Spec, ChangeTraceable
==============================================================================
