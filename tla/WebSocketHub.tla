----------------------------- MODULE WebSocketHub ----------------------------
(***************************************************************************)
(* The in-process hub (app/websockets/manager.py) and the handler of       *)
(* /api/v1/ws (routes.py).  One event loop runs everything, so what happens *)
(* between two awaits is one step; a broadcast awaits every send.          *)
(***************************************************************************)
EXTENDS Integers, FiniteSets

CONSTANTS
  Sockets,   \* WebSocket objects, one per connection
  Channels,
  Requests,  \* HTTP requests, which broadcast
  None

VARIABLES
  client,   \* the far end: "away", "reading", "stalled" (its buffers are full), "gone"
  socket,   \* websocket_connect: "new", "accepting", "open", "closed"
  channel,  \* the channel asked for
  keys,     \* keys of the defaultdict hub._channels
  members,  \* the set under each key
  cast      \* the broadcast each request is in, and who has received its message

hubVars == <<client, socket, channel, keys, members, cast>>

NoCast == [channel |-> None, todo |-> {}, now |-> None, dead |-> {}, got |-> {}]

HubInit ==
  /\ client = [s \in Sockets |-> "away"]
  /\ socket = [s \in Sockets |-> "new"]
  /\ channel = [s \in Sockets |-> None]
  /\ keys = {}
  /\ members = [c \in Channels |-> {}]
  /\ cast = [r \in Requests |-> NoCast]

Casting(r) == cast[r] # NoCast

(* Seeded fault: broadcast keeps the lock while it sends and evicts. *)
LockKept == \E r \in Requests : Casting(r)

(* The bodies of "async with self._lock" have no await: nobody ever finds   *)
(* the lock taken.                                                          *)
LockTaken == FALSE

------------------------------------------------------------------------------
(* The far ends. *)

Stall(s)  == /\ client[s] = "reading"
             /\ client' = [client EXCEPT ![s] = "stalled"]
             /\ UNCHANGED <<socket, channel, keys, members, cast>>

Resume(s) == /\ client[s] = "stalled"
             /\ client' = [client EXCEPT ![s] = "reading"]
             /\ UNCHANGED <<socket, channel, keys, members, cast>>

(* It leaves, or the server closes or gives it up. *)
Hangup(s) == /\ client[s] \in {"reading", "stalled"}
             /\ client' = [client EXCEPT ![s] = "gone"]
             /\ UNCHANGED <<socket, channel, keys, members, cast>>

------------------------------------------------------------------------------
(* websocket_connect.  Without a channel or a token that decodes the        *)
(* socket is closed with 1008 and never registered.                         *)
WsRefuse(s) ==
  /\ client[s] = "away" /\ socket[s] = "new"
  /\ client' = [client EXCEPT ![s] = "gone"]
  /\ socket' = [socket EXCEPT ![s] = "closed"]
  /\ UNCHANGED <<channel, keys, members, cast>>

(* Seeded fault: the channel is not read before the handshake. *)
AcceptUnnamed(s, c) ==
  /\ client[s] = "away" /\ socket[s] = "new"
  /\ client' = [client EXCEPT ![s] = "reading"]
  /\ socket' = [socket EXCEPT ![s] = "accepting"]
  /\ UNCHANGED <<channel, keys, members, cast>>

WsAccept(s, c) ==
  /\ client[s] = "away" /\ socket[s] = "new"
  /\ client' = [client EXCEPT ![s] = "reading"]
  /\ socket' = [socket EXCEPT ![s] = "accepting"]
  /\ channel' = [channel EXCEPT ![s] = c]
  /\ UNCHANGED <<keys, members, cast>>

(* hub.connect, after accept() has returned; the client may be gone again. *)
WsJoin(s) ==
  LET c == channel[s] IN
  /\ socket[s] = "accepting" /\ ~LockTaken
  /\ keys' = keys \cup {c}
  /\ members' = [members EXCEPT ![c] = @ \cup {s}]
  /\ socket' = [socket EXCEPT ![s] = "open"]
  /\ UNCHANGED <<client, channel, cast>>

(* accept() raises: connect is outside the try. *)
WsAcceptFails(s) ==
  /\ socket[s] = "accepting" /\ client[s] = "gone"
  /\ socket' = [socket EXCEPT ![s] = "closed"]
  /\ channel' = [channel EXCEPT ![s] = None]
  /\ UNCHANGED <<client, keys, members, cast>>

(* Seeded fault: the channel is deleted with its first leaver. *)
DropChannel(c, s) ==
  /\ members' = [members EXCEPT ![c] = {}]
  /\ keys' = keys \ {c}

(* hub.disconnect.  The defaultdict makes an entry for a missing channel,   *)
(* and an empty one is deleted: it may be called twice for a socket.        *)
Discard(c, s) ==
  /\ members' = [members EXCEPT ![c] = @ \ {s}]
  /\ keys' = IF members[c] \subseteq {s} THEN keys \ {c} ELSE keys \cup {c}

(* receive_text raises, for a client that is gone or for a frame that is    *)
(* not text, and the finally clause runs.                                   *)
WsLeave(s) ==
  /\ socket[s] = "open" /\ ~LockTaken
  /\ socket' = [socket EXCEPT ![s] = "closed"]
  /\ Discard(channel[s], s)
  /\ channel' = [channel EXCEPT ![s] = None]
  /\ UNCHANGED <<client, cast>>

------------------------------------------------------------------------------
(* hub.broadcast: a copy of the channel, the sends one after the other in   *)
(* the set's order, then the eviction of those that failed.                 *)
CastBegin(r, c) ==
  LET snapshot == IF c \in keys THEN members[c] ELSE {} IN
  /\ cast' = [cast EXCEPT ![r] = [channel |-> c, todo |-> snapshot,
                                  now |-> None, dead |-> {}, got |-> {}]]
  /\ UNCHANGED <<client, socket, channel, keys, members>>

MaySend(r, s) == s \in cast[r].todo /\ cast[r].now \in {None, s}

CastSend(r, s) ==
  /\ MaySend(r, s) /\ client[s] = "reading"
  /\ cast' = [cast EXCEPT ![r] = [cast[r] EXCEPT !.todo = @ \ {s}, !.now = None,
                                                 !.got = @ \cup {s}]]
  /\ UNCHANGED <<client, socket, channel, keys, members>>

(* send_text waits for room in the buffer of a client that does not read. *)
CastWait(r, s) ==
  /\ MaySend(r, s) /\ cast[r].now = None /\ client[s] = "stalled"
  /\ cast' = [cast EXCEPT ![r] = [cast[r] EXCEPT !.now = s]]
  /\ UNCHANGED <<client, socket, channel, keys, members>>

(* Seeded fault: the first send that raises ends the sends. *)
GiveUp(todo, s) == {}

StillToSend(todo, s) == todo \ {s}

CastDead(r, s) ==
  /\ MaySend(r, s) /\ client[s] = "gone"
  /\ cast' = [cast EXCEPT ![r] = [cast[r] EXCEPT !.todo = StillToSend(@, s), !.now = None,
                                                 !.dead = @ \cup {s}]]
  /\ UNCHANGED <<client, socket, channel, keys, members>>

(* The loss of the connection is not noticed yet: the message is buffered. *)
CastLost(r, s) ==
  /\ MaySend(r, s) /\ client[s] = "gone"
  /\ cast' = [cast EXCEPT ![r] = [cast[r] EXCEPT !.todo = @ \ {s}, !.now = None]]
  /\ UNCHANGED <<client, socket, channel, keys, members>>

CastEvict(r, s) ==
  /\ cast[r].todo = {} /\ s \in cast[r].dead /\ ~LockTaken
  /\ Discard(cast[r].channel, s)
  /\ cast' = [cast EXCEPT ![r] = [cast[r] EXCEPT !.dead = @ \ {s}]]
  /\ UNCHANGED <<client, socket, channel>>

CastReturns(r) == Casting(r) /\ cast[r].todo = {} /\ cast[r].dead = {}

CastEnd(r) ==
  /\ CastReturns(r)
  /\ cast' = [cast EXCEPT ![r] = NoCast]
  /\ UNCHANGED <<client, socket, channel, keys, members>>

CastStep(r) ==
  \E s \in Sockets :
    CastSend(r, s) \/ CastWait(r, s) \/ CastDead(r, s) \/ CastLost(r, s) \/ CastEvict(r, s)

ConnectStep(s) == WsRefuse(s) \/ \E c \in Channels : WsAccept(s, c)

SocketStep(s) == WsJoin(s) \/ WsAcceptFails(s) \/ WsLeave(s)

ClientStep(s) == Stall(s) \/ Resume(s) \/ Hangup(s)
==============================================================================
