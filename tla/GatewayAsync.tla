---------------------------- MODULE GatewayAsync ----------------------------
(***************************************************************************)
(* The asynchronous gateways (mbus-gateway, gateway_async).  The accept    *)
(* loops for TCP and for WebSocket connections spawn one task per upstream *)
(* connection, which runs run_async_session; a raw gateway runs one such   *)
(* session on a transport it is given, and a serial gateway a loop of the  *)
(* same shape.  They share one mutex per downstream channel and one mutex  *)
(* around the event handler; WebSocket sessions share permits besides.     *)
(*                                                                         *)
(* A step runs from one await to the next.  A mutex that is taken and      *)
(* given back between two awaits appears as a guard; those held across an  *)
(* await are variables.                                                    *)
(***************************************************************************)
EXTENDS Integers, Sequences, FiniteSets

CONSTANTS
  Sessions,    \* upstream connections, each accepted at most once
  WsSessions, RawSessions, SerialSessions,   \* those of them that are not TCP connections
  MaxSessions, \* max_sessions of the WebSocket gateway, 0 for no limit
  Requests,    \* requests clients may send, records with an owner and a unit
  Channels,    \* channel index -> a downstream transport behind a mutex
  Route,       \* unit -> the index router.route() gives, or None
  None

ASSUME RequestsAssumption == Requests \subseteq [id : Nat, owner : Sessions, unit : DOMAIN Route]
ASSUME SessionsAssumption ==
  /\ WsSessions \cup RawSessions \cup SerialSessions \subseteq Sessions
  /\ WsSessions \cap (RawSessions \cup SerialSessions) = {}
  /\ IsFiniteSet(WsSessions) /\ MaxSessions \in Nat
ASSUME NoneAssumption == None \notin Requests /\ None \notin Sessions /\ None \notin Channels

VARIABLES
  accepting,   \* the accept loops run
  permits,     \* the WebSocket sessions that hold a permit of the semaphore
  pc,          \* session -> the await it is at
  msg,         \* session -> the request in hand, or None
  got,         \* session -> the request the downstream response in hand answers, or None
  ds,          \* channel -> the session that holds its mutex, or None
  handler,     \* the session that holds the handler mutex across an await, or None
  wire,        \* channel -> requests its device has received and not answered
  read,        \* requests read from clients
  answers,     \* request -> the frames sent upstream for it
  expired      \* requests given up before the device had answered

sessionVars == <<pc, msg, got>>
vars == <<accepting, permits, sessionVars, ds, handler, wire, read, answers, expired>>

Init ==
  /\ accepting = TRUE
  /\ permits = {}
  /\ pc = [s \in Sessions |-> "closed"]
  /\ msg = [s \in Sessions |-> None]
  /\ got = [s \in Sessions |-> None]
  /\ ds = [d \in Channels |-> None]
  /\ handler = None
  /\ wire = [d \in Channels |-> {}]
  /\ read = {}
  /\ answers = [r \in Requests |-> <<>>]
  /\ expired = {}

Goto(s, p) == pc' = [pc EXCEPT ![s] = p]
At(s, p) == pc[s] = p
ChannelOf(s) == Route[msg[s].unit]

(* continue: the session is done with its request, answered or not.         *)
Continue(s) ==
  /\ Goto(s, "recv")
  /\ msg' = [msg EXCEPT ![s] = None]
  /\ got' = [got EXCEPT ![s] = None]

(* An exception response, or the response to request r, under the id of the *)
(* request in hand.                                                         *)
Exception == None
Answer(s, what) == answers' = [answers EXCEPT ![msg[s]] = Append(@, what)]

-----------------------------------------------------------------------------
(* serve_with_shutdown: an accept loop takes a connection; a raw or serial  *)
(* gateway is started by its application.                                   *)

Accept(s) ==
  /\ At(s, "closed") /\ s \notin WsSessions
  /\ accepting \/ s \in RawSessions \cup SerialSessions
  /\ Goto(s, "recv")
  /\ UNCHANGED <<accepting, permits, msg, got, ds, handler, wire, read, answers, expired>>

PermitFree == MaxSessions = 0 \/ Cardinality(permits) < MaxSessions

AcceptWs(s) ==
  /\ At(s, "closed") /\ s \in WsSessions /\ accepting /\ PermitFree
  /\ permits' = permits \cup {s}
  /\ Goto(s, "handshake")
  /\ UNCHANGED <<accepting, msg, got, ds, handler, wire, read, answers, expired>>

(* The session cap is reached: the connection is dropped.                   *)
RejectWs(s) ==
  /\ At(s, "closed") /\ s \in WsSessions /\ accepting /\ ~PermitFree
  /\ Goto(s, "ended")
  /\ UNCHANGED <<accepting, permits, msg, got, ds, handler, wire, read, answers, expired>>

PermitDropped(s) == permits' = permits \ {s}

(* perform_handshake, which waits for the client without a time-out.        *)
Handshake(s) ==
  /\ At(s, "handshake")
  /\ \/ Goto(s, "recv") /\ UNCHANGED permits
     \/ Goto(s, "ended") /\ PermitDropped(s)
  /\ UNCHANGED <<accepting, msg, got, ds, handler, wire, read, answers, expired>>

(* Sessions that run go on.                                                 *)
Shutdown ==
  /\ accepting
  /\ accepting' = FALSE
  /\ UNCHANGED <<permits, sessionVars, ds, handler, wire, read, answers, expired>>

(* A serial gateway looks at its shutdown signal between requests only, and *)
(* returns without a word to the handler; so it does after a receive error. *)
SerialReturns(s) ==
  /\ s \in SerialSessions /\ At(s, "recv")
  /\ Goto(s, "ended")
  /\ UNCHANGED <<accepting, permits, msg, got, ds, handler, wire, read, answers, expired>>

-----------------------------------------------------------------------------
(* run_async_session: receive and route.  A frame that does not parse is    *)
(* skipped and leaves no trace.                                             *)

Recv(s, r) ==
  /\ At(s, "recv") /\ r.owner = s /\ r \notin read
  /\ Goto(s, "route")
  /\ msg' = [msg EXCEPT ![s] = r]
  /\ read' = read \cup {r}
  /\ UNCHANGED <<accepting, permits, got, ds, handler, wire, answers, expired>>

(* The client is gone, or has been silent for longer than idle_timeout.     *)
RecvFails(s) ==
  /\ At(s, "recv")
  /\ Goto(s, "closing")
  /\ UNCHANGED <<accepting, permits, msg, got, ds, handler, wire, read, answers, expired>>

(* on_forward, or on_routing_miss, is called with the handler mutex held.   *)
HandlerFree == handler = None

RouteFoundHoldsHandler(s) ==
  /\ At(s, "route") /\ HandlerFree /\ ChannelOf(s) \in Channels
  /\ handler' = s
  /\ Goto(s, "lock")
  /\ UNCHANGED <<accepting, permits, msg, got, ds, wire, read, answers, expired>>

RouteFound(s) ==
  /\ At(s, "route") /\ HandlerFree /\ ChannelOf(s) # None
  /\ Goto(s, IF ChannelOf(s) \in Channels THEN "lock" ELSE "refuse")
  /\ UNCHANGED <<accepting, permits, msg, got, ds, handler, wire, read, answers, expired>>

RouteMiss(s) ==
  /\ At(s, "route") /\ HandlerFree /\ ChannelOf(s) = None
  /\ Goto(s, "refuse")
  /\ UNCHANGED <<accepting, permits, msg, got, ds, handler, wire, read, answers, expired>>

(* send_async_exception; whether the send succeeds makes no difference.     *)
Refuse(s) ==
  /\ At(s, "refuse")
  /\ Answer(s, Exception) \/ UNCHANGED answers
  /\ Continue(s)
  /\ UNCHANGED <<accepting, permits, ds, handler, wire, read, expired>>

-----------------------------------------------------------------------------
(* The downstream round trip.                                               *)

(* The request cannot be encoded for the channel: no answer.                *)
EncodeFails(s) ==
  /\ At(s, "lock")
  /\ Continue(s)
  /\ UNCHANGED <<accepting, permits, ds, handler, wire, read, answers, expired>>

LockDownstream(s) ==
  /\ At(s, "lock") /\ ds[ChannelOf(s)] = None
  /\ ds' = [ds EXCEPT ![ChannelOf(s)] = s]
  /\ Goto(s, "send")
  /\ UNCHANGED <<accepting, permits, msg, got, handler, wire, read, answers, expired>>

Unlock(s) == ds' = [ds EXCEPT ![ChannelOf(s)] = None]
KeepLockUntilSent(s) == Unlock(s)
KeepLock(s) == UNCHANGED ds

DownstreamSend(s) ==
  /\ At(s, "send")
  /\ wire' = [wire EXCEPT ![ChannelOf(s)] = @ \cup {msg[s]}]
  /\ Goto(s, "await")
  /\ KeepLock(s)
  /\ UNCHANGED <<accepting, permits, msg, got, handler, read, answers, expired>>

(* A request whose round trip fails may have reached the device, and may be *)
(* answered when nobody waits any more.                                     *)
MayBeOnWire(s) ==
  /\ wire' \in {[wire EXCEPT ![ChannelOf(s)] = @ \cup {msg[s]}],
                [wire EXCEPT ![ChannelOf(s)] = @ \ {msg[s]}]}
  /\ expired' = expired \cup {msg[s]}

DownstreamSendFails(s) ==
  /\ At(s, "send")
  /\ MayBeOnWire(s)
  /\ Unlock(s)
  /\ Continue(s)
  /\ UNCHANGED <<accepting, permits, handler, read, answers>>

(* recv returns whatever the device sent; its transaction id is not looked  *)
(* at.  Ok(b) releases the mutex.                                           *)
DownstreamRecv(s, r) ==
  /\ At(s, "await") /\ r \in wire[ChannelOf(s)]
  /\ wire' = [wire EXCEPT ![ChannelOf(s)] = @ \ {r}]
  /\ Unlock(s)
  /\ \/ Goto(s, "reply") /\ got' = [got EXCEPT ![s] = r] /\ UNCHANGED msg
     \/ Continue(s)   \* it cannot be parsed, or not be encoded for the client
  /\ UNCHANGED <<accepting, permits, handler, read, answers, expired>>

DownstreamRecvFails(s) ==
  /\ At(s, "await")
  /\ MayBeOnWire(s)
  /\ Unlock(s)
  /\ Continue(s)
  /\ UNCHANGED <<accepting, permits, handler, read, answers>>

(* The response time-out elapses; the device may still answer.  The handler *)
(* mutex is awaited, and then held until the exception is sent, with the    *)
(* channel's mutex still held.                                              *)
DownstreamTimeout(s) ==
  /\ At(s, "await")
  /\ Goto(s, "timed_out")
  /\ expired' = expired \cup {msg[s]}
  /\ UNCHANGED <<accepting, permits, msg, got, ds, handler, wire, read, answers>>

OnDownstreamTimeout(s) ==
  /\ At(s, "timed_out") /\ HandlerFree
  /\ handler' = s
  /\ Goto(s, "except")
  /\ UNCHANGED <<accepting, permits, msg, got, ds, wire, read, answers, expired>>

SendTimeoutException(s) ==
  /\ At(s, "except")
  /\ Answer(s, Exception) \/ UNCHANGED answers
  /\ handler' = None
  /\ Unlock(s)
  /\ Continue(s)
  /\ UNCHANGED <<accepting, permits, wire, read, expired>>

-----------------------------------------------------------------------------
(* Back upstream.                                                           *)

SendUpstream(s) ==
  /\ At(s, "reply")
  /\ Answer(s, got[s])
  /\ Goto(s, "returned")
  /\ UNCHANGED <<accepting, permits, msg, got, ds, handler, wire, read, expired>>

SendUpstreamFails(s) ==
  /\ At(s, "reply")
  /\ Goto(s, "closing")
  /\ msg' = [msg EXCEPT ![s] = None]
  /\ got' = [got EXCEPT ![s] = None]
  /\ UNCHANGED <<accepting, permits, ds, handler, wire, read, answers, expired>>

OnResponseReturned(s) ==
  /\ At(s, "returned") /\ HandlerFree
  /\ Continue(s)
  /\ UNCHANGED <<accepting, permits, ds, handler, wire, read, answers, expired>>

(* The session's task ends, and with it the permit it holds.                *)
OnUpstreamDisconnect(s) ==
  /\ At(s, "closing") /\ HandlerFree
  /\ Goto(s, "ended")
  /\ PermitDropped(s)
  /\ UNCHANGED <<accepting, msg, got, ds, handler, wire, read, answers, expired>>

(* The shutdown of a raw gateway drops its session's future at whatever     *)
(* await it is, and the guards that it holds with it.                       *)
RawShutdown(s) ==
  /\ s \in RawSessions /\ pc[s] \notin {"closed", "ended"}
  /\ Goto(s, "ended")
  /\ msg' = [msg EXCEPT ![s] = None]
  /\ got' = [got EXCEPT ![s] = None]
  /\ ds' = [d \in Channels |-> IF ds[d] = s THEN None ELSE ds[d]]
  /\ handler' = IF handler = s THEN None ELSE handler
  /\ IF pc[s] \in {"send", "await"} THEN MayBeOnWire(s) ELSE UNCHANGED <<wire, expired>>
  /\ UNCHANGED <<accepting, permits, read, answers>>

-----------------------------------------------------------------------------
(* What a session may wait for once it has read a request: a mutex; the     *)
(* device, for response_timeout at most; a send, without any time-out.      *)
Acquire(s) ==
  \/ RouteFound(s) \/ RouteMiss(s) \/ LockDownstream(s) \/ OnDownstreamTimeout(s)
  \/ OnResponseReturned(s) \/ OnUpstreamDisconnect(s)
AwaitDevice(s) ==
  \/ \E r \in Requests : DownstreamRecv(s, r)
  \/ DownstreamRecvFails(s) \/ DownstreamTimeout(s)
AwaitSend(s) ==
  \/ DownstreamSend(s) \/ DownstreamSendFails(s)
  \/ Refuse(s) \/ SendTimeoutException(s) \/ SendUpstream(s) \/ SendUpstreamFails(s)

Next ==
  \/ Shutdown
  \/ \E s \in Sessions : Accept(s) \/ AcceptWs(s) \/ RejectWs(s) \/ Handshake(s)
  \/ \E s \in Sessions : RawShutdown(s) \/ SerialReturns(s)
  \/ \E s \in Sessions : RecvFails(s) \/ \E r \in Requests : Recv(s, r)
  \/ \E s \in Sessions : Acquire(s) \/ EncodeFails(s) \/ AwaitDevice(s) \/ AwaitSend(s)

Spec == Init /\ [][Next]_vars

(* The runtime schedules every session, and the response time-out fires.  A *)
(* tokio mutex queues its waiters, so whoever waits for a mutex that keeps  *)
(* being released gets it: strong fairness.  Nothing is assumed of sends: a *)
(* peer that stops reading keeps a send from ending.                        *)
LiveSpec == Spec /\ \A s \in Sessions : SF_vars(Acquire(s)) /\ WF_vars(AwaitDevice(s))

-----------------------------------------------------------------------------
(* Properties.                                                              *)

TypeOK ==
  /\ accepting \in BOOLEAN
  /\ pc \in [Sessions -> {"closed", "handshake", "recv", "route", "refuse", "lock", "send", "await",
                          "timed_out", "except", "reply", "returned", "closing", "ended"}]
  /\ msg \in [Sessions -> Requests \cup {None}]
  /\ got \in [Sessions -> Requests \cup {None}]
  /\ ds \in [Channels -> Sessions \cup {None}]
  /\ \A s \in Sessions :
       /\ msg[s] = None <=> pc[s] \in {"closed", "handshake", "recv", "closing", "ended"}
       /\ got[s] # None <=> pc[s] \in {"reply", "returned"}
  /\ permits \subseteq WsSessions
  /\ handler \in Sessions \cup {None}
  /\ wire \in [Channels -> SUBSET Requests]
  /\ read \subseteq Requests /\ expired \subseteq read
  /\ answers \in [Requests -> Seq(Requests \cup {Exception})]

Holding == {"send", "await", "timed_out", "except"}

(* Whatever sessions share is held exactly while it is needed.  The mutex   *)
(* of a channel is held through a round trip there, up to and including the *)
(* exception sent for a time-out; the handler mutex is held across an await *)
(* only by a session that also holds a channel, so that locks are taken in  *)
(* the one order channel, handler; and a WebSocket session holds a permit   *)
(* from its acceptance to its end, never more of them than max_sessions.    *)
(* All are given back on every early exit, a dropped future included.       *)
SharedHeldExactly ==
  /\ \A d \in Channels : \A s \in Sessions :
       ds[d] = s <=> pc[s] \in Holding /\ ChannelOf(s) = d
  /\ \A s \in Sessions : handler = s <=> pc[s] = "except"
  /\ permits = {s \in WsSessions : pc[s] \notin {"closed", "ended"}}
  /\ MaxSessions > 0 => Cardinality(permits) <= MaxSessions

(* As long as no round trip on a channel was given up, for a time-out, an   *)
(* error or the shutdown of a raw gateway, what a client gets from it is    *)
(* the response to its own request: no request or response of another       *)
(* session comes between send and recv.  Afterwards it may be a late        *)
(* response, as recv looks at no transaction id, and from then on every     *)
(* answer of that channel may be the one before.                            *)
AnswerIsOwn ==
  \A r \in Requests : \A k \in DOMAIN answers[r] :
    \/ answers[r][k] \in {r, Exception}
    \/ \E q \in expired : Route[q.unit] = Route[r.unit]

(* A send made with the mutex of a channel held: the request to the device, *)
(* or the exception for a time-out, for which the handler mutex is held too. *)
SendingLocked == {s \in Sessions : pc[s] \in {"send", "except"}}

(* A session that has read a request, or lost its client, and does not just *)
(* wait for its own client to take a refusal or a response.                 *)
Busy == {s \in Sessions : pc[s] \notin {"closed", "handshake", "recv", "refuse", "reply", "ended"}}

(* As long as the sends made with a mutex held end, nobody waits for ever   *)
(* for a channel or for the handler, whatever devices answer and whether or *)
(* not the other clients take their responses: every session comes to the   *)
(* answer to its own client, back to reading from it, or to its end.  Since *)
(* clients send finitely many requests, that is to say that no session      *)
(* stays busy.                                                              *)
EventuallyBack == []<>(SendingLocked = {}) => (Busy # {} ~> Busy = {})

(* A channel that is taken becomes free again as long as devices take what  *)
(* is sent to them: its mutex is held "for the duration of the downstream   *)
(* request-response round trip" (run_async_session), which the response     *)
(* time-out bounds.                                                         *)
ChannelFreed ==
  []<>(\A s \in Sessions : pc[s] # "send")
    => \A d \in Channels : ds[d] # None ~> ds[d] = None
=============================================================================
