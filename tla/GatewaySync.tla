---------------------------- MODULE GatewaySync -----------------------------
(***************************************************************************)
(* The synchronous gateway (mbus-gateway, GatewayServices): upstream       *)
(* sessions, downstream channels with one request in flight each, the      *)
(* transaction map and the pending queue, driven by poll(now_ms).          *)
(*                                                                         *)
(* poll() is one call; its three phases are split into steps (pc) so that  *)
(* every helper is an action.  Nothing else happens between those steps.   *)
(***************************************************************************)
EXTENDS Integers, Sequences, FiniteSets

CONSTANTS
  Clients,          \* the upstream peers
  Requests,         \* the requests they may send, each once: [client, txn, unit]
  NDown,            \* number of downstream channels
  Route,            \* router.route: unit -> channel, or None
  NUp, TxnSize, NPending,  \* capacities of upstreams, txn_map and pending
  TxnMod,           \* internal transaction ids are taken modulo this (2^16)
  ResponseTimeout,  \* response_timeout_ms
  RxCapacity,       \* capacity of a channel's rxbuf, in responses
  LateJoin,         \* whether upstreams are also added once polling has begun
  None              \* Option::None; ChannelState::Idle

Channels == 1..NDown
Units == DOMAIN Route

ASSUME RequestsAssumption ==
  \A r \in Requests : r \in [id : Nat, client : Clients, txn : Nat, unit : Units]
ASSUME CapacityAssumption ==
  /\ NDown \in Nat \ {0} /\ NUp \in Nat \ {0} /\ TxnSize \in Nat /\ NPending \in Nat
  /\ TxnMod \in Nat \ {0} /\ ResponseTimeout \in Nat /\ RxCapacity \in Nat
  /\ LateJoin \in BOOLEAN
\* A route to a channel that is not there counts as None.
ASSUME RouteAssumption == \A u \in Units : Route[u] \in Channels \cup {None}
AwaitingResponse == [internal_txn : Nat, session_idx : Nat, deadline_ms : Nat, req : Requests]
ASSUME NoneAssumption ==
  None \notin Nat /\ None \notin Requests /\ None \notin AwaitingResponse

VARIABLES
  upstreams,      \* the registered sessions
  state,          \* ChannelState of every downstream channel
  rxbuf,          \* downstream: received responses not yet consumed
  wire,           \* downstream: forwarded requests the device has still to answer
  txn_map,        \* in-flight transactions
  next_internal,  \* txn_map's counter
  pending,        \* requests waiting for a channel
  now,            \* now_ms
  pc, idx,        \* the phase of poll() and its loop index
  limit,          \* try_service_pending's remaining iterations
  batch,          \* requests cut out of the current upstream's rxbuf
  gone,           \* disconnected_sessions
  started,        \* poll() has been called
  asked,          \* requests the gateway received
  answers,        \* what was sent upstream for each request
  dropped         \* requests the gateway gave up without sending anything

downVars == <<state, rxbuf, wire, txn_map, next_internal>>
pollVars == <<pc, idx, limit, batch, gone, started>>
askVars  == <<asked, answers, dropped>>
vars == <<upstreams, downVars, pending, now, pollVars, askVars>>

TxnEntry == [internal_txn : Nat, upstream_txn : Nat, session_id : Nat]
PendingRequest == [session_idx : Nat, req : Requests]
Answer == [to : Clients, txn : Nat, about : Requests \cup {None}]

Init ==
  /\ upstreams = <<>>
  /\ state = [d \in Channels |-> None]
  /\ rxbuf = [d \in Channels |-> <<>>]
  /\ wire = [d \in Channels |-> <<>>]
  /\ txn_map = {} /\ next_internal = 0
  /\ pending = <<>>
  /\ now = 0
  /\ pc = "idle" /\ idx = 1 /\ limit = 0 /\ batch = <<>> /\ gone = <<>>
  /\ started = FALSE
  /\ asked = {}
  /\ answers = [r \in Requests |-> <<>>]
  /\ dropped = {}

Elements(s) == {s[k] : k \in DOMAIN s}
Goto(p, k) == pc' = p /\ idx' = k

-----------------------------------------------------------------------------
(* Sending upstream.                                                        *)

PositionOfAny(s) == {1} \cap DOMAIN upstreams

(* upstreams.iter().position(|up| up.session_id == s)                       *)
PositionOf(s) ==
  {k \in DOMAIN upstreams :
     /\ upstreams[k].session_id = s
     /\ \A j \in 1..(k - 1) : upstreams[j].session_id # s}

Respond(req, k, txn, about) ==
  /\ answers' = [answers EXCEPT
       ![req] = Append(@, [to |-> upstreams[k].client, txn |-> txn, about |-> about])]
  /\ UNCHANGED dropped

GiveUp(req) == dropped' = dropped \cup {req} /\ UNCHANGED answers

(* send_exception_upstream: the session may be gone or its send may fail.   *)
SendException(req, s) ==
  (\E k \in PositionOf(s) : Respond(req, k, req.txn, None)) \/ GiveUp(req)

-----------------------------------------------------------------------------
(* Forwarding downstream.                                                   *)

TxnMapHasRoom == Cardinality(txn_map) < TxnSize

(* dispatch_to_downstream succeeds.                                         *)
Forward(d, p) ==
  /\ TxnMapHasRoom
  /\ txn_map' = txn_map \cup {[internal_txn |-> next_internal, upstream_txn |-> p.req.txn,
                               session_id |-> p.session_idx]}
  /\ next_internal' = (next_internal + 1) % TxnMod
  /\ wire' = [wire EXCEPT ![d] = Append(@, p.req)]
  /\ state' = [state EXCEPT
       ![d] = [internal_txn |-> next_internal, session_idx |-> p.session_idx,
               deadline_ms |-> now + ResponseTimeout, req |-> p.req]]
  /\ UNCHANGED <<rxbuf, answers, dropped>>

(* dispatch_to_downstream fails: txn_map is full, or the request cannot be  *)
(* encoded, or the send fails; the entry allocated for it is removed again. *)
ForwardFailed(p) ==
  /\ next_internal' = IF TxnMapHasRoom THEN (next_internal + 1) % TxnMod ELSE next_internal
  /\ SendException(p.req, p.session_idx)
  /\ UNCHANGED <<txn_map, wire, state, rxbuf>>

Dispatch(d, p) == Forward(d, p) \/ ForwardFailed(p)

-----------------------------------------------------------------------------
(* Phase 1: downstream channels.                                            *)

BeginPoll ==
  /\ pc = "idle"
  /\ Goto("down", 1)
  /\ started' = TRUE
  /\ UNCHANGED <<upstreams, downVars, pending, now, limit, batch, gone, askVars>>

AtChannel == pc = "down" /\ idx <= NDown

DownIdle ==
  /\ AtChannel /\ state[idx] = None
  /\ Goto("down", idx + 1)
  /\ UNCHANGED <<upstreams, downVars, pending, now, limit, batch, gone, started, askVars>>

(* Some of the device's answers may never come; the rest come in order.     *)
DownRecv ==
  /\ AtChannel /\ state[idx] # None
  /\ now < state[idx].deadline_ms
  /\ \E a \in 1..(Len(wire[idx]) + 1), b \in 0..Len(wire[idx]) :
       /\ a <= b + 1
       /\ LET bytes == SubSeq(wire[idx], a, b)
              room == Len(rxbuf[idx]) + Len(bytes) <= RxCapacity
          IN rxbuf' = [rxbuf EXCEPT ![idx] = IF room THEN @ \o bytes ELSE <<>>]
       /\ wire' = [wire EXCEPT ![idx] = SubSeq(@, b + 1, Len(@))]
  /\ Goto("received", idx)
  /\ UNCHANGED <<upstreams, state, txn_map, next_internal, pending, now, limit, batch, gone,
                 started, askVars>>

DownNothing ==
  /\ pc = "received" /\ rxbuf[idx] = <<>>
  /\ Goto("down", idx + 1)
  /\ UNCHANGED <<upstreams, downVars, pending, now, limit, batch, gone, started, askVars>>

WithInternal(t) == {e \in txn_map : e.internal_txn = t}

FreeChannelNoService ==
  /\ state' = [state EXCEPT ![idx] = None]
  /\ Goto("down", idx + 1)
  /\ UNCHANGED limit

FreeChannel ==
  /\ state' = [state EXCEPT ![idx] = None]
  /\ Goto("service", idx)
  /\ limit' = NPending

(* A whole response is there.  It is taken for the response to the request  *)
(* the channel is waiting on, whatever its transaction id.  An undecodable  *)
(* one, like one whose transaction is no longer known, is dropped.          *)
DownComplete ==
  /\ pc = "received" /\ rxbuf[idx] # <<>>
  /\ LET s == state[idx] IN
       \/ \E e \in WithInternal(s.internal_txn) :
            /\ txn_map' = txn_map \ {e}
            /\ \/ \E k \in PositionOf(s.session_idx) :
                    Respond(s.req, k, e.upstream_txn, Head(rxbuf[idx]))
               \/ GiveUp(s.req)
       \/ /\ WithInternal(s.internal_txn) = {}
          /\ GiveUp(s.req)
          /\ UNCHANGED txn_map
  /\ rxbuf' = [rxbuf EXCEPT ![idx] = Tail(@)]
  /\ FreeChannel
  /\ UNCHANGED <<upstreams, wire, next_internal, pending, now, batch, gone, started, asked>>

DownFailedLeaks ==
  /\ AtChannel /\ state[idx] # None
  /\ SendException(state[idx].req, state[idx].session_idx)
  /\ rxbuf' = [rxbuf EXCEPT ![idx] = <<>>]
  /\ FreeChannel
  /\ UNCHANGED <<upstreams, wire, txn_map, next_internal, pending, now, batch, gone, started, asked>>

(* The deadline has passed, or recv() reported an error.                    *)
DownFailed ==
  /\ AtChannel /\ state[idx] # None
  /\ LET s == state[idx] IN
       /\ IF WithInternal(s.internal_txn) = {} THEN UNCHANGED txn_map
          ELSE \E e \in WithInternal(s.internal_txn) : txn_map' = txn_map \ {e}
       /\ SendException(s.req, s.session_idx)
  /\ rxbuf' = [rxbuf EXCEPT ![idx] = <<>>]
  /\ FreeChannel
  /\ UNCHANGED <<upstreams, wire, next_internal, pending, now, batch, gone, started, asked>>

ServicePendingForgets ==
  /\ pc = "service" /\ limit > 0 /\ pending # <<>>
  /\ limit' = limit - 1
  /\ LET p == Head(pending)
         d == Route[p.req.unit]
     IN IF state[d] = None THEN Dispatch(d, p)
                           ELSE UNCHANGED <<downVars, answers, dropped>>
  /\ pending' = Tail(pending)
  /\ UNCHANGED <<upstreams, now, pc, idx, batch, gone, started, asked>>

(* One iteration of try_service_pending.  The route was found when the      *)
(* request was queued, and routes stay.                                     *)
ServicePending ==
  /\ pc = "service" /\ limit > 0 /\ pending # <<>>
  /\ limit' = limit - 1
  /\ LET p == Head(pending)
         d == Route[p.req.unit]
     IN IF state[d] = None
        THEN Dispatch(d, p) /\ pending' = Tail(pending)
        ELSE pending' = Append(Tail(pending), p) /\ UNCHANGED <<downVars, answers, dropped>>
  /\ UNCHANGED <<upstreams, now, pc, idx, batch, gone, started, asked>>

ServiceDone ==
  /\ pc = "service" /\ (limit = 0 \/ pending = <<>>)
  /\ limit' = 0
  /\ Goto("down", idx + 1)
  /\ UNCHANGED <<upstreams, downVars, pending, now, batch, gone, started, askVars>>

DownEnd ==
  /\ pc = "down" /\ idx > NDown
  /\ Goto("up", 1)
  /\ UNCHANGED <<upstreams, downVars, pending, now, limit, batch, gone, started, askVars>>

-----------------------------------------------------------------------------
(* Phase 2: upstream sessions.                                              *)

AtUpstream == pc = "up" /\ idx <= Len(upstreams)

(* What an upstream peer may have sent: up to two new requests, or nothing. *)
Fresh == {r \in Requests : r.client = upstreams[idx].client /\ r \notin asked}
Arrivals == {<<>>} \cup {<<r>> : r \in Fresh} \cup {<<r, s>> : r \in Fresh, s \in Fresh}

UpRecv ==
  /\ AtUpstream
  /\ \E new \in Arrivals :
       /\ Len(new) = 2 => new[1] # new[2]
       /\ batch' = new
       /\ asked' = asked \cup Elements(new)
  /\ Goto("route", idx)
  /\ UNCHANGED <<upstreams, downVars, pending, now, limit, gone, started, answers, dropped>>

UpLost ==
  /\ AtUpstream
  /\ gone' = Append(gone, upstreams[idx].session_id)
  /\ Goto("up", idx + 1)
  /\ UNCHANGED <<upstreams, downVars, pending, now, limit, batch, started, askVars>>

(* The request at hand: the first of the batch.                             *)
Current == [session_idx |-> upstreams[idx].session_id, req |-> Head(batch)]
Channel == Route[Head(batch).unit]
Routing == pc = "route" /\ batch # <<>>

(* Routing miss: the exception goes to the very transport it came from.     *)
RouteMiss ==
  /\ Routing /\ Channel = None
  /\ Respond(Head(batch), idx, Head(batch).txn, None) \/ GiveUp(Head(batch))
  /\ batch' = Tail(batch)
  /\ UNCHANGED <<upstreams, downVars, pending, now, pc, idx, limit, gone, started, asked>>

Busy == pending # <<>> \/ state[Channel] # None

(* route_or_queue_request, one action per outcome.                          *)
RouteForward ==
  /\ Routing /\ Channel # None /\ ~Busy
  /\ Dispatch(Channel, Current)
  /\ batch' = Tail(batch)
  /\ UNCHANGED <<upstreams, pending, now, pc, idx, limit, gone, started, asked>>

RouteQueue ==
  /\ Routing /\ Channel # None /\ Busy
  /\ Len(pending) < NPending
  /\ pending' = Append(pending, Current)
  /\ batch' = Tail(batch)
  /\ UNCHANGED <<upstreams, downVars, now, pc, idx, limit, gone, started, askVars>>

RouteReject ==
  /\ Routing /\ Channel # None /\ Busy
  /\ Len(pending) = NPending
  /\ SendException(Head(batch), Current.session_idx)
  /\ batch' = Tail(batch)
  /\ UNCHANGED <<upstreams, downVars, pending, now, pc, idx, limit, gone, started, asked>>

UpNext ==
  /\ pc = "route" /\ batch = <<>>
  /\ Goto("up", idx + 1)
  /\ UNCHANGED <<upstreams, downVars, pending, now, limit, batch, gone, started, askVars>>

UpEnd ==
  /\ pc = "up" /\ idx > Len(upstreams)
  /\ Goto("cleanup", 1)
  /\ UNCHANGED <<upstreams, downVars, pending, now, limit, batch, gone, started, askVars>>

-----------------------------------------------------------------------------
(* Phase 3: sessions that ended.                                            *)

SwapRemove(s, k) == [j \in 1..(Len(s) - 1) |-> IF j = k THEN s[Len(s)] ELSE s[j]]

Cleanup ==
  /\ pc = "cleanup" /\ gone # <<>>
  /\ IF PositionOf(Head(gone)) = {} THEN UNCHANGED upstreams
     ELSE \E k \in PositionOf(Head(gone)) : upstreams' = SwapRemove(upstreams, k)
  /\ txn_map' = {e \in txn_map : e.session_id # Head(gone)}
  /\ gone' = Tail(gone)
  /\ UNCHANGED <<state, rxbuf, wire, next_internal, pending, now, pc, idx, limit, batch,
                 started, askVars>>

PollEnd ==
  /\ pc = "cleanup" /\ gone = <<>>
  /\ Goto("idle", 1)
  /\ UNCHANGED <<upstreams, downVars, pending, now, limit, batch, gone, started, askVars>>

-----------------------------------------------------------------------------
(* add_upstream: to be called before poll(), unless LateJoin.               *)
NewSession(c) == [client |-> c, session_id |-> Len(upstreams)]

AddUpstream(c) ==
  /\ pc = "idle" /\ (started => LateJoin)
  /\ \A k \in DOMAIN upstreams : upstreams[k].client # c
  /\ Len(upstreams) < NUp
  /\ upstreams' = Append(upstreams, NewSession(c))
  /\ UNCHANGED <<downVars, pending, now, pollVars, askVars>>

Phase1 == DownIdle \/ DownRecv \/ DownNothing \/ DownComplete \/ DownFailed
            \/ ServicePending \/ ServiceDone \/ DownEnd
Phase2 == UpRecv \/ UpLost \/ RouteMiss \/ RouteForward \/ RouteQueue \/ RouteReject
            \/ UpNext \/ UpEnd
Phase3 == Cleanup \/ PollEnd
Poll == BeginPoll \/ Phase1 \/ Phase2 \/ Phase3

Step == Poll \/ \E c \in Clients : AddUpstream(c)

Tick ==
  /\ pc = "idle"
  /\ now' = now + 1
  /\ UNCHANGED <<upstreams, downVars, pending, pollVars, askVars>>

Next == Step \/ Tick
Spec == Init /\ [][Next]_vars

-----------------------------------------------------------------------------
(* Every variable keeps its type and no table exceeds its capacity.         *)
TypeOK ==
  /\ upstreams \in Seq([client : Clients, session_id : Nat]) /\ Len(upstreams) <= NUp
  /\ state \in [Channels -> AwaitingResponse \cup {None}]
  /\ rxbuf \in [Channels -> Seq(Requests)]
  /\ wire \in [Channels -> Seq(Requests)]
  /\ txn_map \in SUBSET TxnEntry /\ Cardinality(txn_map) <= TxnSize
  /\ next_internal \in 0..(TxnMod - 1)
  /\ pending \in Seq(PendingRequest) /\ Len(pending) <= NPending
  /\ now \in Nat
  /\ pc \in {"idle", "down", "received", "service", "up", "route", "cleanup"}
  /\ idx \in Nat \ {0} /\ limit \in 0..NPending
  /\ batch \in Seq(Requests) /\ gone \in Seq(Nat) /\ started \in BOOLEAN
  /\ asked \in SUBSET Requests /\ dropped \in SUBSET Requests
  /\ answers \in [Requests -> Seq(Answer)]

(* Every request the gateway has read from an upstream is in exactly one     *)
(* place: just read, in the pending queue, in flight on a channel, answered  *)
(* (once) or given up.  None is forgotten, held twice or answered twice.     *)
Places(r) ==
  Cardinality({k \in DOMAIN batch : batch[k] = r})
    + Cardinality({k \in DOMAIN pending : pending[k].req = r})
    + Cardinality({d \in Channels : state[d] # None /\ state[d].req = r})
    + Len(answers[r]) + (IF r \in dropped THEN 1 ELSE 0)
HeldOnce ==
  \A r \in Requests : Places(r) = IF r \in asked THEN 1 ELSE 0

(* The transaction map holds exactly the requests in flight for sessions     *)
(* that are still there, under distinct ids: no entry leaks when a request   *)
(* times out, fails, or loses its session.                                   *)
TxnMapExact ==
  /\ \A e \in txn_map : \E d \in Channels :
       /\ state[d] # None
       /\ e = [internal_txn |-> state[d].internal_txn, upstream_txn |-> state[d].req.txn,
               session_id |-> state[d].session_idx]
  /\ \A d \in Channels : state[d] # None /\ PositionOf(state[d].session_idx) # {} =>
       WithInternal(state[d].internal_txn) # {}
  /\ \A c, d \in Channels : state[c] # None /\ state[d] # None /\ c # d =>
       state[c].internal_txn # state[d].internal_txn

(* What is sent for a request goes to the client that asked, under the       *)
(* transaction id the client used.                                           *)
AnswerToOwner ==
  \A r \in Requests : \A k \in DOMAIN answers[r] :
    answers[r][k].to = r.client /\ answers[r][k].txn = r.txn

Outstanding == {r \in asked : answers[r] = <<>> /\ r \notin dropped}

(* Every request is eventually answered or given up: since clients send      *)
(* finitely many, the gateway comes to owe nobody an answer.  In particular  *)
(* nothing is left in the queue with no busy channel to wake it.             *)
EventuallySettled == Outstanding # {} ~> Outstanding = {}
=============================================================================
