-------------------------- MODULE GatewaySyncProofs --------------------------
(***************************************************************************)
(* Proofs about GatewaySync, for any number of clients, sessions, channels *)
(* and requests, any capacity of map and queue.                            *)
(*                                                                         *)
(* IndInv says where requests are: batch, queue and channels hold none     *)
(* twice and none is answered or given up twice (Once), no two of these    *)
(* places hold the same one, and together they hold what was asked         *)
(* (Apart). It needs no hypothesis, and HeldOnce follows by counting.      *)
(*                                                                         *)
(* MapExact and AnswerToOwner are about names: an internal transaction id  *)
(* stands for one request in flight, and a session id for one client. Both *)
(* kinds are reused by the code, so that the theorems about them have two  *)
(* hypotheses. Sessions are added before the first poll() only             *)
(* (~LateJoin), as the documentation of new() asks: the id of a session is *)
(* its position in the table, which a later session could share with a     *)
(* live one. And a request is not forwarded under an id under which        *)
(* another channel waits (IdFree): the u16 counter would have to go round  *)
(* during one response window. With one channel that cannot happen         *)
(* (OneChannelExact).                                                      *)
(***************************************************************************)
EXTENDS GatewaySync, FiniteSetTheorems, SequenceTheorems, TLAPS

(* Where poll() is: a channel or a session is at hand in the phases that    *)
(* work on one, and requests are in the batch only while they are routed.   *)
Positions ==
  /\ pc \in {"received", "service"} => idx \in Channels
  /\ pc = "received" => state[idx] # None
  /\ pc = "route" => idx \in DOMAIN upstreams
  /\ pc # "route" => batch = <<>>

(* Queued requests have a route.                                            *)
Routed == \A k \in DOMAIN pending : Route[pending[k].req.unit] \in Channels

(* The requests in the queue, on the channels, and the ones done with.      *)
Queued(q) == {q[k].req : k \in DOMAIN q}
OnChannel(s) == {s[d].req : d \in {d \in Channels : s[d] # None}}
Over == {r \in Requests : answers[r] # <<>>} \cup dropped

(* No part of the gateway holds a request twice.                            *)
BatchOnce(b) == \A i, j \in DOMAIN b : b[i] = b[j] => i = j
QueueOnce(q) == \A i, j \in DOMAIN q : q[i].req = q[j].req => i = j
ChannelOnce(s) == \A c, d \in Channels :
  s[c] # None /\ s[d] # None /\ s[c].req = s[d].req => c = d
OverOnce == \A r \in Requests : Len(answers[r]) <= 1 /\ (r \in dropped => answers[r] = <<>>)
Once == BatchOnce(batch) /\ QueueOnce(pending) /\ ChannelOnce(state) /\ OverOnce

(* No two parts hold the same, and together they hold what was asked.       *)
Apart ==
  /\ Elements(batch) \cap (Queued(pending) \cup OnChannel(state) \cup Over) = {}
  /\ Queued(pending) \cap (OnChannel(state) \cup Over) = {}
  /\ OnChannel(state) \cap Over = {}
  /\ asked = Elements(batch) \cup Queued(pending) \cup OnChannel(state) \cup Over

(* Session ids are those of the positions at registration, all different,   *)
(* and nothing has been asked before the first poll().                      *)
Registered ==
  /\ \A j, k \in DOMAIN upstreams : upstreams[j].session_id = upstreams[k].session_id => j = k
  /\ ~started => /\ pc = "idle" /\ pending = <<>>
                 /\ \A k \in DOMAIN upstreams : upstreams[k].session_id = k - 1
                 /\ \A d \in Channels : state[d] = None

(* A session id stands for the client whose request carries it.             *)
Names(s, r) == \A k \in DOMAIN upstreams : upstreams[k].session_id = s => upstreams[k].client = r.client
Owned ==
  /\ \A k \in DOMAIN batch : pc = "route" => batch[k].client = upstreams[idx].client
  /\ \A k \in DOMAIN pending : Names(pending[k].session_idx, pending[k].req)
  /\ \A d \in Channels : state[d] # None => Names(state[d].session_idx, state[d].req)

(* A request is forwarded under an internal transaction id under which no   *)
(* other channel waits.                                                     *)
IdFree ==
  \A c, d \in Channels : state[d] = None /\ state'[d] # None /\ state[c] # None =>
    state[c].internal_txn # next_internal

-----------------------------------------------------------------------------
(* Taking the head of a sequence moves every other element by one.          *)
LEMMA TailFacts ==
  ASSUME NEW S, NEW s \in Seq(S), s # <<>>
  PROVE  /\ Head(s) \in S /\ Head(s) = s[1] /\ 1 \in DOMAIN s /\ Tail(s) \in Seq(S)
         /\ Len(s) \in Nat \ {0} /\ DOMAIN s = 1..Len(s)
         /\ Len(Tail(s)) = Len(s) - 1 /\ DOMAIN Tail(s) = 1..(Len(s) - 1)
         /\ \A k \in 1..(Len(s) - 1) : Tail(s)[k] = s[k + 1]
<1>1. Len(s) \in Nat \ {0} /\ DOMAIN s = 1..Len(s)
  BY EmptySeq, LenProperties
<1>2. /\ Head(s) \in S /\ Tail(s) \in Seq(S) /\ Len(Tail(s)) = Len(s) - 1
      /\ \A k \in 1..Len(Tail(s)) : Tail(s)[k] = s[k + 1]
  BY HeadTailProperties
<1>3. DOMAIN Tail(s) = 1..Len(Tail(s))
  BY <1>2, LenProperties
<1>4. Head(s) = s[1]
  OBVIOUS
<1> QED
  BY <1>1, <1>2, <1>3, <1>4

(* Appending leaves the other elements where they are.                      *)
LEMMA AppendFacts ==
  ASSUME NEW S, NEW s \in Seq(S), NEW x \in S
  PROVE  /\ Append(s, x) \in Seq(S) /\ Append(s, x) # <<>>
         /\ Len(s) \in Nat /\ Len(Append(s, x)) = Len(s) + 1
         /\ DOMAIN s = 1..Len(s) /\ DOMAIN Append(s, x) = 1..(Len(s) + 1)
         /\ \A k \in 1..Len(s) : Append(s, x)[k] = s[k]
         /\ Append(s, x)[Len(s) + 1] = x
BY AppendProperties, LenProperties

(* What Vec::swap_remove leaves: the last element takes the place of the    *)
(* one removed.                                                             *)
LEMMA SwapRemoveFacts ==
  ASSUME NEW S, NEW s \in Seq(S), NEW k \in DOMAIN s
  PROVE  /\ SwapRemove(s, k) \in Seq(S) /\ Len(SwapRemove(s, k)) = Len(s) - 1
         /\ Len(s) \in Nat \ {0} /\ DOMAIN s = 1..Len(s)
         /\ DOMAIN SwapRemove(s, k) = 1..(Len(s) - 1)
         /\ \A j \in 1..(Len(s) - 1) : SwapRemove(s, k)[j] = IF j = k THEN s[Len(s)] ELSE s[j]
<1> DEFINE n == Len(s) - 1
           t == SwapRemove(s, k)
<1>1. /\ Len(s) \in Nat \ {0} /\ DOMAIN s = 1..Len(s) /\ n \in Nat
      /\ \A j \in 1..Len(s) : s[j] \in S
  BY LenProperties, ElementOfSeq
<1>2. t \in [1..n -> S]
  BY <1>1 DEF SwapRemove
<1>3. t \in Seq(S)
  BY <1>1, <1>2, SeqDef
<1>4. DOMAIN t = 1..n
  BY <1>2
<1> HIDE DEF n, t
<1>5. Len(t) = n
  BY <1>1, <1>3, <1>4, LenProperties
<1> QED
  BY <1>1, <1>3, <1>4, <1>5 DEF SwapRemove, n, t

(* The sessions.                                                            *)
LEMMA SessionFacts ==
  ASSUME TypeOK
  PROVE  /\ Len(upstreams) \in Nat /\ DOMAIN upstreams = 1..Len(upstreams)
         /\ \A k \in DOMAIN upstreams :
              /\ upstreams[k] \in [client : Clients, session_id : Nat]
              /\ upstreams[k].client \in Clients /\ upstreams[k].session_id \in Nat
<1>1. upstreams \in Seq([client : Clients, session_id : Nat])
  BY DEF TypeOK
<1>2. Len(upstreams) \in Nat /\ DOMAIN upstreams = 1..Len(upstreams)
  BY <1>1, LenProperties
<1>3. \A k \in DOMAIN upstreams : upstreams[k] \in [client : Clients, session_id : Nat]
  BY <1>1, <1>2, ElementOfSeq
<1> QED
  BY <1>2, <1>3

(* What a request in the model is made of.                                  *)
LEMMA RequestFacts ==
  ASSUME NEW r \in Requests
  PROVE  r.client \in Clients /\ r.txn \in Nat /\ r.unit \in Units /\ Route[r.unit] \in Channels \cup {None}
BY RequestsAssumption, RouteAssumption

(* r comes to its end: one answer is sent for it, or it is given up.        *)
Ended(r) ==
  \/ \E a \in Answer : answers' = [answers EXCEPT ![r] = Append(@, a)] /\ UNCHANGED dropped
  \/ dropped' = dropped \cup {r} /\ UNCHANGED answers

(* One answer sent is an end.                                               *)
LEMMA RespondEnds ==
  ASSUME TypeOK, NEW r \in Requests, NEW k \in DOMAIN upstreams, NEW txn \in Nat,
         NEW about \in Requests \cup {None}, Respond(r, k, txn, about)
  PROVE  Ended(r)
<1>1. upstreams[k].client \in Clients
  BY SessionFacts
<1>2. [to |-> upstreams[k].client, txn |-> txn, about |-> about] \in Answer
  BY <1>1 DEF Answer
<1> QED
  BY <1>2 DEF Respond, Ended

(* So is an exception, also to a session that is gone.                      *)
LEMMA ExceptionEnds ==
  ASSUME TypeOK, NEW r \in Requests, NEW s, SendException(r, s)
  PROVE  Ended(r)
<1>1. CASE GiveUp(r)
  BY <1>1 DEF GiveUp, Ended
<1>2. ASSUME NEW k \in PositionOf(s), Respond(r, k, r.txn, None) PROVE Ended(r)
  BY <1>2, RequestFacts, RespondEnds DEF PositionOf
<1> QED
  BY <1>1, <1>2 DEF SendException

(* An end keeps answers and dropped requests typed.                         *)
LEMMA EndedType ==
  ASSUME TypeOK, NEW r \in Requests, Ended(r)
  PROVE  answers' \in [Requests -> Seq(Answer)] /\ dropped' \in SUBSET Requests
<1>1. ASSUME NEW a \in Answer PROVE Append(answers[r], a) \in Seq(Answer)
  BY AppendProperties DEF TypeOK
<1> QED
  BY <1>1 DEF Ended, TypeOK

(* The part of TypeOK that dispatch_to_downstream works on.                 *)
DownType ==
  /\ state \in [Channels -> AwaitingResponse \cup {None}]
  /\ rxbuf \in [Channels -> Seq(Requests)]
  /\ wire \in [Channels -> Seq(Requests)]
  /\ txn_map \in SUBSET TxnEntry /\ Cardinality(txn_map) <= TxnSize /\ IsFiniteSet(txn_map)
  /\ next_internal \in 0..(TxnMod - 1)
EndType == answers \in [Requests -> Seq(Answer)] /\ dropped \in SUBSET Requests

(* What dispatch_to_downstream does to channels and requests.               *)
Waiting(d, p) == [internal_txn |-> next_internal, session_idx |-> p.session_idx,
                  deadline_ms |-> now + ResponseTimeout, req |-> p.req]
Dispatched(d, p) ==
  \/ state' = [state EXCEPT ![d] = Waiting(d, p)] /\ UNCHANGED <<answers, dropped>>
  \/ state' = state /\ Ended(p.req)

(* An entry is allocated only while the map has room.                       *)
LEMMA MapGrows ==
  ASSUME IsFiniteSet(txn_map), TxnMapHasRoom, NEW e
  PROVE  IsFiniteSet(txn_map \cup {e}) /\ Cardinality(txn_map \cup {e}) <= TxnSize
<1>1. Cardinality(txn_map) \in Nat
  BY FS_CardinalityType
<1>2. /\ IsFiniteSet(txn_map \cup {e})
      /\ Cardinality(txn_map \cup {e}) = IF e \in txn_map THEN Cardinality(txn_map) ELSE Cardinality(txn_map) + 1
  BY FS_AddElement
<1> QED
  BY <1>1, <1>2, CapacityAssumption DEF TxnMapHasRoom

(* dispatch_to_downstream keeps the types, and either makes the channel     *)
(* wait or ends the request.                                                *)
LEMMA DispatchFacts ==
  ASSUME TypeOK, IsFiniteSet(txn_map), NEW d \in Channels, NEW p \in PendingRequest, Dispatch(d, p)
  PROVE  DownType' /\ EndType' /\ Dispatched(d, p)
<1> USE CapacityAssumption
<1>0. p.req \in Requests /\ p.session_idx \in Nat /\ p.req.txn \in Nat
  BY RequestFacts DEF PendingRequest
<1>1. CASE Forward(d, p)
  <2>1. [internal_txn |-> next_internal, upstream_txn |-> p.req.txn,
         session_id |-> p.session_idx] \in TxnEntry
    BY <1>0 DEF TypeOK, TxnEntry
  <2>2. /\ txn_map' \in SUBSET TxnEntry /\ Cardinality(txn_map') <= TxnSize /\ IsFiniteSet(txn_map')
    BY <1>1, <2>1, MapGrows DEF Forward, TypeOK
  <2>3. Waiting(d, p) \in AwaitingResponse
    BY <1>0 DEF TypeOK, AwaitingResponse, Waiting
  <2>4. state' \in [Channels -> AwaitingResponse \cup {None}]
    BY <1>1, <2>3 DEF Forward, TypeOK, Waiting
  <2>5. Append(wire[d], p.req) \in Seq(Requests)
    BY <1>0, AppendProperties DEF TypeOK
  <2>6. wire' \in [Channels -> Seq(Requests)]
    BY <1>1, <2>5 DEF Forward, TypeOK
  <2>7. next_internal' \in 0..(TxnMod - 1)
    BY <1>1 DEF Forward, TypeOK
  <2>8. EndType' /\ rxbuf' \in [Channels -> Seq(Requests)]
    BY <1>1 DEF Forward, TypeOK, EndType
  <2>9. Dispatched(d, p)
    BY <1>1 DEF Forward, Dispatched, Waiting
  <2> QED
    BY <2>2, <2>4, <2>6, <2>7, <2>8, <2>9 DEF DownType
<1>2. CASE ForwardFailed(p)
  <2>1. Ended(p.req)
    BY <1>0, <1>2, ExceptionEnds DEF ForwardFailed
  <2>2. EndType'
    BY <1>0, <2>1, EndedType DEF EndType
  <2>3. next_internal' \in 0..(TxnMod - 1)
    BY <1>2 DEF ForwardFailed, TypeOK
  <2>4. DownType'
    BY <1>2, <2>3 DEF ForwardFailed, DownType, TypeOK
  <2> QED
    BY <1>2, <2>1, <2>2, <2>4 DEF ForwardFailed, Dispatched
<1> QED
  BY <1>1, <1>2 DEF Dispatch

(* The request at hand, and the session it came from.                       *)
LEMMA CurrentFacts ==
  ASSUME TypeOK, Positions, Routing
  PROVE  /\ Head(batch) \in Requests /\ Current \in PendingRequest /\ Current.req = Head(batch)
         /\ idx \in DOMAIN upstreams /\ Current.session_idx = upstreams[idx].session_id
         /\ Tail(batch) \in Seq(Requests)
<1>1. Head(batch) \in Requests /\ Tail(batch) \in Seq(Requests)
  BY TailFacts DEF TypeOK, Routing
<1>2. idx \in DOMAIN upstreams
  BY DEF Positions, Routing
<1>3. upstreams[idx].session_id \in Nat
  BY <1>2, SessionFacts
<1> QED
  BY <1>1, <1>2, <1>3 DEF Current, PendingRequest

(* The request at the front of the queue, and the queue without it or with  *)
(* it at the back.                                                          *)
LEMMA QueueHead ==
  ASSUME TypeOK, Routed, pending # <<>>
  PROVE  /\ Head(pending) \in PendingRequest /\ Head(pending).req \in Requests
         /\ Route[Head(pending).req.unit] \in Channels
         /\ Tail(pending) \in Seq(PendingRequest) /\ Len(Tail(pending)) <= NPending
         /\ Append(Tail(pending), Head(pending)) \in Seq(PendingRequest)
         /\ Len(Append(Tail(pending), Head(pending))) <= NPending
<1>1. /\ Head(pending) \in PendingRequest /\ Tail(pending) \in Seq(PendingRequest)
      /\ Len(Tail(pending)) = Len(pending) - 1 /\ Len(pending) \in Nat
      /\ Head(pending) = pending[1] /\ 1 \in DOMAIN pending
  BY TailFacts DEF TypeOK
<1>2. /\ Append(Tail(pending), Head(pending)) \in Seq(PendingRequest)
      /\ Len(Append(Tail(pending), Head(pending))) = Len(Tail(pending)) + 1
  BY <1>1, AppendProperties
<1>3. Len(pending) <= NPending
  BY DEF TypeOK
<1>4. Head(pending).req \in Requests
  BY <1>1 DEF PendingRequest
<1>5. Route[Head(pending).req.unit] \in Channels
  BY <1>1 DEF Routed
<1> QED
  BY <1>1, <1>2, <1>3, <1>4, <1>5, CapacityAssumption

(* Removing entries keeps the map typed and within its bound.               *)
LEMMA MapShrinks ==
  ASSUME TypeOK, IsFiniteSet(txn_map), txn_map' \subseteq txn_map
  PROVE  txn_map' \in SUBSET TxnEntry /\ IsFiniteSet(txn_map') /\ Cardinality(txn_map') <= TxnSize
<1>1. /\ IsFiniteSet(txn_map') /\ Cardinality(txn_map') <= Cardinality(txn_map)
      /\ Cardinality(txn_map') \in Nat /\ Cardinality(txn_map) \in Nat
  BY FS_Subset, FS_CardinalityType
<1> QED
  BY <1>1, CapacityAssumption DEF TypeOK

(* Phase 1 visits channels.                                                 *)
LEMMA AtChannelFacts ==
  ASSUME TypeOK, AtChannel
  PROVE  idx \in Channels
BY CapacityAssumption DEF TypeOK, AtChannel, Channels

(* A response taken from a channel's buffer ends the request the channel    *)
(* waits on, whatever the response is.                                      *)
LEMMA CompleteEnds ==
  ASSUME TypeOK, DownComplete, idx \in Channels, state[idx].req \in Requests,
         Head(rxbuf[idx]) \in Requests
  PROVE  Ended(state[idx].req)
<1>1. CASE GiveUp(state[idx].req)
  BY <1>1 DEF GiveUp, Ended
<1>2. ASSUME NEW e \in WithInternal(state[idx].internal_txn),
             NEW k \in PositionOf(state[idx].session_idx),
             Respond(state[idx].req, k, e.upstream_txn, Head(rxbuf[idx]))
      PROVE  Ended(state[idx].req)
  <2>1. e.upstream_txn \in Nat /\ k \in DOMAIN upstreams
    BY DEF WithInternal, PositionOf, TypeOK, TxnEntry
  <2> QED
    BY <1>2, <2>1, RespondEnds
<1> QED
  BY <1>1, <1>2 DEF DownComplete

(* No step breaks the types.                                                *)
LEMMA TypeStep ==
  ASSUME TypeOK, Positions, Routed, IsFiniteSet(txn_map), [Next]_vars
  PROVE  TypeOK' /\ IsFiniteSet(txn_map')
<1> USE RequestsAssumption, CapacityAssumption, RouteAssumption, NoneAssumption
<1>1. CASE BeginPoll
  BY <1>1 DEF TypeOK, BeginPoll, downVars, pollVars, askVars, Goto
<1>2. CASE DownIdle
  BY <1>2 DEF TypeOK, DownIdle, AtChannel, downVars, pollVars, askVars, Goto
<1>3. CASE DownRecv
  <2>1. PICK a \in 1..(Len(wire[idx]) + 1), b \in 0..Len(wire[idx]) :
          /\ a <= b + 1
          /\ rxbuf' = [rxbuf EXCEPT ![idx] =
               IF Len(rxbuf[idx]) + Len(SubSeq(wire[idx], a, b)) <= RxCapacity
               THEN @ \o SubSeq(wire[idx], a, b) ELSE <<>>]
          /\ wire' = [wire EXCEPT ![idx] = SubSeq(@, b + 1, Len(@))]
    BY <1>3 DEF DownRecv
  <2>0. idx \in Channels
    BY <1>3, AtChannelFacts DEF DownRecv
  <2>2. wire[idx] \in Seq(Requests) /\ rxbuf[idx] \in Seq(Requests)
    BY <2>0 DEF TypeOK
  <2>3. Len(wire[idx]) \in Nat /\ \A i \in 1..Len(wire[idx]) : wire[idx][i] \in Requests
    BY <2>2, LenProperties, ElementOfSeq
  <2>4. SubSeq(wire[idx], a, b) \in Seq(Requests)
    BY <2>2, <2>3, SubSeqProperties
  <2>5. SubSeq(wire[idx], b + 1, Len(wire[idx])) \in Seq(Requests)
    BY <2>2, <2>3, SubSeqProperties
  <2>6. rxbuf[idx] \o SubSeq(wire[idx], a, b) \in Seq(Requests) /\ <<>> \in Seq(Requests)
    BY <2>2, <2>4, ConcatProperties
  <2>7. rxbuf' \in [Channels -> Seq(Requests)] /\ wire' \in [Channels -> Seq(Requests)]
    BY <2>0, <2>1, <2>2, <2>5, <2>6 DEF TypeOK
  <2> QED
    BY <1>3, <2>7 DEF TypeOK, DownRecv, AtChannel, pollVars, askVars, Goto
<1>4. CASE DownNothing
  BY <1>4 DEF TypeOK, DownNothing, downVars, pollVars, askVars, Goto
<1>5. CASE DownComplete
  <2>1. idx \in Channels /\ state[idx] \in AwaitingResponse
    BY <1>5 DEF DownComplete, Positions, TypeOK
  <2>2. state[idx].req \in Requests /\ state[idx].req.txn \in Nat
    BY <2>1, RequestFacts DEF AwaitingResponse
  <2>3. Head(rxbuf[idx]) \in Requests /\ Tail(rxbuf[idx]) \in Seq(Requests)
    BY <1>5, <2>1, TailFacts DEF DownComplete, TypeOK
  <2>4. Ended(state[idx].req)
    BY <1>5, <2>1, <2>2, <2>3, CompleteEnds
  <2>5. EndType'
    BY <2>2, <2>4, EndedType DEF EndType
  <2>6. txn_map' \subseteq txn_map
    BY <1>5 DEF DownComplete
  <2>7. txn_map' \in SUBSET TxnEntry /\ IsFiniteSet(txn_map') /\ Cardinality(txn_map') <= TxnSize
    BY <2>6, MapShrinks
  <2>8. rxbuf' \in [Channels -> Seq(Requests)] /\ state' \in [Channels -> AwaitingResponse \cup {None}]
    BY <1>5, <2>1, <2>3 DEF DownComplete, FreeChannel, TypeOK
  <2>9. pc' = "service" /\ idx' \in Nat \ {0} /\ limit' \in 0..NPending
    BY <1>5 DEF DownComplete, FreeChannel, Goto, TypeOK
  <2> QED
    BY <1>5, <2>5, <2>7, <2>8, <2>9 DEF TypeOK, EndType, DownComplete
<1>6. CASE DownFailed
  <2>1. idx \in Channels /\ state[idx] \in AwaitingResponse
    BY <1>6, AtChannelFacts DEF DownFailed, TypeOK
  <2>2. state[idx].req \in Requests
    BY <2>1 DEF AwaitingResponse
  <2>4. Ended(state[idx].req)
    BY <1>6, <2>2, ExceptionEnds DEF DownFailed
  <2>5. EndType'
    BY <2>2, <2>4, EndedType DEF EndType
  <2>6. txn_map' \subseteq txn_map
    BY <1>6 DEF DownFailed
  <2>7. txn_map' \in SUBSET TxnEntry /\ IsFiniteSet(txn_map') /\ Cardinality(txn_map') <= TxnSize
    BY <2>6, MapShrinks
  <2>8. rxbuf' \in [Channels -> Seq(Requests)] /\ state' \in [Channels -> AwaitingResponse \cup {None}]
    BY <1>6, <2>1 DEF DownFailed, FreeChannel, TypeOK
  <2>9. pc' = "service" /\ idx' \in Nat \ {0} /\ limit' \in 0..NPending
    BY <1>6 DEF DownFailed, FreeChannel, Goto, TypeOK
  <2> QED
    BY <1>6, <2>5, <2>7, <2>8, <2>9 DEF TypeOK, EndType, DownFailed
<1>7. CASE ServicePending
  <2> DEFINE p == Head(pending)
             d == Route[p.req.unit]
  <2>0. /\ p \in PendingRequest /\ d \in Channels
        /\ Tail(pending) \in Seq(PendingRequest) /\ Len(Tail(pending)) <= NPending
        /\ Append(Tail(pending), p) \in Seq(PendingRequest) /\ Len(Append(Tail(pending), p)) <= NPending
    BY <1>7, QueueHead DEF ServicePending
  <2>9. limit' \in 0..NPending
    BY <1>7 DEF ServicePending, TypeOK
  <2>1. CASE state[d] = None
    <3>1. Dispatch(d, p) /\ pending' = Tail(pending)
      BY <1>7, <2>1 DEF ServicePending
    <3> HIDE DEF p, d
    <3>2. DownType' /\ EndType'
      BY <2>0, <3>1, DispatchFacts
    <3> QED
      BY <1>7, <2>0, <2>9, <3>1, <3>2 DEF TypeOK, DownType, EndType, ServicePending
  <2>2. CASE state[d] # None
    <3>1. pending' = Append(Tail(pending), p) /\ UNCHANGED <<downVars, answers, dropped>>
      BY <1>7, <2>2 DEF ServicePending
    <3> HIDE DEF p, d
    <3> QED
      BY <1>7, <2>0, <2>9, <3>1 DEF TypeOK, downVars, ServicePending
  <2> QED
    BY <2>1, <2>2
<1>8. CASE ServiceDone
  BY <1>8 DEF TypeOK, ServiceDone, downVars, pollVars, askVars, Goto
<1>9. CASE DownEnd
  BY <1>9 DEF TypeOK, DownEnd, downVars, pollVars, askVars, Goto
<1>10. CASE UpRecv
  <2>1. PICK new \in Arrivals : batch' = new /\ asked' = asked \cup Elements(new)
    BY <1>10 DEF UpRecv
  <2>2. new \in Seq(Requests)
    <3>1. CASE new = <<>>
      BY <3>1
    <3>2. ASSUME NEW r \in Fresh, new = <<r>> PROVE new \in Seq(Requests)
      BY <3>2 DEF Fresh
    <3>3. ASSUME NEW r \in Fresh, NEW s \in Fresh, new = <<r, s>> PROVE new \in Seq(Requests)
      BY <3>3 DEF Fresh
    <3> QED
      BY <3>1, <3>2, <3>3 DEF Arrivals
  <2>3. Elements(new) \subseteq Requests
    BY <2>2, LenProperties, ElementOfSeq DEF Elements
  <2> QED
    BY <1>10, <2>1, <2>2, <2>3 DEF TypeOK, UpRecv, AtUpstream, downVars, Goto
<1>11. CASE UpLost
  <2>1. idx \in DOMAIN upstreams
    BY <1>11, SessionFacts DEF UpLost, AtUpstream, TypeOK
  <2>2. upstreams[idx].session_id \in Nat
    BY <2>1, SessionFacts
  <2>3. gone' \in Seq(Nat)
    BY <1>11, <2>2, AppendProperties DEF UpLost, TypeOK
  <2> QED
    BY <1>11, <2>3 DEF TypeOK, UpLost, AtUpstream, downVars, askVars, Goto
<1>12. CASE RouteMiss
  <2>1. Head(batch) \in Requests /\ Tail(batch) \in Seq(Requests) /\ idx \in DOMAIN upstreams
    BY <1>12, CurrentFacts DEF RouteMiss
  <2>2. Ended(Head(batch))
    BY <1>12, <2>1, RequestFacts, RespondEnds DEF RouteMiss, GiveUp, Ended
  <2>3. EndType'
    BY <2>1, <2>2, EndedType DEF EndType
  <2> QED
    BY <1>12, <2>1, <2>3 DEF TypeOK, EndType, RouteMiss, downVars
<1>13. CASE RouteForward
  <2>1. /\ Current \in PendingRequest /\ Tail(batch) \in Seq(Requests) /\ Channel \in Channels
    BY <1>13, CurrentFacts, RequestFacts DEF RouteForward, Channel
  <2>2. DownType' /\ EndType'
    BY <1>13, <2>1, DispatchFacts DEF RouteForward
  <2> QED
    BY <1>13, <2>1, <2>2 DEF TypeOK, DownType, EndType, RouteForward
<1>14. CASE RouteQueue
  <2>1. Current \in PendingRequest /\ Tail(batch) \in Seq(Requests)
    BY <1>14, CurrentFacts DEF RouteQueue
  <2>2. pending' \in Seq(PendingRequest) /\ Len(pending') <= NPending
    BY <1>14, <2>1, AppendFacts DEF RouteQueue, TypeOK
  <2> QED
    BY <1>14, <2>1, <2>2 DEF TypeOK, RouteQueue, downVars, askVars
<1>15. CASE RouteReject
  <2>1. Head(batch) \in Requests /\ Tail(batch) \in Seq(Requests)
    BY <1>15, CurrentFacts DEF RouteReject
  <2>2. Ended(Head(batch))
    BY <1>15, <2>1, ExceptionEnds DEF RouteReject
  <2>3. EndType'
    BY <2>1, <2>2, EndedType DEF EndType
  <2> QED
    BY <1>15, <2>1, <2>3 DEF TypeOK, EndType, RouteReject, downVars
<1>16. CASE UpNext
  BY <1>16 DEF TypeOK, UpNext, downVars, pollVars, askVars, Goto
<1>17. CASE UpEnd
  BY <1>17 DEF TypeOK, UpEnd, downVars, pollVars, askVars, Goto
<1>18. CASE Cleanup
  <2>1. ASSUME NEW k \in PositionOf(Head(gone)), upstreams' = SwapRemove(upstreams, k)
        PROVE  upstreams' \in Seq([client : Clients, session_id : Nat]) /\ Len(upstreams') <= NUp
    BY <2>1, SwapRemoveFacts DEF TypeOK, PositionOf
  <2>2. upstreams' \in Seq([client : Clients, session_id : Nat]) /\ Len(upstreams') <= NUp
    BY <1>18, <2>1 DEF Cleanup, TypeOK
  <2>3. txn_map' \subseteq txn_map
    BY <1>18 DEF Cleanup
  <2>4. txn_map' \in SUBSET TxnEntry /\ IsFiniteSet(txn_map') /\ Cardinality(txn_map') <= TxnSize
    BY <2>3, MapShrinks
  <2>5. gone' \in Seq(Nat)
    BY <1>18, TailFacts DEF Cleanup, TypeOK
  <2> QED
    BY <1>18, <2>2, <2>4, <2>5 DEF TypeOK, Cleanup, askVars
<1>19. CASE PollEnd
  BY <1>19 DEF TypeOK, PollEnd, downVars, pollVars, askVars, Goto
<1>20. ASSUME NEW c \in Clients, AddUpstream(c) PROVE TypeOK' /\ IsFiniteSet(txn_map')
  <2>1. [client |-> c, session_id |-> Len(upstreams)] \in [client : Clients, session_id : Nat]
    BY SessionFacts
  <2>2. upstreams' \in Seq([client : Clients, session_id : Nat]) /\ Len(upstreams') <= NUp
    BY <1>20, <2>1, AppendFacts DEF AddUpstream, NewSession, TypeOK
  <2> QED
    BY <1>20, <2>2 DEF TypeOK, AddUpstream, downVars, pollVars, askVars
<1>21. CASE Tick
  BY <1>21 DEF TypeOK, Tick, downVars, pollVars, askVars, Goto
<1>22. CASE UNCHANGED vars
  BY <1>22 DEF TypeOK, vars, downVars, pollVars, askVars
<1> QED
  BY <1>1, <1>2, <1>3, <1>4, <1>5, <1>6, <1>7, <1>8, <1>9, <1>10, <1>11, <1>12, <1>13, <1>14,
     <1>15, <1>16, <1>17, <1>18, <1>19, <1>20, <1>21, <1>22 DEF Next, Step, Poll, Phase1,
     Phase2, Phase3

(* No step breaks Positions.                                                *)
LEMMA PositionsStep ==
  ASSUME TypeOK, Positions, Routed, IsFiniteSet(txn_map), [Next]_vars
  PROVE  Positions'
<1> USE CapacityAssumption
<1>1. CASE BeginPoll
  BY <1>1 DEF Positions, BeginPoll, downVars, pollVars, askVars, Goto
<1>2. CASE DownIdle
  BY <1>2 DEF Positions, DownIdle, downVars, pollVars, askVars, Goto, AtChannel
<1>3. CASE DownRecv
  <2>1. idx \in Channels
    BY <1>3, AtChannelFacts DEF DownRecv
  <2> QED
    BY <1>3, <2>1 DEF Positions, DownRecv, TypeOK, Channels, AtChannel, Goto
<1>4. CASE DownNothing
  BY <1>4 DEF Positions, DownNothing, downVars, pollVars, askVars, Goto
<1>5. CASE DownComplete
  BY <1>5 DEF Positions, DownComplete, TypeOK, downVars, pollVars, askVars, Goto, FreeChannel
<1>6. CASE DownFailed
  <2>1. idx \in Channels
    BY <1>6, AtChannelFacts DEF DownFailed
  <2> QED
    BY <1>6, <2>1 DEF Positions, DownFailed, AtChannel, FreeChannel, Goto
<1>7. CASE ServicePending
  BY <1>7 DEF Positions, ServicePending, downVars, pollVars, askVars, Goto
<1>8. CASE ServiceDone
  BY <1>8 DEF Positions, ServiceDone, downVars, pollVars, askVars, Goto
<1>9. CASE DownEnd
  BY <1>9 DEF Positions, DownEnd, downVars, pollVars, askVars, Goto
<1>10. CASE UpRecv
  <2>1. idx \in DOMAIN upstreams
    BY <1>10, SessionFacts DEF UpRecv, AtUpstream, TypeOK
  <2> QED
    BY <1>10, <2>1 DEF Positions, UpRecv, AtUpstream, Goto
<1>11. CASE UpLost
  BY <1>11 DEF Positions, UpLost, downVars, pollVars, askVars, Goto, AtUpstream
<1>12. CASE RouteMiss
  BY <1>12 DEF Positions, RouteMiss, downVars, pollVars, askVars, Goto, Routing
<1>13. CASE RouteForward
  BY <1>13 DEF Positions, RouteForward, downVars, pollVars, askVars, Goto, Routing
<1>14. CASE RouteQueue
  BY <1>14 DEF Positions, RouteQueue, downVars, pollVars, askVars, Goto, Routing
<1>15. CASE RouteReject
  BY <1>15 DEF Positions, RouteReject, downVars, pollVars, askVars, Goto, Routing
<1>16. CASE UpNext
  BY <1>16 DEF Positions, UpNext, downVars, pollVars, askVars, Goto
<1>17. CASE UpEnd
  BY <1>17 DEF Positions, UpEnd, downVars, pollVars, askVars, Goto
<1>18. CASE Cleanup
  BY <1>18 DEF Positions, Cleanup, downVars, pollVars, askVars, Goto
<1>19. CASE PollEnd
  BY <1>19 DEF Positions, PollEnd, downVars, pollVars, askVars, Goto
<1>20. ASSUME NEW c \in Clients, AddUpstream(c) PROVE Positions'
  BY <1>20 DEF Positions, AddUpstream, downVars, pollVars, askVars, Goto
<1>21. CASE Tick
  BY <1>21 DEF Positions, Tick, downVars, pollVars, askVars, Goto
<1>22. CASE UNCHANGED vars
  BY <1>22 DEF Positions, vars, downVars, pollVars, askVars
<1> QED
  BY <1>1, <1>2, <1>3, <1>4, <1>5, <1>6, <1>7, <1>8, <1>9, <1>10, <1>11, <1>12, <1>13, <1>14,
     <1>15, <1>16, <1>17, <1>18, <1>19, <1>20, <1>21, <1>22 DEF Next, Step, Poll, Phase1,
     Phase2, Phase3

(* No step breaks Routed: only routed requests are queued.                  *)
LEMMA RoutedStep ==
  ASSUME TypeOK, Positions, Routed, IsFiniteSet(txn_map), [Next]_vars
  PROVE  Routed'
<1>1. CASE BeginPoll
  BY <1>1 DEF Routed, BeginPoll, downVars, pollVars, askVars, Goto
<1>2. CASE DownIdle
  BY <1>2 DEF Routed, DownIdle, downVars, pollVars, askVars, Goto, AtChannel
<1>3. CASE DownRecv
  BY <1>3 DEF Routed, DownRecv, downVars, pollVars, askVars, Goto, AtChannel
<1>4. CASE DownNothing
  BY <1>4 DEF Routed, DownNothing, downVars, pollVars, askVars, Goto
<1>5. CASE DownComplete
  BY <1>5 DEF Routed, DownComplete, downVars, pollVars, askVars, Goto, FreeChannel
<1>6. CASE DownFailed
  BY <1>6 DEF Routed, DownFailed, downVars, pollVars, askVars, Goto, AtChannel, FreeChannel
<1>7. CASE ServicePending
  <2>1. /\ Tail(pending) \in Seq(PendingRequest) /\ Head(pending) \in PendingRequest
        /\ Route[Head(pending).req.unit] \in Channels
    BY <1>7, QueueHead DEF ServicePending
  <2>2. /\ Len(pending) \in Nat \ {0} /\ DOMAIN pending = 1..Len(pending)
        /\ Len(Tail(pending)) = Len(pending) - 1 /\ DOMAIN Tail(pending) = 1..(Len(pending) - 1)
        /\ \A k \in 1..(Len(pending) - 1) : Tail(pending)[k] = pending[k + 1]
    BY <1>7, TailFacts DEF ServicePending, TypeOK
  <2>3. \A k \in DOMAIN Tail(pending) : Route[Tail(pending)[k].req.unit] \in Channels
    BY <2>2 DEF Routed
  <2>4. CASE pending' = Tail(pending)
    BY <2>3, <2>4 DEF Routed
  <2>5. CASE pending' = Append(Tail(pending), Head(pending))
    <3>1. /\ DOMAIN pending' = 1..(Len(Tail(pending)) + 1)
          /\ \A k \in 1..Len(Tail(pending)) : pending'[k] = Tail(pending)[k]
          /\ pending'[Len(Tail(pending)) + 1] = Head(pending)
      BY <2>1, <2>5, AppendFacts
    <3> QED
      BY <2>1, <2>2, <2>3, <3>1 DEF Routed
  <2> QED
    BY <1>7, <2>4, <2>5 DEF ServicePending
<1>8. CASE ServiceDone
  BY <1>8 DEF Routed, ServiceDone, downVars, pollVars, askVars, Goto
<1>9. CASE DownEnd
  BY <1>9 DEF Routed, DownEnd, downVars, pollVars, askVars, Goto
<1>10. CASE UpRecv
  BY <1>10 DEF Routed, UpRecv, downVars, pollVars, askVars, Goto, AtUpstream
<1>11. CASE UpLost
  BY <1>11 DEF Routed, UpLost, downVars, pollVars, askVars, Goto, AtUpstream
<1>12. CASE RouteMiss
  BY <1>12 DEF Routed, RouteMiss, downVars, pollVars, askVars, Goto, Routing
<1>13. CASE RouteForward
  BY <1>13 DEF Routed, RouteForward, downVars, pollVars, askVars, Goto, Routing
<1>14. CASE RouteQueue
  <2>1. /\ Current \in PendingRequest /\ Current.req = Head(batch) /\ Head(batch) \in Requests
    BY <1>14, CurrentFacts DEF RouteQueue
  <2>2. Route[Current.req.unit] \in Channels
    BY <1>14, <2>1, RequestFacts DEF RouteQueue, Channel
  <2>3. pending' = Append(pending, Current)
    BY <1>14 DEF RouteQueue
  <2>4. /\ DOMAIN pending' = 1..(Len(pending) + 1) /\ DOMAIN pending = 1..Len(pending)
        /\ Len(pending) \in Nat
        /\ \A k \in 1..Len(pending) : pending'[k] = pending[k]
        /\ pending'[Len(pending) + 1] = Current
    BY <2>1, <2>3, AppendFacts DEF TypeOK
  <2> QED
    BY <2>2, <2>4 DEF Routed
<1>15. CASE RouteReject
  BY <1>15 DEF Routed, RouteReject, downVars, pollVars, askVars, Goto, Routing
<1>16. CASE UpNext
  BY <1>16 DEF Routed, UpNext, downVars, pollVars, askVars, Goto
<1>17. CASE UpEnd
  BY <1>17 DEF Routed, UpEnd, downVars, pollVars, askVars, Goto
<1>18. CASE Cleanup
  BY <1>18 DEF Routed, Cleanup, downVars, pollVars, askVars, Goto
<1>19. CASE PollEnd
  BY <1>19 DEF Routed, PollEnd, downVars, pollVars, askVars, Goto
<1>20. ASSUME NEW c \in Clients, AddUpstream(c) PROVE Routed'
  BY <1>20 DEF Routed, AddUpstream, downVars, pollVars, askVars, Goto
<1>21. CASE Tick
  BY <1>21 DEF Routed, Tick, downVars, pollVars, askVars, Goto
<1>22. CASE UNCHANGED vars
  BY <1>22 DEF Routed, vars, downVars, pollVars, askVars
<1> QED
  BY <1>1, <1>2, <1>3, <1>4, <1>5, <1>6, <1>7, <1>8, <1>9, <1>10, <1>11, <1>12, <1>13, <1>14,
     <1>15, <1>16, <1>17, <1>18, <1>19, <1>20, <1>21, <1>22 DEF Next, Step, Poll, Phase1,
     Phase2, Phase3


-----------------------------------------------------------------------------
(* Taking the first of a batch takes that request and no other.             *)
LEMMA BatchTail ==
  ASSUME NEW s \in Seq(Requests), s # <<>>, BatchOnce(s)
  PROVE  /\ Head(s) \in Elements(s) /\ Elements(Tail(s)) = Elements(s) \ {Head(s)}
         /\ BatchOnce(Tail(s))
<1>1. /\ Head(s) = s[1] /\ 1 \in DOMAIN s
      /\ Len(s) \in Nat \ {0} /\ DOMAIN s = 1..Len(s) /\ DOMAIN Tail(s) = 1..(Len(s) - 1)
      /\ \A k \in 1..(Len(s) - 1) : Tail(s)[k] = s[k + 1]
  BY TailFacts
<1>2. Head(s) \in Elements(s)
  BY <1>1 DEF Elements
<1>3. Elements(Tail(s)) \subseteq Elements(s) \ {Head(s)}
  <2> SUFFICES ASSUME NEW k \in DOMAIN Tail(s) PROVE Tail(s)[k] \in Elements(s) \ {Head(s)}
    BY DEF Elements
  <2>1. Tail(s)[k] = s[k + 1] /\ k + 1 \in DOMAIN s /\ k + 1 # 1
    BY <1>1
  <2> QED
    BY <1>1, <2>1 DEF Elements, BatchOnce
<1>4. Elements(s) \ {Head(s)} \subseteq Elements(Tail(s))
  <2> SUFFICES ASSUME NEW k \in DOMAIN s, s[k] # Head(s) PROVE s[k] \in Elements(Tail(s))
    BY DEF Elements
  <2>1. k - 1 \in DOMAIN Tail(s) /\ Tail(s)[k - 1] = s[k]
    BY <1>1
  <2> QED
    BY <2>1 DEF Elements
<1>5. BatchOnce(Tail(s))
  BY <1>1 DEF BatchOnce
<1> QED
  BY <1>2, <1>3, <1>4, <1>5

(* The same of the queue.                                                   *)
LEMMA QueueTail ==
  ASSUME NEW q \in Seq(PendingRequest), q # <<>>, QueueOnce(q)
  PROVE  /\ Head(q).req \in Queued(q) /\ Queued(Tail(q)) = Queued(q) \ {Head(q).req}
         /\ QueueOnce(Tail(q))
<1>1. /\ Head(q) = q[1] /\ 1 \in DOMAIN q
      /\ Len(q) \in Nat \ {0} /\ DOMAIN q = 1..Len(q) /\ DOMAIN Tail(q) = 1..(Len(q) - 1)
      /\ \A k \in 1..(Len(q) - 1) : Tail(q)[k] = q[k + 1]
  BY TailFacts
<1>2. Head(q).req \in Queued(q)
  BY <1>1 DEF Queued
<1>3. Queued(Tail(q)) \subseteq Queued(q) \ {Head(q).req}
  <2> SUFFICES ASSUME NEW k \in DOMAIN Tail(q) PROVE Tail(q)[k].req \in Queued(q) \ {Head(q).req}
    BY DEF Queued
  <2>1. Tail(q)[k] = q[k + 1] /\ k + 1 \in DOMAIN q /\ k + 1 # 1
    BY <1>1
  <2> QED
    BY <1>1, <2>1 DEF Queued, QueueOnce
<1>4. Queued(q) \ {Head(q).req} \subseteq Queued(Tail(q))
  <2> SUFFICES ASSUME NEW k \in DOMAIN q, q[k].req # Head(q).req PROVE q[k].req \in Queued(Tail(q))
    BY DEF Queued
  <2>1. k - 1 \in DOMAIN Tail(q) /\ Tail(q)[k - 1] = q[k]
    BY <1>1
  <2> QED
    BY <2>1 DEF Queued
<1>5. QueueOnce(Tail(q))
  BY <1>1 DEF QueueOnce
<1> QED
  BY <1>2, <1>3, <1>4, <1>5

(* Queueing a request that is not queued adds it, once.                     *)
LEMMA QueueAppend ==
  ASSUME NEW q \in Seq(PendingRequest), NEW p \in PendingRequest, QueueOnce(q), p.req \notin Queued(q)
  PROVE  Queued(Append(q, p)) = Queued(q) \cup {p.req} /\ QueueOnce(Append(q, p))
<1>1. /\ Len(q) \in Nat
      /\ DOMAIN q = 1..Len(q) /\ DOMAIN Append(q, p) = 1..(Len(q) + 1)
      /\ \A k \in 1..Len(q) : Append(q, p)[k] = q[k]
      /\ Append(q, p)[Len(q) + 1] = p
  BY AppendFacts
<1>2. Queued(Append(q, p)) \subseteq Queued(q) \cup {p.req}
  BY <1>1 DEF Queued
<1>3. p.req \in Queued(Append(q, p))
  <2>1. Len(q) + 1 \in DOMAIN Append(q, p)
    BY <1>1
  <2> QED
    BY <1>1, <2>1 DEF Queued
<1>4. Queued(q) \subseteq Queued(Append(q, p))
  <2> SUFFICES ASSUME NEW k \in DOMAIN q PROVE q[k].req \in Queued(Append(q, p))
    BY DEF Queued
  <2>1. k \in DOMAIN Append(q, p) /\ Append(q, p)[k] = q[k]
    BY <1>1
  <2> QED
    BY <2>1 DEF Queued
<1>5. QueueOnce(Append(q, p))
  <2> SUFFICES ASSUME NEW i \in DOMAIN Append(q, p), NEW j \in DOMAIN Append(q, p),
                      Append(q, p)[i].req = Append(q, p)[j].req
               PROVE  i = j
    BY DEF QueueOnce
  <2>1. CASE i \in DOMAIN q /\ j \in DOMAIN q
    BY <1>1, <2>1 DEF QueueOnce
  <2>2. CASE i \notin DOMAIN q /\ j \notin DOMAIN q
    BY <1>1, <2>2
  <2>3. CASE i \in DOMAIN q /\ j \notin DOMAIN q
    BY <1>1, <2>3 DEF Queued
  <2>4. CASE i \notin DOMAIN q /\ j \in DOMAIN q
    BY <1>1, <2>4 DEF Queued
  <2> QED
    BY <2>1, <2>2, <2>3, <2>4
<1> QED
  BY <1>2, <1>3, <1>4, <1>5

(* A channel that starts to wait, and one that is set free.                 *)
LEMMA ChannelTakes ==
  ASSUME NEW s \in [Channels -> AwaitingResponse \cup {None}], NEW d \in Channels, s[d] = None,
         NEW w \in AwaitingResponse, ChannelOnce(s), w.req \notin OnChannel(s)
  PROVE  /\ OnChannel([s EXCEPT ![d] = w]) = OnChannel(s) \cup {w.req}
         /\ ChannelOnce([s EXCEPT ![d] = w])
<1> DEFINE t == [s EXCEPT ![d] = w]
<1>1. t[d] = w /\ w # None /\ \A c \in Channels : c # d => t[c] = s[c]
  BY NoneAssumption
<1> HIDE DEF t
<1>2. OnChannel(t) = OnChannel(s) \cup {w.req}
  BY <1>1 DEF OnChannel
<1>3. ChannelOnce(t)
  BY <1>1 DEF ChannelOnce, OnChannel
<1> QED
  BY <1>2, <1>3 DEF t

(* Setting a channel free takes away its request and no other.              *)
LEMMA ChannelFreed ==
  ASSUME NEW s \in [Channels -> AwaitingResponse \cup {None}], NEW d \in Channels, s[d] # None,
         ChannelOnce(s)
  PROVE  /\ s[d].req \in OnChannel(s)
         /\ OnChannel([s EXCEPT ![d] = None]) = OnChannel(s) \ {s[d].req}
         /\ ChannelOnce([s EXCEPT ![d] = None])
<1> DEFINE t == [s EXCEPT ![d] = None]
<1>1. t[d] = None /\ \A c \in Channels : c # d => t[c] = s[c]
  OBVIOUS
<1> HIDE DEF t
<1>2. OnChannel(t) = OnChannel(s) \ {s[d].req}
  BY <1>1 DEF OnChannel, ChannelOnce
<1>3. ChannelOnce(t)
  BY <1>1 DEF ChannelOnce
<1>4. s[d].req \in OnChannel(s)
  BY DEF OnChannel
<1> QED
  BY <1>2, <1>3, <1>4 DEF t

(* A request that ends is over, once.                                       *)
LEMMA OverEnds ==
  ASSUME TypeOK, OverOnce, NEW r \in Requests, r \notin Over, Ended(r)
  PROVE  Over' = Over \cup {r} /\ OverOnce'
<1>1. answers \in [Requests -> Seq(Answer)] /\ dropped \in SUBSET Requests
  BY DEF TypeOK
<1>2. r \notin dropped /\ answers[r] = <<>>
  BY DEF Over
<1>3. ASSUME NEW a \in Answer, answers' = [answers EXCEPT ![r] = Append(@, a)], UNCHANGED dropped
      PROVE  Over' = Over \cup {r} /\ OverOnce'
  <2>1. answers'[r] # <<>> /\ Len(answers'[r]) = 1
    BY <1>1, <1>2, <1>3, AppendFacts, EmptySeq
  <2>2. \A q \in Requests : q # r => answers'[q] = answers[q]
    BY <1>1, <1>3
  <2>3. Over' = Over \cup {r}
    BY <1>3, <2>1, <2>2 DEF Over
  <2>4. OverOnce'
    BY <1>2, <1>3, <2>1, <2>2 DEF OverOnce
  <2> QED
    BY <2>3, <2>4
<1>4. CASE dropped' = dropped \cup {r} /\ UNCHANGED answers
  <2>1. Over' = Over \cup {r}
    BY <1>4 DEF Over
  <2>2. OverOnce'
    BY <1>2, <1>4 DEF OverOnce
  <2> QED
    BY <2>1, <2>2
<1> QED
  BY <1>3, <1>4 DEF Ended

(* Nothing is over that was not, when nothing is sent or given up.          *)
LEMMA OverSame ==
  ASSUME OverOnce, UNCHANGED <<answers, dropped>>
  PROVE  Over' = Over /\ OverOnce'
BY DEF Over, OverOnce

(* A request that is forwarded is on a channel afterwards, or over.         *)
LEMMA DispatchKeeps ==
  ASSUME TypeOK, Once, NEW d \in Channels, state[d] = None, NEW p \in PendingRequest,
         Dispatched(d, p), p.req \notin OnChannel(state) \cup Over
  PROVE  /\ ChannelOnce(state') /\ OverOnce'
         /\ \/ OnChannel(state') = OnChannel(state) \cup {p.req} /\ Over' = Over
            \/ OnChannel(state') = OnChannel(state) /\ Over' = Over \cup {p.req}
<1>0. p.req \in Requests /\ p.session_idx \in Nat
  BY DEF PendingRequest
<1>1. CASE state' = [state EXCEPT ![d] = Waiting(d, p)] /\ UNCHANGED <<answers, dropped>>
  <2>1. Waiting(d, p) \in AwaitingResponse /\ Waiting(d, p).req = p.req
    BY <1>0, CapacityAssumption DEF Waiting, AwaitingResponse, TypeOK
  <2>2. ChannelOnce(state) /\ state \in [Channels -> AwaitingResponse \cup {None}] /\ OverOnce
    BY DEF Once, TypeOK
  <2> DEFINE w == Waiting(d, p)
  <2> HIDE DEF w
  <2>3. w \in AwaitingResponse /\ w.req = p.req /\ w.req \notin OnChannel(state)
    BY <2>1 DEF w
  <2>4. /\ OnChannel([state EXCEPT ![d] = w]) = OnChannel(state) \cup {w.req}
        /\ ChannelOnce([state EXCEPT ![d] = w])
    BY <2>2, <2>3, ChannelTakes
  <2>5. OnChannel(state') = OnChannel(state) \cup {p.req} /\ ChannelOnce(state')
    BY <1>1, <2>3, <2>4 DEF w
  <2> QED
    BY <1>1, <2>2, <2>5, OverSame
<1>2. CASE state' = state /\ Ended(p.req)
  BY <1>0, <1>2, OverEnds DEF Once
<1> QED
  BY <1>1, <1>2 DEF Dispatched


(* A step that moves no request changes nothing about where they are.       *)
LEMMA QuietKeeps ==
  ASSUME Once, Apart, UNCHANGED <<batch, pending, state, asked, answers, dropped>>
  PROVE  Once' /\ Apart'
<1>1. Over' = Over /\ OverOnce'
  BY OverSame DEF Once
<1> QED
  BY <1>1 DEF Once, Apart

(* No step loses a request, duplicates one, or ends it twice.               *)
LEMMA KeptStep ==
  ASSUME TypeOK, Positions, Routed, IsFiniteSet(txn_map), Once, Apart, [Next]_vars
  PROVE  Once' /\ Apart'
<1>1. CASE BeginPoll
  <2>1. UNCHANGED <<batch, pending, state, asked, answers, dropped>>
    BY <1>1 DEF BeginPoll, downVars, pollVars, askVars, Goto
  <2> QED
    BY <2>1, QuietKeeps
<1>2. CASE DownIdle
  <2>1. UNCHANGED <<batch, pending, state, asked, answers, dropped>>
    BY <1>2 DEF DownIdle, downVars, pollVars, askVars, Goto, AtChannel
  <2> QED
    BY <2>1, QuietKeeps
<1>3. CASE DownRecv
  <2>1. UNCHANGED <<batch, pending, state, asked, answers, dropped>>
    BY <1>3 DEF DownRecv, downVars, pollVars, askVars, Goto, AtChannel
  <2> QED
    BY <2>1, QuietKeeps
<1>4. CASE DownNothing
  <2>1. UNCHANGED <<batch, pending, state, asked, answers, dropped>>
    BY <1>4 DEF DownNothing, downVars, pollVars, askVars, Goto
  <2> QED
    BY <2>1, QuietKeeps
<1>5. CASE DownComplete
  <2>1. idx \in Channels /\ state[idx] # None
    BY <1>5 DEF DownComplete, Positions
  <2>2. state[idx].req \in Requests
    BY <2>1 DEF TypeOK, AwaitingResponse
  <2>9. Head(rxbuf[idx]) \in Requests
    BY <1>5, <2>1, TailFacts DEF DownComplete, TypeOK
  <2>3. Ended(state[idx].req)
    BY <1>5, <2>1, <2>2, <2>9, CompleteEnds
  <2>4. state' = [state EXCEPT ![idx] = None] /\ UNCHANGED <<batch, pending, asked>>
    BY <1>5 DEF DownComplete, FreeChannel
  <2>5. /\ state[idx].req \in OnChannel(state) /\ ChannelOnce(state')
        /\ OnChannel(state') = OnChannel(state) \ {state[idx].req}
    BY <2>1, <2>4, ChannelFreed DEF Once, TypeOK
  <2>6. Over' = Over \cup {state[idx].req} /\ OverOnce'
    BY <2>2, <2>3, <2>5, OverEnds DEF Once, Apart
  <2> QED
    BY <2>4, <2>5, <2>6 DEF Once, Apart
<1>6. CASE DownFailed
  <2>1. idx \in Channels /\ state[idx] # None
    BY <1>6, AtChannelFacts DEF DownFailed, Positions
  <2>2. state[idx].req \in Requests
    BY <2>1 DEF TypeOK, AwaitingResponse
  <2>3. Ended(state[idx].req)
    BY <1>6, <2>2, ExceptionEnds DEF DownFailed
  <2>4. state' = [state EXCEPT ![idx] = None] /\ UNCHANGED <<batch, pending, asked>>
    BY <1>6 DEF DownFailed, FreeChannel
  <2>5. /\ state[idx].req \in OnChannel(state) /\ ChannelOnce(state')
        /\ OnChannel(state') = OnChannel(state) \ {state[idx].req}
    BY <2>1, <2>4, ChannelFreed DEF Once, TypeOK
  <2>6. Over' = Over \cup {state[idx].req} /\ OverOnce'
    BY <2>2, <2>3, <2>5, OverEnds DEF Once, Apart
  <2> QED
    BY <2>4, <2>5, <2>6 DEF Once, Apart
<1>7. CASE ServicePending
  <2> DEFINE p == Head(pending)
             d == Route[p.req.unit]
  <2>1. /\ p \in PendingRequest /\ p.req \in Requests /\ d \in Channels
        /\ Tail(pending) \in Seq(PendingRequest)
    BY <1>7, QueueHead DEF ServicePending
  <2>2. /\ p.req \in Queued(pending) /\ Queued(Tail(pending)) = Queued(pending) \ {p.req}
        /\ QueueOnce(Tail(pending))
    BY <1>7, QueueTail DEF ServicePending, Once, TypeOK
  <2>3. UNCHANGED <<batch, asked>>
    BY <1>7 DEF ServicePending
  <2>4. CASE state[d] = None
    <3>1. Dispatch(d, p) /\ pending' = Tail(pending)
      BY <1>7, <2>4 DEF ServicePending
    <3> HIDE DEF p, d
    <3>2. Dispatched(d, p)
      BY <2>1, <3>1, DispatchFacts
    <3>3. p.req \notin OnChannel(state) \cup Over
      BY <2>2 DEF Apart
    <3>4. /\ ChannelOnce(state') /\ OverOnce'
          /\ \/ OnChannel(state') = OnChannel(state) \cup {p.req} /\ Over' = Over
             \/ OnChannel(state') = OnChannel(state) /\ Over' = Over \cup {p.req}
      BY <2>1, <2>4, <3>2, <3>3, DispatchKeeps
    <3> QED
      BY <2>2, <2>3, <3>1, <3>4 DEF Once, Apart
  <2>5. CASE state[d] # None
    <3>1. pending' = Append(Tail(pending), p) /\ UNCHANGED <<state, answers, dropped>>
      BY <1>7, <2>5 DEF ServicePending, downVars
    <3> HIDE DEF p, d
    <3>2. Queued(pending') = Queued(pending) /\ QueueOnce(pending')
      <4>1. p.req \notin Queued(Tail(pending))
        BY <2>2
      <4>2. /\ Queued(Append(Tail(pending), p)) = Queued(Tail(pending)) \cup {p.req}
            /\ QueueOnce(Append(Tail(pending), p))
        BY <2>1, <2>2, <4>1, QueueAppend
      <4> QED
        BY <2>2, <3>1, <4>2
    <3>3. Over' = Over /\ OverOnce'
      BY <3>1, OverSame DEF Once
    <3> QED
      BY <2>3, <3>1, <3>2, <3>3 DEF Once, Apart
  <2> QED
    BY <2>4, <2>5
<1>8. CASE ServiceDone
  <2>1. UNCHANGED <<batch, pending, state, asked, answers, dropped>>
    BY <1>8 DEF ServiceDone, downVars, pollVars, askVars, Goto
  <2> QED
    BY <2>1, QuietKeeps
<1>9. CASE DownEnd
  <2>1. UNCHANGED <<batch, pending, state, asked, answers, dropped>>
    BY <1>9 DEF DownEnd, downVars, pollVars, askVars, Goto
  <2> QED
    BY <2>1, QuietKeeps
<1>10. CASE UpRecv
  <2>1. PICK new \in Arrivals : /\ Len(new) = 2 => new[1] # new[2]
                                /\ batch' = new /\ asked' = asked \cup Elements(new)
    BY <1>10 DEF UpRecv
  <2>2. Elements(new) \cap asked = {} /\ BatchOnce(new)
    <3>1. CASE new = <<>>
      BY <3>1 DEF Elements, BatchOnce
    <3>2. ASSUME NEW r \in Fresh, new = <<r>> PROVE Elements(new) \cap asked = {} /\ BatchOnce(new)
      BY <3>2 DEF Fresh, Elements, BatchOnce
    <3>3. ASSUME NEW r \in Fresh, NEW s \in Fresh, new = <<r, s>>
          PROVE  Elements(new) \cap asked = {} /\ BatchOnce(new)
      BY <2>1, <3>3 DEF Fresh, Elements, BatchOnce
    <3> QED
      BY <3>1, <3>2, <3>3 DEF Arrivals
  <2>3. batch = <<>> /\ UNCHANGED <<pending, state, answers, dropped>>
    BY <1>10 DEF UpRecv, AtUpstream, Positions, downVars
  <2>4. Elements(batch) = {}
    BY <2>3 DEF Elements
  <2>5. Over' = Over /\ OverOnce'
    BY <2>3, OverSame DEF Once
  <2> QED
    BY <2>1, <2>2, <2>3, <2>4, <2>5 DEF Once, Apart
<1>11. CASE UpLost
  <2>1. UNCHANGED <<batch, pending, state, asked, answers, dropped>>
    BY <1>11 DEF UpLost, downVars, pollVars, askVars, Goto, AtUpstream
  <2> QED
    BY <2>1, QuietKeeps
<1>12. CASE RouteMiss
  <2>1. /\ Head(batch) \in Requests /\ Current \in PendingRequest /\ Current.req = Head(batch)
        /\ idx \in DOMAIN upstreams
    BY <1>12, CurrentFacts DEF RouteMiss
  <2>2. /\ Head(batch) \in Elements(batch) /\ Elements(batch') = Elements(batch) \ {Head(batch)}
        /\ BatchOnce(batch')
    BY <1>12, BatchTail DEF RouteMiss, Routing, Once, TypeOK
  <2>3. Ended(Head(batch))
    BY <1>12, <2>1, RequestFacts, RespondEnds DEF RouteMiss, GiveUp, Ended
  <2>4. Over' = Over \cup {Head(batch)} /\ OverOnce'
    BY <2>1, <2>2, <2>3, OverEnds DEF Once, Apart
  <2>5. UNCHANGED <<pending, state, asked>>
    BY <1>12 DEF RouteMiss, downVars
  <2> QED
    BY <2>2, <2>4, <2>5 DEF Once, Apart
<1>13. CASE RouteForward
  <2>1. /\ Head(batch) \in Requests /\ Current \in PendingRequest /\ Current.req = Head(batch)
        /\ idx \in DOMAIN upstreams
    BY <1>13, CurrentFacts DEF RouteForward
  <2>2. /\ Head(batch) \in Elements(batch) /\ Elements(batch') = Elements(batch) \ {Head(batch)}
        /\ BatchOnce(batch')
    BY <1>13, BatchTail DEF RouteForward, Routing, Once, TypeOK
  <2>3. Channel \in Channels /\ state[Channel] = None
    BY <1>13, <2>1, RequestFacts DEF RouteForward, Channel, Busy
  <2>4. Dispatched(Channel, Current)
    BY <1>13, <2>1, <2>3, DispatchFacts DEF RouteForward
  <2>5. /\ ChannelOnce(state') /\ OverOnce'
        /\ \/ OnChannel(state') = OnChannel(state) \cup {Head(batch)} /\ Over' = Over
           \/ OnChannel(state') = OnChannel(state) /\ Over' = Over \cup {Head(batch)}
    BY <2>1, <2>2, <2>3, <2>4, DispatchKeeps DEF Apart
  <2>6. UNCHANGED <<pending, asked>>
    BY <1>13 DEF RouteForward
  <2> QED
    BY <2>2, <2>5, <2>6 DEF Once, Apart
<1>14. CASE RouteQueue
  <2>1. /\ Head(batch) \in Requests /\ Current \in PendingRequest /\ Current.req = Head(batch)
        /\ idx \in DOMAIN upstreams
    BY <1>14, CurrentFacts DEF RouteQueue
  <2>2. /\ Head(batch) \in Elements(batch) /\ Elements(batch') = Elements(batch) \ {Head(batch)}
        /\ BatchOnce(batch')
    BY <1>14, BatchTail DEF RouteQueue, Routing, Once, TypeOK
  <2>3. Queued(pending') = Queued(pending) \cup {Head(batch)} /\ QueueOnce(pending')
    BY <1>14, <2>1, <2>2, QueueAppend DEF RouteQueue, Once, Apart, TypeOK
  <2>4. UNCHANGED <<state, asked, answers, dropped>>
    BY <1>14 DEF RouteQueue, downVars, askVars
  <2>5. Over' = Over /\ OverOnce'
    BY <2>4, OverSame DEF Once
  <2> QED
    BY <2>2, <2>3, <2>4, <2>5 DEF Once, Apart
<1>15. CASE RouteReject
  <2>1. /\ Head(batch) \in Requests /\ Current \in PendingRequest /\ Current.req = Head(batch)
        /\ idx \in DOMAIN upstreams
    BY <1>15, CurrentFacts DEF RouteReject
  <2>2. /\ Head(batch) \in Elements(batch) /\ Elements(batch') = Elements(batch) \ {Head(batch)}
        /\ BatchOnce(batch')
    BY <1>15, BatchTail DEF RouteReject, Routing, Once, TypeOK
  <2>3. Ended(Head(batch))
    BY <1>15, <2>1, ExceptionEnds DEF RouteReject
  <2>4. Over' = Over \cup {Head(batch)} /\ OverOnce'
    BY <2>1, <2>2, <2>3, OverEnds DEF Once, Apart
  <2>5. UNCHANGED <<pending, state, asked>>
    BY <1>15 DEF RouteReject, downVars
  <2> QED
    BY <2>2, <2>4, <2>5 DEF Once, Apart
<1>16. CASE UpNext
  <2>1. UNCHANGED <<batch, pending, state, asked, answers, dropped>>
    BY <1>16 DEF UpNext, downVars, pollVars, askVars, Goto
  <2> QED
    BY <2>1, QuietKeeps
<1>17. CASE UpEnd
  <2>1. UNCHANGED <<batch, pending, state, asked, answers, dropped>>
    BY <1>17 DEF UpEnd, downVars, pollVars, askVars, Goto
  <2> QED
    BY <2>1, QuietKeeps
<1>18. CASE Cleanup
  <2>1. UNCHANGED <<batch, pending, state, asked, answers, dropped>>
    BY <1>18 DEF Cleanup, downVars, pollVars, askVars, Goto
  <2> QED
    BY <2>1, QuietKeeps
<1>19. CASE PollEnd
  <2>1. UNCHANGED <<batch, pending, state, asked, answers, dropped>>
    BY <1>19 DEF PollEnd, downVars, pollVars, askVars, Goto
  <2> QED
    BY <2>1, QuietKeeps
<1>20. ASSUME NEW c \in Clients, AddUpstream(c) PROVE Once' /\ Apart'
  <2>1. UNCHANGED <<batch, pending, state, asked, answers, dropped>>
    BY <1>20 DEF AddUpstream, downVars, pollVars, askVars, Goto
  <2> QED
    BY <2>1, QuietKeeps
<1>21. CASE Tick
  <2>1. UNCHANGED <<batch, pending, state, asked, answers, dropped>>
    BY <1>21 DEF Tick, downVars, pollVars, askVars, Goto
  <2> QED
    BY <2>1, QuietKeeps
<1>22. CASE UNCHANGED vars
  BY <1>22, QuietKeeps DEF vars, downVars, pollVars, askVars
<1> QED
  BY <1>1, <1>2, <1>3, <1>4, <1>5, <1>6, <1>7, <1>8, <1>9, <1>10, <1>11, <1>12, <1>13, <1>14,
     <1>15, <1>16, <1>17, <1>18, <1>19, <1>20, <1>21, <1>22 DEF Next, Step, Poll, Phase1,
     Phase2, Phase3


(* What is there once, counts as one.                                       *)
LEMMA CountOnce ==
  ASSUME NEW S, NEW x \in S, \A y \in S : y = x
  PROVE  Cardinality(S) = 1
<1>1. S = {x}
  OBVIOUS
<1> QED
  BY <1>1, FS_Singleton

(* What is not there, counts as none.                                       *)
LEMMA CountNone ==
  ASSUME NEW S, S = {}
  PROVE  Cardinality(S) = 0
BY FS_EmptySet

(* What Once and Apart say, HeldOnce counts.                                *)
LEMMA KeptIsHeld ==
  ASSUME TypeOK, Once, Apart
  PROVE  HeldOnce
<1> SUFFICES ASSUME NEW r \in Requests PROVE Places(r) = IF r \in asked THEN 1 ELSE 0
  BY DEF HeldOnce
<1> DEFINE B == {k \in DOMAIN batch : batch[k] = r}
           Q == {k \in DOMAIN pending : pending[k].req = r}
           C == {d \in Channels : state[d] # None /\ state[d].req = r}
<1>1. Cardinality(B) = IF r \in Elements(batch) THEN 1 ELSE 0
  <2>1. CASE r \notin Elements(batch)
    <3>1. B = {}
      BY <2>1 DEF Elements
    <3> QED
      BY <2>1, <3>1, CountNone
  <2>2. CASE r \in Elements(batch)
    <3>1. PICK k \in DOMAIN batch : batch[k] = r
      BY <2>2 DEF Elements
    <3>2. k \in B /\ \A y \in B : y = k
      BY <3>1 DEF Once, BatchOnce
    <3> HIDE DEF B
    <3> QED
      BY <2>2, <3>2, CountOnce
  <2> QED
    BY <2>1, <2>2
<1>2. Cardinality(Q) = IF r \in Queued(pending) THEN 1 ELSE 0
  <2>1. CASE r \notin Queued(pending)
    <3>1. Q = {}
      BY <2>1 DEF Queued
    <3> QED
      BY <2>1, <3>1, CountNone
  <2>2. CASE r \in Queued(pending)
    <3>1. PICK k \in DOMAIN pending : pending[k].req = r
      BY <2>2 DEF Queued
    <3>2. k \in Q /\ \A y \in Q : y = k
      BY <3>1 DEF Once, QueueOnce
    <3> HIDE DEF Q
    <3> QED
      BY <2>2, <3>2, CountOnce
  <2> QED
    BY <2>1, <2>2
<1>3. Cardinality(C) = IF r \in OnChannel(state) THEN 1 ELSE 0
  <2>1. CASE r \notin OnChannel(state)
    <3>1. C = {}
      BY <2>1 DEF OnChannel
    <3> QED
      BY <2>1, <3>1, CountNone
  <2>2. CASE r \in OnChannel(state)
    <3>1. PICK d \in Channels : state[d] # None /\ state[d].req = r
      BY <2>2 DEF OnChannel
    <3>2. d \in C /\ \A y \in C : y = d
      BY <3>1 DEF Once, ChannelOnce
    <3> HIDE DEF C
    <3> QED
      BY <2>2, <3>2, CountOnce
  <2> QED
    BY <2>1, <2>2
<1>4. Len(answers[r]) + (IF r \in dropped THEN 1 ELSE 0) = IF r \in Over THEN 1 ELSE 0
  <2>1. answers[r] \in Seq(Answer)
    BY DEF TypeOK
  <2>2. Len(answers[r]) \in Nat /\ (answers[r] = <<>> <=> Len(answers[r]) = 0)
    BY <2>1, EmptySeq, LenProperties
  <2>3. Len(answers[r]) <= 1 /\ (r \in dropped => answers[r] = <<>>)
    BY DEF Once, OverOnce
  <2>4. r \in Over <=> answers[r] # <<>> \/ r \in dropped
    BY DEF Over
  <2>5. CASE r \in dropped
    BY <2>2, <2>3, <2>4, <2>5
  <2>6. CASE r \notin dropped
    BY <2>2, <2>3, <2>4, <2>6
  <2> QED
    BY <2>5, <2>6
<1>5. Places(r) = Cardinality(B) + Cardinality(Q) + Cardinality(C)
                    + (Len(answers[r]) + (IF r \in dropped THEN 1 ELSE 0))
  <2>1. Len(answers[r]) \in Nat
    BY LenProperties DEF TypeOK
  <2> HIDE DEF B, Q, C
  <2>2. Places(r) = Cardinality(B) + Cardinality(Q) + Cardinality(C)
                      + Len(answers[r]) + (IF r \in dropped THEN 1 ELSE 0)
    BY DEF Places, B, Q, C
  <2>3. Cardinality(B) \in Nat /\ Cardinality(Q) \in Nat /\ Cardinality(C) \in Nat
    BY <1>1, <1>2, <1>3
  <2>4. (IF r \in dropped THEN 1 ELSE 0) \in Nat
    OBVIOUS
  <2>5. \A a, b, c, d, e \in Nat : a + b + c + d + e = a + b + c + (d + e)
    OBVIOUS
  <2> DEFINE D == IF r \in dropped THEN 1 ELSE 0
  <2> HIDE DEF D
  <2>6. D \in Nat /\ Places(r) = Cardinality(B) + Cardinality(Q) + Cardinality(C) + Len(answers[r]) + D
    BY <2>2, <2>4 DEF D
  <2>7. Places(r) = Cardinality(B) + Cardinality(Q) + Cardinality(C) + (Len(answers[r]) + D)
    BY <2>1, <2>3, <2>5, <2>6
  <2> QED
    BY <2>7 DEF D
<1> HIDE DEF B, Q, C
<1>6. Places(r) = (IF r \in Elements(batch) THEN 1 ELSE 0) + (IF r \in Queued(pending) THEN 1 ELSE 0)
                    + (IF r \in OnChannel(state) THEN 1 ELSE 0) + (IF r \in Over THEN 1 ELSE 0)
  BY <1>1, <1>2, <1>3, <1>4, <1>5
<1>7. r \in asked <=> \/ r \in Elements(batch) \/ r \in Queued(pending)
                      \/ r \in OnChannel(state) \/ r \in Over
  BY DEF Apart
<1>8. /\ r \in Elements(batch) => /\ r \notin Queued(pending) /\ r \notin OnChannel(state)
                                  /\ r \notin Over
      /\ r \in Queued(pending) => r \notin OnChannel(state) /\ r \notin Over
      /\ r \in OnChannel(state) => r \notin Over
  BY DEF Apart
<1> QED
  BY <1>6, <1>7, <1>8

(* What the proofs about requests rest on.                                  *)
IndInv == TypeOK /\ IsFiniteSet(txn_map) /\ Positions /\ Routed /\ Once /\ Apart

(* IndInv holds throughout: it is inductive as it stands.                   *)
LEMMA Inductive == Spec => []IndInv
<1>1. Init => IndInv
  <2> SUFFICES ASSUME Init PROVE IndInv
    OBVIOUS
  <2>1. IsFiniteSet(txn_map) /\ Cardinality(txn_map) = 0
    BY FS_EmptySet DEF Init
  <2>2. TypeOK
    <3>1. Len(upstreams) = 0 /\ Len(pending) = 0
      BY DEF Init
    <3>2. /\ state \in [Channels -> AwaitingResponse \cup {None}]
          /\ rxbuf \in [Channels -> Seq(Requests)] /\ wire \in [Channels -> Seq(Requests)]
          /\ answers \in [Requests -> Seq(Answer)]
      BY DEF Init
    <3>3. /\ upstreams \in Seq([client : Clients, session_id : Nat])
          /\ pending \in Seq(PendingRequest) /\ batch \in Seq(Requests) /\ gone \in Seq(Nat)
      BY DEF Init
    <3>4. /\ 0 <= NUp /\ 0 <= TxnSize /\ 0 <= NPending /\ next_internal \in 0..(TxnMod - 1)
          /\ limit \in 0..NPending
      BY CapacityAssumption DEF Init
    <3>5. /\ txn_map = {} /\ now \in Nat /\ pc = "idle" /\ idx \in Nat \ {0}
          /\ asked = {} /\ dropped = {}
      BY DEF Init
    <3>6. started \in BOOLEAN
      BY Zenon DEF Init
    <3> QED
      BY <2>1, <3>1, <3>2, <3>3, <3>4, <3>5, <3>6 DEF TypeOK
  <2>3. Positions /\ Routed
    BY DEF Init, Positions, Routed
  <2>4. Over = {} /\ OverOnce
    BY DEF Init, Over, OverOnce
  <2>5. Elements(batch) = {} /\ Queued(pending) = {} /\ OnChannel(state) = {}
    BY DEF Init, Elements, Queued, OnChannel
  <2>6. BatchOnce(batch) /\ QueueOnce(pending) /\ ChannelOnce(state)
    BY DEF Init, BatchOnce, QueueOnce, ChannelOnce
  <2> QED
    BY <2>1, <2>2, <2>3, <2>4, <2>5, <2>6 DEF IndInv, Once, Apart, Init
<1>2. IndInv /\ [Next]_vars => IndInv'
  BY TypeStep, PositionsStep, RoutedStep, KeptStep DEF IndInv
<1> QED
  BY <1>1, <1>2, PTL DEF Spec

(* Every variable keeps its type; sessions, map and queue keep within their *)
(* capacities.                                                              *)
THEOREM TypeCorrect == Spec => []TypeOK
<1>1. IndInv => TypeOK
  BY DEF IndInv
<1> QED
  BY <1>1, Inductive, PTL

(* A request read from a client is in exactly one place, batch, queue or    *)
(* channel, until it is answered once or given up: forwarding that fails    *)
(* half-way, a full map or queue, time-outs, sessions that end and the      *)
(* rotation of the queue lose none and answer none twice.                   *)
THEOREM RequestsKept == Spec => []HeldOnce
<1>1. IndInv => HeldOnce
  BY KeptIsHeld DEF IndInv
<1> QED
  BY <1>1, Inductive, PTL


-----------------------------------------------------------------------------
(* What the sessions are after one of them ended: each was there before,    *)
(* and none has its id twice.                                               *)
LEMMA CleanupKeeps ==
  ASSUME TypeOK, Registered, Cleanup
  PROVE  /\ \A k \in DOMAIN upstreams' : \E j \in DOMAIN upstreams : upstreams'[k] = upstreams[j]
         /\ \A j, k \in DOMAIN upstreams' :
              upstreams'[j].session_id = upstreams'[k].session_id => j = k
         /\ \A k \in DOMAIN upstreams' : upstreams'[k].session_id # Head(gone)
<1>0. \A j, k \in DOMAIN upstreams : upstreams[j].session_id = upstreams[k].session_id => j = k
  BY DEF Registered
<1>1. CASE PositionOf(Head(gone)) = {}
  <2>1. upstreams' = upstreams
    BY <1>1 DEF Cleanup
  <2>2. \A k \in DOMAIN upstreams : upstreams[k].session_id # Head(gone)
    BY <1>0, <1>1, SessionFacts DEF PositionOf
  <2> QED
    BY <1>0, <2>1, <2>2
<1>2. CASE PositionOf(Head(gone)) # {}
  <2>1. PICK k \in PositionOf(Head(gone)) : upstreams' = SwapRemove(upstreams, k)
    BY <1>2 DEF Cleanup
  <2>2. k \in DOMAIN upstreams /\ upstreams[k].session_id = Head(gone)
    BY DEF PositionOf
  <2>3. /\ Len(upstreams) \in Nat \ {0} /\ DOMAIN upstreams = 1..Len(upstreams)
        /\ DOMAIN upstreams' = 1..(Len(upstreams) - 1)
        /\ \A j \in 1..(Len(upstreams) - 1) :
             upstreams'[j] = IF j = k THEN upstreams[Len(upstreams)] ELSE upstreams[j]
    <3>1. upstreams \in Seq([client : Clients, session_id : Nat])
      BY DEF TypeOK
    <3>2. /\ Len(upstreams) \in Nat \ {0} /\ DOMAIN upstreams = 1..Len(upstreams)
          /\ DOMAIN SwapRemove(upstreams, k) = 1..(Len(upstreams) - 1)
          /\ \A j \in 1..(Len(upstreams) - 1) :
               SwapRemove(upstreams, k)[j] = IF j = k THEN upstreams[Len(upstreams)] ELSE upstreams[j]
      BY <2>2, <3>1, SwapRemoveFacts
    <3> QED
      BY <2>1, <3>2
  <2> DEFINE from(j) == IF j = k THEN Len(upstreams) ELSE j
  <2>4. \A j \in DOMAIN upstreams' : /\ from(j) \in DOMAIN upstreams /\ from(j) # k
                                     /\ upstreams'[j] = upstreams[from(j)]
    BY <2>2, <2>3
  <2>5. \A i, j \in DOMAIN upstreams' : from(i) = from(j) => i = j
    BY <2>2, <2>3
  <2> HIDE DEF from
  <2> QED
    BY <1>0, <2>2, <2>4, <2>5
<1> QED
  BY <1>1, <1>2

(* No step breaks Registered: ids are given out before the first poll()     *)
(* only, and swap_remove reuses none.                                       *)
LEMMA RegisteredStep ==
  ASSUME ~LateJoin, TypeOK, Registered, [Next]_vars
  PROVE  Registered'
<1>1. CASE BeginPoll
  BY <1>1 DEF Registered, BeginPoll, downVars, pollVars, askVars, Goto
<1>2. CASE DownIdle
  <2>1. pc # "idle" /\ UNCHANGED <<upstreams, started>>
    BY <1>2 DEF DownIdle, downVars, pollVars, askVars, Goto, AtChannel
  <2> QED
    BY <2>1 DEF Registered
<1>3. CASE DownRecv
  <2>1. pc # "idle" /\ UNCHANGED <<upstreams, started>>
    BY <1>3 DEF DownRecv, downVars, pollVars, askVars, Goto, AtChannel
  <2> QED
    BY <2>1 DEF Registered
<1>4. CASE DownNothing
  <2>1. pc # "idle" /\ UNCHANGED <<upstreams, started>>
    BY <1>4 DEF DownNothing, downVars, pollVars, askVars, Goto
  <2> QED
    BY <2>1 DEF Registered
<1>5. CASE DownComplete
  <2>1. pc # "idle" /\ UNCHANGED <<upstreams, started>>
    BY <1>5 DEF DownComplete, downVars, pollVars, askVars, Goto, FreeChannel
  <2> QED
    BY <2>1 DEF Registered
<1>6. CASE DownFailed
  <2>1. pc # "idle" /\ UNCHANGED <<upstreams, started>>
    BY <1>6 DEF DownFailed, downVars, pollVars, askVars, Goto, AtChannel, FreeChannel
  <2> QED
    BY <2>1 DEF Registered
<1>7. CASE ServicePending
  <2>1. pc # "idle" /\ UNCHANGED <<upstreams, started>>
    BY <1>7 DEF ServicePending, downVars, pollVars, askVars, Goto
  <2> QED
    BY <2>1 DEF Registered
<1>8. CASE ServiceDone
  <2>1. pc # "idle" /\ UNCHANGED <<upstreams, started>>
    BY <1>8 DEF ServiceDone, downVars, pollVars, askVars, Goto
  <2> QED
    BY <2>1 DEF Registered
<1>9. CASE DownEnd
  <2>1. pc # "idle" /\ UNCHANGED <<upstreams, started>>
    BY <1>9 DEF DownEnd, downVars, pollVars, askVars, Goto
  <2> QED
    BY <2>1 DEF Registered
<1>10. CASE UpRecv
  <2>1. pc # "idle" /\ UNCHANGED <<upstreams, started>>
    BY <1>10 DEF UpRecv, downVars, pollVars, askVars, Goto, AtUpstream
  <2> QED
    BY <2>1 DEF Registered
<1>11. CASE UpLost
  <2>1. pc # "idle" /\ UNCHANGED <<upstreams, started>>
    BY <1>11 DEF UpLost, downVars, pollVars, askVars, Goto, AtUpstream
  <2> QED
    BY <2>1 DEF Registered
<1>12. CASE RouteMiss
  <2>1. pc # "idle" /\ UNCHANGED <<upstreams, started>>
    BY <1>12 DEF RouteMiss, downVars, pollVars, askVars, Goto, Routing
  <2> QED
    BY <2>1 DEF Registered
<1>13. CASE RouteForward
  <2>1. pc # "idle" /\ UNCHANGED <<upstreams, started>>
    BY <1>13 DEF RouteForward, downVars, pollVars, askVars, Goto, Routing
  <2> QED
    BY <2>1 DEF Registered
<1>14. CASE RouteQueue
  <2>1. pc # "idle" /\ UNCHANGED <<upstreams, started>>
    BY <1>14 DEF RouteQueue, downVars, pollVars, askVars, Goto, Routing
  <2> QED
    BY <2>1 DEF Registered
<1>15. CASE RouteReject
  <2>1. pc # "idle" /\ UNCHANGED <<upstreams, started>>
    BY <1>15 DEF RouteReject, downVars, pollVars, askVars, Goto, Routing
  <2> QED
    BY <2>1 DEF Registered
<1>16. CASE UpNext
  <2>1. pc # "idle" /\ UNCHANGED <<upstreams, started>>
    BY <1>16 DEF UpNext, downVars, pollVars, askVars, Goto
  <2> QED
    BY <2>1 DEF Registered
<1>17. CASE UpEnd
  <2>1. pc # "idle" /\ UNCHANGED <<upstreams, started>>
    BY <1>17 DEF UpEnd, downVars, pollVars, askVars, Goto
  <2> QED
    BY <2>1 DEF Registered
<1>18. CASE Cleanup
  <2>1. started /\ UNCHANGED started
    BY <1>18 DEF Cleanup, Registered
  <2> QED
    BY <1>18, <2>1, CleanupKeeps DEF Registered
<1>19. CASE PollEnd
  <2>1. pc # "idle" /\ UNCHANGED <<upstreams, started>>
    BY <1>19 DEF PollEnd, downVars, pollVars, askVars, Goto
  <2> QED
    BY <2>1 DEF Registered
<1>20. ASSUME NEW c \in Clients, AddUpstream(c) PROVE Registered'
  <2>1. ~started /\ pc = "idle" /\ UNCHANGED <<started, pc, pending, state>>
    BY <1>20 DEF AddUpstream, pollVars, downVars
  <2>2. upstreams' = Append(upstreams, NewSession(c))
    BY <1>20 DEF AddUpstream
  <2>3. NewSession(c) \in [client : Clients, session_id : Nat] /\ NewSession(c).session_id = Len(upstreams)
    BY SessionFacts DEF NewSession
  <2>4. /\ Len(upstreams) \in Nat /\ DOMAIN upstreams = 1..Len(upstreams)
        /\ DOMAIN upstreams' = 1..(Len(upstreams) + 1)
        /\ \A k \in 1..Len(upstreams) : upstreams'[k] = upstreams[k]
        /\ upstreams'[Len(upstreams) + 1] = NewSession(c)
    BY <2>2, <2>3, AppendFacts DEF TypeOK
  <2>5. \A k \in DOMAIN upstreams : upstreams[k].session_id = k - 1
    BY <2>1 DEF Registered
  <2>6. \A k \in DOMAIN upstreams' : upstreams'[k].session_id = k - 1
    BY <2>3, <2>4, <2>5
  <2>7. \A j, k \in DOMAIN upstreams' : upstreams'[j].session_id = upstreams'[k].session_id => j = k
    BY <2>4, <2>6
  <2> QED
    BY <2>1, <2>6, <2>7 DEF Registered
<1>21. CASE Tick
  BY <1>21 DEF Registered, Tick, downVars, pollVars, askVars, Goto
<1>22. CASE UNCHANGED vars
  BY <1>22 DEF Registered, vars, downVars, pollVars, askVars
<1> QED
  BY <1>1, <1>2, <1>3, <1>4, <1>5, <1>6, <1>7, <1>8, <1>9, <1>10, <1>11, <1>12, <1>13, <1>14,
     <1>15, <1>16, <1>17, <1>18, <1>19, <1>20, <1>21, <1>22 DEF Next, Step, Poll, Phase1,
     Phase2, Phase3


(* Names depends on the sessions alone.                                     *)
LEMMA NamesSame ==
  ASSUME NEW s, NEW r, UNCHANGED upstreams
  PROVE  Names(s, r)' <=> Names(s, r)
BY DEF Names

(* The session at hand is that of the request at hand.                      *)
LEMMA CurrentOwned ==
  ASSUME TypeOK, Positions, Registered, Owned, Routing
  PROVE  /\ Names(Current.session_idx, Head(batch)) /\ upstreams[idx].client = Head(batch).client
<1>1. /\ idx \in DOMAIN upstreams /\ Current.session_idx = upstreams[idx].session_id
  BY CurrentFacts
<1>2. Head(batch) = batch[1] /\ 1 \in DOMAIN batch
  BY TailFacts DEF Routing, TypeOK
<1>3. upstreams[idx].client = Head(batch).client
  BY <1>2 DEF Owned, Routing
<1> QED
  BY <1>1, <1>3 DEF Names, Registered

(* The rest of a batch belongs to the same session.                         *)
LEMMA TailOwned ==
  ASSUME TypeOK, Owned, Routing, batch' = Tail(batch), UNCHANGED <<pc, idx, upstreams>>
  PROVE  \A k \in DOMAIN batch' : pc' = "route" => batch'[k].client = upstreams'[idx'].client
<1>1. /\ Len(batch) \in Nat \ {0} /\ DOMAIN batch = 1..Len(batch)
      /\ DOMAIN Tail(batch) = 1..(Len(batch) - 1)
      /\ \A k \in 1..(Len(batch) - 1) : Tail(batch)[k] = batch[k + 1]
  BY TailFacts DEF TypeOK, Routing
<1>2. \A k \in DOMAIN batch : batch[k].client = upstreams[idx].client
  BY DEF Owned, Routing
<1> QED
  BY <1>1, <1>2

(* Owned in two parts: the queue and the channels.                          *)
QueueOwned == \A k \in DOMAIN pending : Names(pending[k].session_idx, pending[k].req)
ChannelOwned == \A d \in Channels : state[d] # None => Names(state[d].session_idx, state[d].req)

(* A channel that starts to wait does so for the client of its request.     *)
LEMMA DispatchOwned ==
  ASSUME TypeOK, Owned, NEW d \in Channels, NEW p \in PendingRequest, Dispatched(d, p),
         Names(p.session_idx, p.req), UNCHANGED upstreams
  PROVE  ChannelOwned'
<1>1. state \in [Channels -> AwaitingResponse \cup {None}]
  BY DEF TypeOK
<1>2. Waiting(d, p).session_idx = p.session_idx /\ Waiting(d, p).req = p.req
  BY DEF Waiting
<1>3. \A c \in Channels : state'[c] # None =>
        \/ state'[c] = state[c]
        \/ state'[c].session_idx = p.session_idx /\ state'[c].req = p.req
  BY <1>1, <1>2 DEF Dispatched
<1>4. \A c \in Channels : state'[c] # None => Names(state'[c].session_idx, state'[c].req)
  BY <1>3 DEF Owned
<1> QED
  BY <1>4, NamesSame DEF ChannelOwned, Names

(* No step breaks Owned.                                                    *)
LEMMA OwnedStep ==
  ASSUME ~LateJoin, TypeOK, Positions, Routed, IsFiniteSet(txn_map), Once, Apart, Registered, Owned, [Next]_vars
  PROVE  Owned'
<1>1. CASE BeginPoll
  <2>1. /\ UNCHANGED <<upstreams, pending, state, batch>> /\ pc' # "route"
    BY <1>1 DEF BeginPoll, downVars, pollVars, askVars, Goto
  <2> QED
    BY <2>1 DEF Owned, Names
<1>2. CASE DownIdle
  <2>1. /\ UNCHANGED <<upstreams, pending, state, batch>> /\ pc' # "route"
    BY <1>2 DEF DownIdle, downVars, pollVars, askVars, Goto, AtChannel
  <2> QED
    BY <2>1 DEF Owned, Names
<1>3. CASE DownRecv
  <2>1. /\ UNCHANGED <<upstreams, pending, state, batch>> /\ pc' # "route"
    BY <1>3 DEF DownRecv, downVars, pollVars, askVars, Goto, AtChannel
  <2> QED
    BY <2>1 DEF Owned, Names
<1>4. CASE DownNothing
  <2>1. /\ UNCHANGED <<upstreams, pending, state, batch>> /\ pc' # "route"
    BY <1>4 DEF DownNothing, downVars, pollVars, askVars, Goto
  <2> QED
    BY <2>1 DEF Owned, Names
<1>5. CASE DownComplete
  <2>1. /\ UNCHANGED <<upstreams, pending, batch>> /\ pc' # "route"
        /\ state' = [state EXCEPT ![idx] = None]
    BY <1>5 DEF DownComplete, FreeChannel, Goto
  <2>2. state \in [Channels -> AwaitingResponse \cup {None}]
    BY DEF TypeOK
  <2> QED
    BY <2>1, <2>2 DEF Owned, Names
<1>6. CASE DownFailed
  <2>1. /\ UNCHANGED <<upstreams, pending, batch>> /\ pc' # "route"
        /\ state' = [state EXCEPT ![idx] = None]
    BY <1>6 DEF DownFailed, FreeChannel, Goto
  <2>2. state \in [Channels -> AwaitingResponse \cup {None}]
    BY DEF TypeOK
  <2> QED
    BY <2>1, <2>2 DEF Owned, Names
<1>7. CASE ServicePending
  <2> DEFINE p == Head(pending)
             d == Route[p.req.unit]
  <2>1. /\ p \in PendingRequest /\ d \in Channels /\ Tail(pending) \in Seq(PendingRequest)
    BY <1>7, QueueHead DEF ServicePending
  <2>2. UNCHANGED <<upstreams, batch, pc, idx>> /\ batch = <<>>
    BY <1>7 DEF ServicePending, Positions
  <2>3. /\ p = pending[1] /\ 1 \in DOMAIN pending
        /\ Len(pending) \in Nat \ {0} /\ DOMAIN pending = 1..Len(pending)
        /\ Len(Tail(pending)) = Len(pending) - 1 /\ DOMAIN Tail(pending) = 1..(Len(pending) - 1)
        /\ \A k \in 1..(Len(pending) - 1) : Tail(pending)[k] = pending[k + 1]
    BY <1>7, TailFacts DEF ServicePending, TypeOK
  <2>4. Names(p.session_idx, p.req)
    BY <2>3 DEF Owned
  <2>5. \A k \in DOMAIN Tail(pending) : Names(Tail(pending)[k].session_idx, Tail(pending)[k].req)
    BY <2>3 DEF Owned
  <2>6. CASE state[d] = None
    <3>1. Dispatch(d, p) /\ pending' = Tail(pending)
      BY <1>7, <2>6 DEF ServicePending
    <3> HIDE DEF p, d
    <3>2. Dispatched(d, p)
      BY <2>1, <3>1, DispatchFacts
    <3>3. ChannelOwned'
      BY <2>1, <2>2, <2>4, <3>2, DispatchOwned
    <3>4. QueueOwned'
      BY <2>2, <2>5, <3>1 DEF QueueOwned, Names
    <3> QED
      BY <2>2, <3>3, <3>4 DEF Owned, ChannelOwned, QueueOwned
  <2>7. CASE state[d] # None
    <3>1. pending' = Append(Tail(pending), p) /\ UNCHANGED state
      BY <1>7, <2>7 DEF ServicePending, downVars
    <3> HIDE DEF p, d
    <3>2. \A k \in DOMAIN pending' : pending'[k] = p \/ (k \in DOMAIN Tail(pending) /\ pending'[k] = Tail(pending)[k])
      <4>1. /\ DOMAIN pending' = 1..(Len(Tail(pending)) + 1)
            /\ \A k \in 1..Len(Tail(pending)) : pending'[k] = Tail(pending)[k]
            /\ pending'[Len(Tail(pending)) + 1] = p
        BY <2>1, <3>1, AppendFacts
      <4>2. \A k \in DOMAIN pending' : k \in 1..Len(Tail(pending)) \/ k = Len(Tail(pending)) + 1
        BY <2>3, <4>1
      <4> QED
        BY <2>3, <4>1, <4>2
    <3>3. \A k \in DOMAIN pending' : Names(pending'[k].session_idx, pending'[k].req)
      BY <2>4, <2>5, <3>2
    <3>4. QueueOwned'
      BY <2>2, <3>3 DEF QueueOwned, Names
    <3> QED
      BY <2>2, <3>1, <3>4 DEF Owned, QueueOwned, Names
  <2> QED
    BY <2>6, <2>7
<1>8. CASE ServiceDone
  <2>1. /\ UNCHANGED <<upstreams, pending, state, batch>> /\ pc' # "route"
    BY <1>8 DEF ServiceDone, downVars, pollVars, askVars, Goto
  <2> QED
    BY <2>1 DEF Owned, Names
<1>9. CASE DownEnd
  <2>1. /\ UNCHANGED <<upstreams, pending, state, batch>> /\ pc' # "route"
    BY <1>9 DEF DownEnd, downVars, pollVars, askVars, Goto
  <2> QED
    BY <2>1 DEF Owned, Names
<1>10. CASE UpRecv
  <2>1. PICK new \in Arrivals : batch' = new
    BY <1>10 DEF UpRecv
  <2>2. \A k \in DOMAIN new : new[k] \in Fresh
    <3>1. CASE new = <<>>
      BY <3>1
    <3>2. ASSUME NEW r \in Fresh, new = <<r>> PROVE \A k \in DOMAIN new : new[k] \in Fresh
      BY <3>2
    <3>3. ASSUME NEW r \in Fresh, NEW s \in Fresh, new = <<r, s>>
          PROVE  \A k \in DOMAIN new : new[k] \in Fresh
      BY <3>3
    <3> QED
      BY <3>1, <3>2, <3>3 DEF Arrivals
  <2>3. UNCHANGED <<upstreams, pending, state, idx>>
    BY <1>10 DEF UpRecv, downVars, Goto
  <2> QED
    BY <2>1, <2>2, <2>3 DEF Owned, Names, Fresh
<1>11. CASE UpLost
  <2>1. /\ UNCHANGED <<upstreams, pending, state, batch>> /\ pc' # "route"
    BY <1>11 DEF UpLost, downVars, pollVars, askVars, Goto, AtUpstream
  <2> QED
    BY <2>1 DEF Owned, Names
<1>12. CASE RouteMiss
  <2>1. \A k \in DOMAIN batch' : pc' = "route" => batch'[k].client = upstreams'[idx'].client
    BY <1>12, TailOwned DEF RouteMiss
  <2>2. UNCHANGED <<upstreams, pending, state>>
    BY <1>12 DEF RouteMiss, downVars
  <2> QED
    BY <2>1, <2>2 DEF Owned, Names
<1>13. CASE RouteForward
  <2>1. \A k \in DOMAIN batch' : pc' = "route" => batch'[k].client = upstreams'[idx'].client
    BY <1>13, TailOwned DEF RouteForward
  <2>2. /\ Current \in PendingRequest /\ Current.req = Head(batch) /\ Head(batch) \in Requests
        /\ Names(Current.session_idx, Current.req)
    BY <1>13, CurrentFacts, CurrentOwned DEF RouteForward
  <2>3. Channel \in Channels
    BY <1>13, <2>2, RequestFacts DEF RouteForward, Channel
  <2>4. Dispatched(Channel, Current)
    BY <1>13, <2>2, <2>3, DispatchFacts DEF RouteForward
  <2>5. UNCHANGED <<upstreams, pending>>
    BY <1>13 DEF RouteForward
  <2>6. ChannelOwned'
    BY <2>2, <2>3, <2>4, <2>5, DispatchOwned
  <2> QED
    BY <2>1, <2>5, <2>6 DEF Owned, Names, ChannelOwned
<1>14. CASE RouteQueue
  <2>1. \A k \in DOMAIN batch' : pc' = "route" => batch'[k].client = upstreams'[idx'].client
    BY <1>14, TailOwned DEF RouteQueue
  <2>2. /\ Current \in PendingRequest /\ Current.req = Head(batch)
        /\ Names(Current.session_idx, Current.req)
    BY <1>14, CurrentFacts, CurrentOwned DEF RouteQueue
  <2>3. /\ UNCHANGED <<upstreams, state>> /\ pending' = Append(pending, Current)
    BY <1>14 DEF RouteQueue, downVars
  <2>4. /\ DOMAIN pending' = 1..(Len(pending) + 1) /\ DOMAIN pending = 1..Len(pending)
        /\ Len(pending) \in Nat
        /\ \A k \in 1..Len(pending) : pending'[k] = pending[k]
        /\ pending'[Len(pending) + 1] = Current
    BY <2>2, <2>3, AppendFacts DEF TypeOK
  <2>5. \A k \in DOMAIN pending' : pending'[k] = Current \/ (k \in DOMAIN pending /\ pending'[k] = pending[k])
    <3>1. \A k \in DOMAIN pending' : k \in 1..Len(pending) \/ k = Len(pending) + 1
      BY <2>4
    <3> QED
      BY <2>4, <3>1
  <2>6. \A k \in DOMAIN pending' : Names(pending'[k].session_idx, pending'[k].req)
    BY <2>2, <2>5 DEF Owned
  <2> QED
    BY <2>1, <2>3, <2>6 DEF Owned, Names
<1>15. CASE RouteReject
  <2>1. \A k \in DOMAIN batch' : pc' = "route" => batch'[k].client = upstreams'[idx'].client
    BY <1>15, TailOwned DEF RouteReject
  <2>2. UNCHANGED <<upstreams, pending, state>>
    BY <1>15 DEF RouteReject, downVars
  <2> QED
    BY <2>1, <2>2 DEF Owned, Names
<1>16. CASE UpNext
  <2>1. /\ UNCHANGED <<upstreams, pending, state, batch>> /\ pc' # "route"
    BY <1>16 DEF UpNext, downVars, pollVars, askVars, Goto
  <2> QED
    BY <2>1 DEF Owned, Names
<1>17. CASE UpEnd
  <2>1. /\ UNCHANGED <<upstreams, pending, state, batch>> /\ pc' # "route"
    BY <1>17 DEF UpEnd, downVars, pollVars, askVars, Goto
  <2> QED
    BY <2>1 DEF Owned, Names
<1>18. CASE Cleanup
  <2>1. /\ UNCHANGED <<pending, state, batch, pc>> /\ pc # "route"
    BY <1>18 DEF Cleanup
  <2>2. \A k \in DOMAIN upstreams' : \E j \in DOMAIN upstreams : upstreams'[k] = upstreams[j]
    BY <1>18, CleanupKeeps
  <2>3. \A k \in DOMAIN pending : Names(pending[k].session_idx, pending[k].req)'
    BY <2>1, <2>2 DEF Owned, Names
  <2>4. \A d \in Channels : state[d] # None => Names(state[d].session_idx, state[d].req)'
    BY <2>1, <2>2 DEF Owned, Names
  <2> QED
    BY <2>1, <2>3, <2>4 DEF Owned
<1>19. CASE PollEnd
  <2>1. /\ UNCHANGED <<upstreams, pending, state, batch>> /\ pc' # "route"
    BY <1>19 DEF PollEnd, downVars, pollVars, askVars, Goto
  <2> QED
    BY <2>1 DEF Owned, Names
<1>20. ASSUME NEW c \in Clients, AddUpstream(c) PROVE Owned'
  <2>1. ~started /\ pc = "idle" /\ UNCHANGED <<pc, pending, state, batch>>
    BY <1>20 DEF AddUpstream, pollVars, downVars
  <2> QED
    BY <2>1 DEF Registered, Owned
<1>21. CASE Tick
  <2>1. /\ UNCHANGED <<upstreams, pending, state, batch>> /\ pc' # "route"
    BY <1>21 DEF Tick, downVars, pollVars, askVars, Goto
  <2> QED
    BY <2>1 DEF Owned, Names
<1>22. CASE UNCHANGED vars
  BY <1>22 DEF Owned, Names, vars, downVars, pollVars, askVars
<1> QED
  BY <1>1, <1>2, <1>3, <1>4, <1>5, <1>6, <1>7, <1>8, <1>9, <1>10, <1>11, <1>12, <1>13, <1>14,
     <1>15, <1>16, <1>17, <1>18, <1>19, <1>20, <1>21, <1>22 DEF Next, Step, Poll, Phase1,
     Phase2, Phase3


-----------------------------------------------------------------------------
(* Session s is registered.                                                 *)
LEMMA Found ==
  ASSUME TypeOK, Registered, NEW s
  PROVE  PositionOf(s) # {} <=> \E k \in DOMAIN upstreams : upstreams[k].session_id = s
<1>1. \A k \in DOMAIN upstreams : upstreams[k].session_id = s => k \in PositionOf(s)
  BY SessionFacts DEF PositionOf, Registered
<1>2. \A k \in PositionOf(s) : k \in DOMAIN upstreams /\ upstreams[k].session_id = s
  BY DEF PositionOf
<1> QED
  BY <1>1, <1>2

(* The map's entry for what channel d waits on.                             *)
EntryOf(w) == [internal_txn |-> w.internal_txn, upstream_txn |-> w.req.txn, session_id |-> w.session_idx]

(* TxnMapExact in three parts.                                              *)
EntriesAwaited == \A e \in txn_map : \E d \in Channels : state[d] # None /\ e = EntryOf(state[d])
AwaitedEntered ==
  \A d \in Channels : state[d] # None /\ PositionOf(state[d].session_idx) # {} =>
    EntryOf(state[d]) \in txn_map
IdsDistinct ==
  \A c, d \in Channels : state[c] # None /\ state[d] # None /\ c # d =>
    state[c].internal_txn # state[d].internal_txn
MapExact == EntriesAwaited /\ AwaitedEntered /\ IdsDistinct

(* MapExact is TxnMapExact, with the entries named.                         *)
LEMMA MapIsExact ==
  ASSUME MapExact
  PROVE  TxnMapExact
<1>1. \A d \in Channels : state[d] # None /\ PositionOf(state[d].session_idx) # {} =>
        WithInternal(state[d].internal_txn) # {}
  <2> SUFFICES ASSUME NEW d \in Channels, state[d] # None, PositionOf(state[d].session_idx) # {}
               PROVE  WithInternal(state[d].internal_txn) # {}
    OBVIOUS
  <2>1. EntryOf(state[d]) \in txn_map
    BY DEF MapExact, AwaitedEntered
  <2>2. EntryOf(state[d]).internal_txn = state[d].internal_txn
    BY DEF EntryOf
  <2> QED
    BY <2>1, <2>2 DEF WithInternal
<1>2. \A e \in txn_map : \E d \in Channels :
        /\ state[d] # None
        /\ e = [internal_txn |-> state[d].internal_txn, upstream_txn |-> state[d].req.txn,
                session_id |-> state[d].session_idx]
  BY DEF MapExact, EntriesAwaited, EntryOf
<1>3. \A c, d \in Channels : state[c] # None /\ state[d] # None /\ c # d =>
        state[c].internal_txn # state[d].internal_txn
  BY DEF MapExact, IdsDistinct
<1> QED
  BY <1>1, <1>2, <1>3 DEF TxnMapExact

(* The only entry under the id of a channel that waits is its own.          *)
LEMMA OwnEntry ==
  ASSUME MapExact, NEW d \in Channels, state[d] # None,
         NEW e \in WithInternal(state[d].internal_txn)
  PROVE  e = EntryOf(state[d])
<1>1. e \in txn_map /\ e.internal_txn = state[d].internal_txn
  BY DEF WithInternal
<1>2. PICK c \in Channels : state[c] # None /\ e = EntryOf(state[c])
  BY <1>1 DEF MapExact, EntriesAwaited
<1>3. e.internal_txn = state[c].internal_txn
  BY <1>2 DEF EntryOf
<1>4. c = d
  BY <1>1, <1>2, <1>3 DEF MapExact, IdsDistinct
<1> QED
  BY <1>2, <1>4

(* A channel is set free and its entry, if it is still there, removed.      *)
LEMMA FreedExact ==
  ASSUME TypeOK, MapExact, NEW d \in Channels, state[d] # None,
         state' = [state EXCEPT ![d] = None], UNCHANGED upstreams,
         \/ WithInternal(state[d].internal_txn) = {} /\ txn_map' = txn_map
         \/ \E e \in WithInternal(state[d].internal_txn) : txn_map' = txn_map \ {e}
  PROVE  MapExact'
<1>1. state'[d] = None /\ \A c \in Channels : c # d => state'[c] = state[c]
  BY DEF TypeOK
<1>2. txn_map' = txn_map \ {EntryOf(state[d])}
  <2>1. CASE WithInternal(state[d].internal_txn) = {} /\ txn_map' = txn_map
    <3>1. EntryOf(state[d]).internal_txn = state[d].internal_txn
      BY DEF EntryOf
    <3>2. EntryOf(state[d]) \notin txn_map
      BY <2>1, <3>1 DEF WithInternal
    <3> QED
      BY <2>1, <3>2
  <2>2. ASSUME NEW e \in WithInternal(state[d].internal_txn), txn_map' = txn_map \ {e}
        PROVE  txn_map' = txn_map \ {EntryOf(state[d])}
    BY <2>2, OwnEntry
  <2> QED
    BY <2>1, <2>2
<1>3. \A c \in Channels : c # d /\ state[c] # None => EntryOf(state[c]) # EntryOf(state[d])
  BY DEF MapExact, IdsDistinct, EntryOf
<1>4. EntriesAwaited'
  BY <1>1, <1>2 DEF MapExact, EntriesAwaited
<1>5. AwaitedEntered'
  BY <1>1, <1>2, <1>3 DEF MapExact, AwaitedEntered, PositionOf
<1>6. IdsDistinct'
  BY <1>1 DEF MapExact, IdsDistinct
<1> QED
  BY <1>4, <1>5, <1>6 DEF MapExact

(* dispatch_to_downstream enters what it forwards.                          *)
LEMMA DispatchExact ==
  ASSUME TypeOK, MapExact, NEW d \in Channels, state[d] = None, NEW p \in PendingRequest,
         Dispatch(d, p), IdFree, UNCHANGED upstreams
  PROVE  MapExact'
<1>1. CASE Forward(d, p)
  <2> DEFINE w == Waiting(d, p)
  <2>1. /\ state' = [state EXCEPT ![d] = w] /\ txn_map' = txn_map \cup {EntryOf(w)}
        /\ w.internal_txn = next_internal
    BY <1>1 DEF Forward, Waiting, EntryOf
  <2>2. w # None
    <3>1. w \in AwaitingResponse
      BY CapacityAssumption DEF Waiting, AwaitingResponse, TypeOK, PendingRequest
    <3> QED
      BY <3>1, NoneAssumption
  <2> HIDE DEF w
  <2>3. state'[d] = w /\ \A c \in Channels : c # d => state'[c] = state[c]
    BY <2>1 DEF TypeOK
  <2>4. \A c \in Channels : state[c] # None => state[c].internal_txn # next_internal
    BY <2>2, <2>3 DEF IdFree
  <2>5. EntriesAwaited'
    <3> SUFFICES ASSUME NEW e \in txn_map'
                 PROVE  \E c \in Channels : state'[c] # None /\ e = EntryOf(state'[c])
      BY DEF EntriesAwaited
    <3>1. CASE e = EntryOf(w)
      BY <2>2, <2>3, <3>1
    <3>2. CASE e \in txn_map
      <4>1. PICK c \in Channels : state[c] # None /\ e = EntryOf(state[c])
        BY <3>2 DEF MapExact, EntriesAwaited
      <4> QED
        BY <2>3, <4>1
    <3> QED
      BY <2>1, <3>1, <3>2
  <2>6. AwaitedEntered'
    <3> SUFFICES ASSUME NEW c \in Channels, state'[c] # None,
                        PositionOf(state[c].session_idx)' # {}
                 PROVE  EntryOf(state'[c]) \in txn_map'
      BY DEF AwaitedEntered
    <3>1. CASE c = d
      BY <2>1, <2>3, <3>1
    <3>2. CASE c # d
      <4>1. state'[c] = state[c]
        BY <2>3, <3>2
      <4>2. PositionOf(state[c].session_idx) # {}
        BY <4>1 DEF PositionOf
      <4> QED
        BY <2>1, <4>1, <4>2 DEF MapExact, AwaitedEntered
    <3> QED
      BY <3>1, <3>2
  <2>7. IdsDistinct'
    BY <2>1, <2>3, <2>4 DEF MapExact, IdsDistinct
  <2> QED
    BY <2>5, <2>6, <2>7 DEF MapExact
<1>2. CASE ForwardFailed(p)
  BY <1>2 DEF ForwardFailed, MapExact, EntriesAwaited, AwaitedEntered, IdsDistinct, PositionOf
<1> QED
  BY <1>1, <1>2 DEF Dispatch

(* Steps that leave channels, map and sessions alone.                       *)
LEMMA SameExact ==
  ASSUME MapExact, UNCHANGED <<state, txn_map, upstreams>>
  PROVE  MapExact'
BY DEF MapExact, EntriesAwaited, AwaitedEntered, IdsDistinct, PositionOf

(* No step breaks MapExact, as long as ids are free when they are given     *)
(* out.                                                                     *)
LEMMA MapStep ==
  ASSUME ~LateJoin, TypeOK, Positions, Routed, IsFiniteSet(txn_map), Once, Apart, Registered, MapExact, IdFree, [Next]_vars
  PROVE  MapExact'
<1>1. CASE BeginPoll
  <2>1. UNCHANGED <<state, txn_map, upstreams>>
    BY <1>1 DEF BeginPoll, downVars, pollVars, askVars, Goto
  <2> QED
    BY <2>1, SameExact
<1>2. CASE DownIdle
  <2>1. UNCHANGED <<state, txn_map, upstreams>>
    BY <1>2 DEF DownIdle, downVars, pollVars, askVars, Goto, AtChannel
  <2> QED
    BY <2>1, SameExact
<1>3. CASE DownRecv
  <2>1. UNCHANGED <<state, txn_map, upstreams>>
    BY <1>3 DEF DownRecv, downVars, pollVars, askVars, Goto, AtChannel
  <2> QED
    BY <2>1, SameExact
<1>4. CASE DownNothing
  <2>1. UNCHANGED <<state, txn_map, upstreams>>
    BY <1>4 DEF DownNothing, downVars, pollVars, askVars, Goto
  <2> QED
    BY <2>1, SameExact
<1>5. CASE DownComplete
  <2>1. idx \in Channels /\ state[idx] # None
    BY <1>5 DEF DownComplete, Positions
  <2>2. state' = [state EXCEPT ![idx] = None] /\ UNCHANGED upstreams
    BY <1>5 DEF DownComplete, FreeChannel
  <2>3. \/ WithInternal(state[idx].internal_txn) = {} /\ txn_map' = txn_map
        \/ \E e \in WithInternal(state[idx].internal_txn) : txn_map' = txn_map \ {e}
    BY <1>5 DEF DownComplete
  <2> QED
    BY <2>1, <2>2, <2>3, FreedExact
<1>6. CASE DownFailed
  <2>1. idx \in Channels /\ state[idx] # None
    BY <1>6, AtChannelFacts DEF DownFailed, Positions
  <2>2. state' = [state EXCEPT ![idx] = None] /\ UNCHANGED upstreams
    BY <1>6 DEF DownFailed, FreeChannel
  <2>3. \/ WithInternal(state[idx].internal_txn) = {} /\ txn_map' = txn_map
        \/ \E e \in WithInternal(state[idx].internal_txn) : txn_map' = txn_map \ {e}
    BY <1>6 DEF DownFailed
  <2> QED
    BY <2>1, <2>2, <2>3, FreedExact
<1>7. CASE ServicePending
  <2> DEFINE p == Head(pending)
             d == Route[p.req.unit]
  <2>1. p \in PendingRequest /\ d \in Channels /\ UNCHANGED upstreams
    BY <1>7, QueueHead DEF ServicePending
  <2>2. CASE state[d] = None
    <3>1. Dispatch(d, p)
      BY <1>7, <2>2 DEF ServicePending
    <3> HIDE DEF p, d
    <3> QED
      BY <2>1, <2>2, <3>1, DispatchExact
  <2>3. CASE state[d] # None
    <3>1. UNCHANGED <<state, txn_map>>
      BY <1>7, <2>3 DEF ServicePending, downVars
    <3> QED
      BY <2>1, <3>1, SameExact
  <2> QED
    BY <2>2, <2>3
<1>8. CASE ServiceDone
  <2>1. UNCHANGED <<state, txn_map, upstreams>>
    BY <1>8 DEF ServiceDone, downVars, pollVars, askVars, Goto
  <2> QED
    BY <2>1, SameExact
<1>9. CASE DownEnd
  <2>1. UNCHANGED <<state, txn_map, upstreams>>
    BY <1>9 DEF DownEnd, downVars, pollVars, askVars, Goto
  <2> QED
    BY <2>1, SameExact
<1>10. CASE UpRecv
  <2>1. UNCHANGED <<state, txn_map, upstreams>>
    BY <1>10 DEF UpRecv, downVars, pollVars, askVars, Goto, AtUpstream
  <2> QED
    BY <2>1, SameExact
<1>11. CASE UpLost
  <2>1. UNCHANGED <<state, txn_map, upstreams>>
    BY <1>11 DEF UpLost, downVars, pollVars, askVars, Goto, AtUpstream
  <2> QED
    BY <2>1, SameExact
<1>12. CASE RouteMiss
  <2>1. UNCHANGED <<state, txn_map, upstreams>>
    BY <1>12 DEF RouteMiss, downVars, pollVars, askVars, Goto, Routing
  <2> QED
    BY <2>1, SameExact
<1>13. CASE RouteForward
  <2>1. /\ Current \in PendingRequest /\ Channel \in Channels /\ state[Channel] = None
    BY <1>13, CurrentFacts, RequestFacts DEF RouteForward, Channel, Busy
  <2> QED
    BY <1>13, <2>1, DispatchExact DEF RouteForward
<1>14. CASE RouteQueue
  <2>1. UNCHANGED <<state, txn_map, upstreams>>
    BY <1>14 DEF RouteQueue, downVars, pollVars, askVars, Goto, Routing
  <2> QED
    BY <2>1, SameExact
<1>15. CASE RouteReject
  <2>1. UNCHANGED <<state, txn_map, upstreams>>
    BY <1>15 DEF RouteReject, downVars, pollVars, askVars, Goto, Routing
  <2> QED
    BY <2>1, SameExact
<1>16. CASE UpNext
  <2>1. UNCHANGED <<state, txn_map, upstreams>>
    BY <1>16 DEF UpNext, downVars, pollVars, askVars, Goto
  <2> QED
    BY <2>1, SameExact
<1>17. CASE UpEnd
  <2>1. UNCHANGED <<state, txn_map, upstreams>>
    BY <1>17 DEF UpEnd, downVars, pollVars, askVars, Goto
  <2> QED
    BY <2>1, SameExact
<1>18. CASE Cleanup
  <2>1. UNCHANGED state /\ txn_map' = {e \in txn_map : e.session_id # Head(gone)}
    BY <1>18 DEF Cleanup
  <2>2. /\ \A k \in DOMAIN upstreams' : \E j \in DOMAIN upstreams : upstreams'[k] = upstreams[j]
        /\ \A k \in DOMAIN upstreams' : upstreams'[k].session_id # Head(gone)
    BY <1>18, CleanupKeeps
  <2>3. EntriesAwaited' /\ IdsDistinct'
    BY <2>1 DEF MapExact, EntriesAwaited, IdsDistinct
  <2>4. AwaitedEntered'
    <3> SUFFICES ASSUME NEW d \in Channels, state[d] # None, PositionOf(state[d].session_idx)' # {}
                 PROVE  EntryOf(state[d]) \in txn_map'
      BY <2>1 DEF AwaitedEntered
    <3>1. PICK k \in DOMAIN upstreams' : upstreams'[k].session_id = state[d].session_idx
      BY <2>1 DEF PositionOf
    <3>2. \E j \in DOMAIN upstreams : upstreams[j].session_id = state[d].session_idx
      BY <2>2, <3>1
    <3>3. PositionOf(state[d].session_idx) # {}
      BY <3>2, Found
    <3>4. EntryOf(state[d]) \in txn_map
      BY <3>3 DEF MapExact, AwaitedEntered
    <3>5. EntryOf(state[d]).session_id = state[d].session_idx /\ state[d].session_idx # Head(gone)
      BY <2>2, <3>1 DEF EntryOf
    <3> QED
      BY <2>1, <3>4, <3>5
  <2> QED
    BY <2>3, <2>4 DEF MapExact
<1>19. CASE PollEnd
  <2>1. UNCHANGED <<state, txn_map, upstreams>>
    BY <1>19 DEF PollEnd, downVars, pollVars, askVars, Goto
  <2> QED
    BY <2>1, SameExact
<1>20. ASSUME NEW c \in Clients, AddUpstream(c) PROVE MapExact'
  <2>1. ~started /\ UNCHANGED <<state, txn_map>>
    BY <1>20 DEF AddUpstream, downVars
  <2>2. \A d \in Channels : state[d] = None
    BY <2>1 DEF Registered
  <2> QED
    BY <2>1, <2>2 DEF MapExact, EntriesAwaited, AwaitedEntered, IdsDistinct
<1>21. CASE Tick
  <2>1. UNCHANGED <<state, txn_map, upstreams>>
    BY <1>21 DEF Tick, downVars, pollVars, askVars, Goto
  <2> QED
    BY <2>1, SameExact
<1>22. CASE UNCHANGED vars
  BY <1>22, SameExact DEF vars, downVars, pollVars, askVars
<1> QED
  BY <1>1, <1>2, <1>3, <1>4, <1>5, <1>6, <1>7, <1>8, <1>9, <1>10, <1>11, <1>12, <1>13, <1>14,
     <1>15, <1>16, <1>17, <1>18, <1>19, <1>20, <1>21, <1>22 DEF Next, Step, Poll, Phase1,
     Phase2, Phase3


-----------------------------------------------------------------------------
(* What is sent for r, if anything, goes to its client under its id.        *)
Right(r) ==
  \/ UNCHANGED answers
  \/ \E a \in Answer : /\ a.to = r.client /\ a.txn = r.txn
                       /\ answers' = [answers EXCEPT ![r] = Append(@, a)]

(* An answer to the right client under the right id keeps AnswerToOwner.    *)
LEMMA RightKeeps ==
  ASSUME TypeOK, AnswerToOwner, NEW r \in Requests, Right(r)
  PROVE  AnswerToOwner'
<1>1. CASE UNCHANGED answers
  BY <1>1 DEF AnswerToOwner
<1>2. ASSUME NEW a \in Answer, a.to = r.client, a.txn = r.txn,
             answers' = [answers EXCEPT ![r] = Append(@, a)]
      PROVE  AnswerToOwner'
  <2>0. answers \in [Requests -> Seq(Answer)]
    BY DEF TypeOK
  <2>1. answers[r] \in Seq(Answer) /\ answers'[r] = Append(answers[r], a)
    BY <1>2, <2>0
  <2>2. \A q \in Requests : q # r => answers'[q] = answers[q]
    BY <1>2, <2>0
  <2>3. /\ Len(answers[r]) \in Nat /\ DOMAIN answers[r] = 1..Len(answers[r])
        /\ DOMAIN answers'[r] = 1..(Len(answers[r]) + 1)
        /\ \A k \in 1..Len(answers[r]) : answers'[r][k] = answers[r][k]
        /\ answers'[r][Len(answers[r]) + 1] = a
    BY <2>1, AppendFacts
  <2>4. \A k \in DOMAIN answers'[r] : answers'[r][k].to = r.client /\ answers'[r][k].txn = r.txn
    <3>1. \A k \in DOMAIN answers'[r] : k \in 1..Len(answers[r]) \/ k = Len(answers[r]) + 1
      BY <2>3
    <3> QED
      BY <1>2, <2>3, <3>1 DEF AnswerToOwner
  <2> QED
    BY <2>2, <2>4 DEF AnswerToOwner
<1> QED
  BY <1>1, <1>2 DEF Right

(* An answer sent to the client of the request, under its id.               *)
LEMMA RespondRight ==
  ASSUME TypeOK, NEW r \in Requests, NEW k \in DOMAIN upstreams, upstreams[k].client = r.client,
         NEW txn, txn = r.txn, NEW about \in Requests \cup {None}, Respond(r, k, txn, about)
  PROVE  Right(r)
<1>1. [to |-> upstreams[k].client, txn |-> txn, about |-> about] \in Answer
  BY RequestFacts DEF Answer
<1> QED
  BY <1>1 DEF Respond, Right

(* An exception goes to the client the session id stands for.               *)
LEMMA ExceptionRight ==
  ASSUME TypeOK, NEW r \in Requests, NEW s, Names(s, r), SendException(r, s)
  PROVE  Right(r)
<1>1. CASE GiveUp(r)
  BY <1>1 DEF GiveUp, Right
<1>2. ASSUME NEW k \in PositionOf(s), Respond(r, k, r.txn, None) PROVE Right(r)
  <2>1. k \in DOMAIN upstreams /\ upstreams[k].client = r.client
    BY DEF PositionOf, Names
  <2> QED
    BY <1>2, <2>1, RespondRight
<1> QED
  BY <1>1, <1>2 DEF SendException

(* So does the exception of a failed forwarding.                            *)
LEMMA DispatchRight ==
  ASSUME TypeOK, NEW d \in Channels, NEW p \in PendingRequest, Names(p.session_idx, p.req),
         Dispatch(d, p)
  PROVE  Right(p.req)
<1>1. p.req \in Requests
  BY DEF PendingRequest
<1> QED
  BY <1>1, ExceptionRight DEF Dispatch, Forward, ForwardFailed, Right

(* No step breaks AnswerToOwner.                                            *)
LEMMA AnswerStep ==
  ASSUME TypeOK, Positions, Routed, IsFiniteSet(txn_map), Once, Apart, Registered, Owned, MapExact, AnswerToOwner, [Next]_vars
  PROVE  AnswerToOwner'
<1>1. CASE BeginPoll
  <2>1. UNCHANGED answers
    BY <1>1 DEF BeginPoll, downVars, pollVars, askVars, Goto
  <2> QED
    BY <2>1 DEF AnswerToOwner
<1>2. CASE DownIdle
  <2>1. UNCHANGED answers
    BY <1>2 DEF DownIdle, downVars, pollVars, askVars, Goto, AtChannel
  <2> QED
    BY <2>1 DEF AnswerToOwner
<1>3. CASE DownRecv
  <2>1. UNCHANGED answers
    BY <1>3 DEF DownRecv, downVars, pollVars, askVars, Goto, AtChannel
  <2> QED
    BY <2>1 DEF AnswerToOwner
<1>4. CASE DownNothing
  <2>1. UNCHANGED answers
    BY <1>4 DEF DownNothing, downVars, pollVars, askVars, Goto
  <2> QED
    BY <2>1 DEF AnswerToOwner
<1>5. CASE DownComplete
  <2>1. idx \in Channels /\ state[idx] # None
    BY <1>5 DEF DownComplete, Positions
  <2>2. state[idx].req \in Requests /\ Names(state[idx].session_idx, state[idx].req)
    BY <2>1 DEF TypeOK, AwaitingResponse, Owned
  <2>3. Head(rxbuf[idx]) \in Requests
    BY <1>5, <2>1, TailFacts DEF DownComplete, TypeOK
  <2>4. CASE GiveUp(state[idx].req)
    BY <2>4 DEF GiveUp, AnswerToOwner
  <2>5. ASSUME NEW e \in WithInternal(state[idx].internal_txn),
               NEW k \in PositionOf(state[idx].session_idx),
               Respond(state[idx].req, k, e.upstream_txn, Head(rxbuf[idx]))
        PROVE  AnswerToOwner'
    <3>1. e.upstream_txn = state[idx].req.txn
      BY <2>1, OwnEntry DEF EntryOf
    <3>2. k \in DOMAIN upstreams /\ upstreams[k].client = state[idx].req.client
      BY <2>2 DEF PositionOf, Names
    <3>3. Right(state[idx].req)
      BY <2>2, <2>3, <2>5, <3>1, <3>2, RespondRight
    <3> QED
      BY <2>2, <3>3, RightKeeps
  <2> QED
    BY <1>5, <2>4, <2>5 DEF DownComplete
<1>6. CASE DownFailed
  <2>1. idx \in Channels /\ state[idx] # None
    BY <1>6, AtChannelFacts DEF DownFailed
  <2>2. state[idx].req \in Requests /\ Names(state[idx].session_idx, state[idx].req)
    BY <2>1 DEF TypeOK, AwaitingResponse, Owned
  <2>3. Right(state[idx].req)
    BY <1>6, <2>2, ExceptionRight DEF DownFailed
  <2> QED
    BY <2>2, <2>3, RightKeeps
<1>7. CASE ServicePending
  <2> DEFINE p == Head(pending)
             d == Route[p.req.unit]
  <2>1. p \in PendingRequest /\ p.req \in Requests /\ d \in Channels
    BY <1>7, QueueHead DEF ServicePending
  <2>2. p = pending[1] /\ 1 \in DOMAIN pending
    BY <1>7, TailFacts DEF ServicePending, TypeOK
  <2>3. Names(p.session_idx, p.req)
    BY <2>2 DEF Owned
  <2>4. CASE state[d] = None
    <3>1. Dispatch(d, p)
      BY <1>7, <2>4 DEF ServicePending
    <3> HIDE DEF p, d
    <3> QED
      BY <2>1, <2>3, <3>1, DispatchRight, RightKeeps
  <2>5. CASE state[d] # None
    <3>1. UNCHANGED answers
      BY <1>7, <2>5 DEF ServicePending
    <3> QED
      BY <3>1 DEF AnswerToOwner
  <2> QED
    BY <2>4, <2>5
<1>8. CASE ServiceDone
  <2>1. UNCHANGED answers
    BY <1>8 DEF ServiceDone, downVars, pollVars, askVars, Goto
  <2> QED
    BY <2>1 DEF AnswerToOwner
<1>9. CASE DownEnd
  <2>1. UNCHANGED answers
    BY <1>9 DEF DownEnd, downVars, pollVars, askVars, Goto
  <2> QED
    BY <2>1 DEF AnswerToOwner
<1>10. CASE UpRecv
  <2>1. UNCHANGED answers
    BY <1>10 DEF UpRecv, downVars, pollVars, askVars, Goto, AtUpstream
  <2> QED
    BY <2>1 DEF AnswerToOwner
<1>11. CASE UpLost
  <2>1. UNCHANGED answers
    BY <1>11 DEF UpLost, downVars, pollVars, askVars, Goto, AtUpstream
  <2> QED
    BY <2>1 DEF AnswerToOwner
<1>12. CASE RouteMiss
  <2>1. Head(batch) \in Requests /\ idx \in DOMAIN upstreams
    BY <1>12, CurrentFacts DEF RouteMiss
  <2>2. upstreams[idx].client = Head(batch).client
    BY <1>12, CurrentOwned DEF RouteMiss
  <2>3. Right(Head(batch))
    BY <1>12, <2>1, <2>2, RespondRight DEF RouteMiss, GiveUp, Right
  <2> QED
    BY <2>1, <2>3, RightKeeps
<1>13. CASE RouteForward
  <2>1. /\ Current \in PendingRequest /\ Current.req \in Requests /\ Channel \in Channels
        /\ Names(Current.session_idx, Current.req)
    BY <1>13, CurrentFacts, CurrentOwned, RequestFacts DEF RouteForward, Channel
  <2>2. Right(Current.req)
    BY <1>13, <2>1, DispatchRight DEF RouteForward
  <2> QED
    BY <2>1, <2>2, RightKeeps
<1>14. CASE RouteQueue
  <2>1. UNCHANGED answers
    BY <1>14 DEF RouteQueue, downVars, pollVars, askVars, Goto, Routing
  <2> QED
    BY <2>1 DEF AnswerToOwner
<1>15. CASE RouteReject
  <2>1. Head(batch) \in Requests /\ Names(Current.session_idx, Head(batch))
    BY <1>15, CurrentFacts, CurrentOwned DEF RouteReject
  <2>2. Right(Head(batch))
    BY <1>15, <2>1, ExceptionRight DEF RouteReject
  <2> QED
    BY <2>1, <2>2, RightKeeps
<1>16. CASE UpNext
  <2>1. UNCHANGED answers
    BY <1>16 DEF UpNext, downVars, pollVars, askVars, Goto
  <2> QED
    BY <2>1 DEF AnswerToOwner
<1>17. CASE UpEnd
  <2>1. UNCHANGED answers
    BY <1>17 DEF UpEnd, downVars, pollVars, askVars, Goto
  <2> QED
    BY <2>1 DEF AnswerToOwner
<1>18. CASE Cleanup
  <2>1. UNCHANGED answers
    BY <1>18 DEF Cleanup, downVars, pollVars, askVars, Goto
  <2> QED
    BY <2>1 DEF AnswerToOwner
<1>19. CASE PollEnd
  <2>1. UNCHANGED answers
    BY <1>19 DEF PollEnd, downVars, pollVars, askVars, Goto
  <2> QED
    BY <2>1 DEF AnswerToOwner
<1>20. ASSUME NEW c \in Clients, AddUpstream(c) PROVE AnswerToOwner'
  <2>1. UNCHANGED answers
    BY <1>20 DEF AddUpstream, downVars, pollVars, askVars, Goto
  <2> QED
    BY <2>1 DEF AnswerToOwner
<1>21. CASE Tick
  <2>1. UNCHANGED answers
    BY <1>21 DEF Tick, downVars, pollVars, askVars, Goto
  <2> QED
    BY <2>1 DEF AnswerToOwner
<1>22. CASE UNCHANGED vars
  BY <1>22 DEF AnswerToOwner, vars, downVars, pollVars, askVars
<1> QED
  BY <1>1, <1>2, <1>3, <1>4, <1>5, <1>6, <1>7, <1>8, <1>9, <1>10, <1>11, <1>12, <1>13, <1>14,
     <1>15, <1>16, <1>17, <1>18, <1>19, <1>20, <1>21, <1>22 DEF Next, Step, Poll, Phase1,
     Phase2, Phase3


(* All of it holds before anything happens.                                 *)
LEMMA InitOwned ==
  ASSUME Init
  PROVE  Registered /\ Owned /\ MapExact /\ AnswerToOwner
BY DEF Init, Registered, Owned, MapExact, EntriesAwaited, AwaitedEntered, IdsDistinct, AnswerToOwner

(* Registered and Owned hold throughout, for sessions added in time.        *)
LEMMA SessionsOwned ==
  ASSUME ~LateJoin
  PROVE  Spec => [](Registered /\ Owned)
<1>1. Init => Registered /\ Owned
  BY InitOwned
<1>2. IndInv /\ Registered /\ Owned /\ [Next]_vars => Registered' /\ Owned'
  BY RegisteredStep, OwnedStep DEF IndInv
<1> QED
  BY <1>1, <1>2, Inductive, PTL DEF Spec

(* For sessions added before the first poll(), and as long as no request is *)
(* forwarded under an id another channel waits under: the transaction map   *)
(* holds exactly the requests in flight of live sessions, whatever way      *)
(* requests and sessions end.                                               *)
THEOREM MapKept ==
  ASSUME ~LateJoin
  PROVE  Spec /\ [][IdFree]_vars => []TxnMapExact
<1>1. Init => MapExact
  BY InitOwned
<1>2. IndInv /\ Registered /\ MapExact /\ [Next]_vars /\ [IdFree]_vars => MapExact'
  <2>1. CASE UNCHANGED vars
    BY <2>1, SameExact DEF vars, downVars
  <2>2. CASE IdFree
    BY <2>2, MapStep DEF IndInv
  <2> QED
    BY <2>1, <2>2
<1>3. MapExact => TxnMapExact
  BY MapIsExact
<1> QED
  BY <1>1, <1>2, <1>3, Inductive, SessionsOwned, PTL DEF Spec

(* Under the same conditions an answer goes to the client that asked, under *)
(* the transaction id it used, although clients use the same ids and come   *)
(* and go while their requests are queued or in flight.                     *)
THEOREM OwnersAnswered ==
  ASSUME ~LateJoin
  PROVE  Spec /\ [][IdFree]_vars => []AnswerToOwner
<1>1. Init => MapExact /\ AnswerToOwner
  BY InitOwned
<1>2. IndInv /\ Registered /\ Owned /\ MapExact /\ AnswerToOwner /\ [Next]_vars /\ [IdFree]_vars
      => MapExact' /\ AnswerToOwner'
  <2>1. CASE UNCHANGED vars
    BY <2>1, SameExact DEF vars, downVars, askVars, AnswerToOwner
  <2>2. CASE IdFree
    BY <2>2, MapStep, AnswerStep DEF IndInv
  <2> QED
    BY <2>1, <2>2
<1> QED
  BY <1>1, <1>2, Inductive, SessionsOwned, PTL DEF Spec

(* With one downstream channel both hold without a condition on ids.        *)
THEOREM OneChannelExact ==
  ASSUME ~LateJoin, NDown = 1
  PROVE  Spec => [](TxnMapExact /\ AnswerToOwner)
<1>1. \A c, d \in Channels : c = d
  BY DEF Channels
<1>2. [Next]_vars => [IdFree]_vars
  BY <1>1 DEF IdFree
<1> QED
  BY <1>2, MapKept, OwnersAnswered, PTL DEF Spec

=============================================================================
