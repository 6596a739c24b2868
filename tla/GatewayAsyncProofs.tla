------------------------- MODULE GatewayAsyncProofs -------------------------
(***************************************************************************)
(* Proofs about GatewayAsync, for any number of sessions, channels,        *)
(* requests and permits: the sessions hold the mutexes and permits they    *)
(* share exactly while they need them, and a client gets the response to   *)
(* its own request unless a round trip on its channel was given up before. *)
(*                                                                         *)
(* The inductive invariant IndInv adds to these two what a session knows   *)
(* about its own request (Routed), and where the responses on their way    *)
(* belong (OwnTraffic). One lemma per conjunct shows that no step breaks   *)
(* it.                                                                     *)
(***************************************************************************)
EXTENDS GatewayAsync, FiniteSetTheorems, SequenceTheorems, TLAPS

(* A request in hand has been read, and a session that has passed           *)
(* router.route() keeps a request with a channel.                           *)
Routed ==
  /\ \A s \in Sessions : msg[s] # None => msg[s] \in read
  /\ \A s \in Sessions :
       pc[s] \in Holding \cup {"lock", "reply", "returned"} => ChannelOf(s) \in Channels

(* A round trip on channel d was given up before the device had answered.   *)
Late(d) == \E q \in expired : Route[q.unit] = d

(* A session at the time-out path has recorded that it gave up.             *)
GivenUp == \A s \in Sessions : pc[s] \in {"timed_out", "except"} => msg[s] \in expired

(* What a device still has to answer is the request of the session that     *)
(* holds its channel and waits, or the channel is late.                     *)
WireOwn ==
  \A d \in Channels : \A q \in wire[d] :
    Late(d) \/ \E s \in Sessions : ds[d] = s /\ pc[s] = "await" /\ msg[s] = q

(* A response in hand answers the request in hand, or the channel is late.  *)
GotOwn == \A s \in Sessions : got[s] # None => got[s] = msg[s] \/ Late(ChannelOf(s))

(* Where the traffic of a channel belongs.                                  *)
OwnTraffic == GivenUp /\ WireOwn /\ GotOwn

(* The inductive invariant.                                                 *)
IndInv == TypeOK /\ Routed /\ SharedHeldExactly /\ OwnTraffic /\ AnswerIsOwn

-----------------------------------------------------------------------------
(* What the helpers of the actions do to the variables they change.         *)

(* Answer appends one frame to the answers of the request in hand.          *)
LEMMA AnswerType ==
  ASSUME TypeOK, NEW s \in Sessions, msg[s] \in Requests,
         NEW what \in Requests \cup {Exception}, Answer(s, what)
  PROVE  answers' \in [Requests -> Seq(Requests \cup {Exception})]
<1>1. answers[msg[s]] \in Seq(Requests \cup {Exception})
  BY DEF TypeOK
<1>2. Append(answers[msg[s]], what) \in Seq(Requests \cup {Exception})
  BY <1>1, AppendProperties
<1> QED
  BY <1>2 DEF Answer, TypeOK

(* Continue leaves the session without a request and without a response.    *)
LEMMA ContinueType ==
  ASSUME TypeOK, NEW s \in Sessions, Continue(s)
  PROVE  /\ pc' \in [Sessions -> {"closed", "handshake", "recv", "route", "refuse", "lock", "send",
                 "await", "timed_out", "except", "reply", "returned", "closing", "ended"}]
         /\ msg' \in [Sessions -> Requests \cup {None}]
         /\ got' \in [Sessions -> Requests \cup {None}]
         /\ \A t \in Sessions :
              /\ msg'[t] = None <=> pc'[t] \in {"closed", "handshake", "recv", "closing", "ended"}
              /\ got'[t] # None <=> pc'[t] \in {"reply", "returned"}
BY DEF Continue, Goto, TypeOK

(* A failed round trip only concerns the request in hand, which has been    *)
(* read.                                                                    *)
LEMMA MayBeOnWireType ==
  ASSUME TypeOK, Routed, NEW s \in Sessions, msg[s] # None, ChannelOf(s) \in Channels, MayBeOnWire(s)
  PROVE  /\ wire' \in [Channels -> SUBSET Requests]
         /\ expired' = expired \cup {msg[s]}
         /\ expired' \subseteq read
BY DEF MayBeOnWire, TypeOK, Routed

(* Unlock keeps the owners of the channels sessions.                        *)
LEMMA UnlockType ==
  ASSUME TypeOK, NEW s \in Sessions, Unlock(s)
  PROVE  ds' \in [Channels -> Sessions \cup {None}]
BY DEF Unlock, TypeOK

(* No step breaks the type invariant.                                       *)
LEMMA TypeStep ==
  ASSUME TypeOK, Routed, [Next]_vars
  PROVE  TypeOK'
<1> USE RequestsAssumption, SessionsAssumption, NoneAssumption DEF At, Goto, TypeOK, Routed,
        Holding
<1>1. CASE Shutdown
  BY <1>1 DEF Shutdown, sessionVars
<1>2. ASSUME NEW s \in Sessions, Accept(s) PROVE TypeOK'
  BY <1>2 DEF Accept
<1>3. ASSUME NEW s \in Sessions, AcceptWs(s) PROVE TypeOK'
  BY <1>3 DEF AcceptWs
<1>4. ASSUME NEW s \in Sessions, RejectWs(s) PROVE TypeOK'
  BY <1>4 DEF RejectWs
<1>5. ASSUME NEW s \in Sessions, Handshake(s) PROVE TypeOK'
  BY <1>5 DEF Handshake, PermitDropped
<1>6. ASSUME NEW s \in Sessions, RawShutdown(s) PROVE TypeOK'
  <2>1. wire' \in [Channels -> SUBSET Requests] /\ expired' \subseteq read
    <3>1. CASE pc[s] \in {"send", "await"}
      BY <1>6, <3>1, MayBeOnWireType DEF RawShutdown
    <3>2. CASE pc[s] \notin {"send", "await"}
      BY <1>6, <3>2 DEF RawShutdown
    <3> QED
      BY <3>1, <3>2
  <2>2. ds' \in [Channels -> Sessions \cup {None}] /\ handler' \in Sessions \cup {None}
    BY <1>6 DEF RawShutdown
  <2> QED
    BY <1>6, <2>1, <2>2 DEF RawShutdown
<1>7. ASSUME NEW s \in Sessions, SerialReturns(s) PROVE TypeOK'
  BY <1>7 DEF SerialReturns
<1>8. ASSUME NEW s \in Sessions, RecvFails(s) PROVE TypeOK'
  BY <1>8 DEF RecvFails
<1>9. ASSUME NEW s \in Sessions, NEW r \in Requests, Recv(s, r) PROVE TypeOK'
  BY <1>9 DEF Recv
<1>10. ASSUME NEW s \in Sessions, RouteFound(s) PROVE TypeOK'
  BY <1>10 DEF RouteFound, HandlerFree
<1>11. ASSUME NEW s \in Sessions, RouteMiss(s) PROVE TypeOK'
  BY <1>11 DEF RouteMiss, HandlerFree
<1>12. ASSUME NEW s \in Sessions, LockDownstream(s) PROVE TypeOK'
  BY <1>12 DEF LockDownstream
<1>13. ASSUME NEW s \in Sessions, OnDownstreamTimeout(s) PROVE TypeOK'
  BY <1>13 DEF OnDownstreamTimeout, HandlerFree
<1>14. ASSUME NEW s \in Sessions, OnResponseReturned(s) PROVE TypeOK'
  BY <1>14 DEF OnResponseReturned, HandlerFree, Continue
<1>15. ASSUME NEW s \in Sessions, OnUpstreamDisconnect(s) PROVE TypeOK'
  BY <1>15 DEF OnUpstreamDisconnect, PermitDropped, HandlerFree
<1>16. ASSUME NEW s \in Sessions, Refuse(s) PROVE TypeOK'
  <2>1. msg[s] \in Requests
    BY <1>16 DEF Refuse
  <2>2. answers' \in [Requests -> Seq(Requests \cup {Exception})]
    BY <1>16, <2>1, AnswerType DEF Refuse
  <2> QED
    BY <1>16, <2>2, ContinueType DEF Refuse
<1>17. ASSUME NEW s \in Sessions, EncodeFails(s) PROVE TypeOK'
  BY <1>17 DEF EncodeFails, Continue
<1>18. ASSUME NEW s \in Sessions, DownstreamSend(s) PROVE TypeOK'
  BY <1>18 DEF DownstreamSend, KeepLock
<1>19. ASSUME NEW s \in Sessions, DownstreamSendFails(s) PROVE TypeOK'
  BY <1>19, ContinueType, MayBeOnWireType, UnlockType DEF DownstreamSendFails
<1>20. ASSUME NEW s \in Sessions, NEW r \in Requests, DownstreamRecv(s, r) PROVE TypeOK'
  <2>1. wire' \in [Channels -> SUBSET Requests]
    BY <1>20 DEF DownstreamRecv
  <2>2. CASE Continue(s)
    BY <1>20, <2>1, <2>2, ContinueType, UnlockType DEF DownstreamRecv
  <2>3. CASE Goto(s, "reply") /\ got' = [got EXCEPT ![s] = r] /\ UNCHANGED msg
    BY <1>20, <2>1, <2>3, UnlockType DEF DownstreamRecv
  <2> QED
    BY <1>20, <2>2, <2>3 DEF DownstreamRecv
<1>21. ASSUME NEW s \in Sessions, DownstreamRecvFails(s) PROVE TypeOK'
  BY <1>21, ContinueType, MayBeOnWireType, UnlockType DEF DownstreamRecvFails
<1>22. ASSUME NEW s \in Sessions, DownstreamTimeout(s) PROVE TypeOK'
  BY <1>22 DEF DownstreamTimeout
<1>23. ASSUME NEW s \in Sessions, SendTimeoutException(s) PROVE TypeOK'
  <2>1. msg[s] \in Requests
    BY <1>23 DEF SendTimeoutException
  <2>2. answers' \in [Requests -> Seq(Requests \cup {Exception})]
    BY <1>23, <2>1, AnswerType DEF SendTimeoutException
  <2> QED
    BY <1>23, <2>2, ContinueType, UnlockType DEF SendTimeoutException
<1>24. ASSUME NEW s \in Sessions, SendUpstream(s) PROVE TypeOK'
  <2>1. msg[s] \in Requests /\ got[s] \in Requests
    BY <1>24 DEF SendUpstream
  <2>2. answers' \in [Requests -> Seq(Requests \cup {Exception})]
    BY <1>24, <2>1, AnswerType DEF SendUpstream
  <2> QED
    BY <1>24, <2>2 DEF SendUpstream
<1>25. ASSUME NEW s \in Sessions, SendUpstreamFails(s) PROVE TypeOK'
  BY <1>25 DEF SendUpstreamFails
<1>26. CASE UNCHANGED vars
  BY <1>26 DEF vars, sessionVars
<1> QED
  BY <1>1, <1>2, <1>3, <1>4, <1>5, <1>6, <1>7, <1>8, <1>9, <1>10, <1>11, <1>12, <1>13, <1>14,
     <1>15, <1>16, <1>17, <1>18, <1>19, <1>20, <1>21, <1>22, <1>23, <1>24, <1>25, <1>26 DEF
     Next, Acquire, AwaitDevice, AwaitSend

(* Only RouteFound passes a session on to the round trip, and a session     *)
(* drops its request when it leaves it.                                     *)
LEMMA RoutedStep ==
  ASSUME TypeOK, Routed, [Next]_vars
  PROVE  Routed'
<1> USE RequestsAssumption, SessionsAssumption, NoneAssumption DEF At, Goto, TypeOK, Routed,
        Holding, ChannelOf
<1>1. CASE Shutdown
  BY <1>1 DEF Shutdown, sessionVars
<1>2. ASSUME NEW s \in Sessions, Accept(s) PROVE Routed'
  BY <1>2 DEF Accept
<1>3. ASSUME NEW s \in Sessions, AcceptWs(s) PROVE Routed'
  BY <1>3 DEF AcceptWs
<1>4. ASSUME NEW s \in Sessions, RejectWs(s) PROVE Routed'
  BY <1>4 DEF RejectWs
<1>5. ASSUME NEW s \in Sessions, Handshake(s) PROVE Routed'
  BY <1>5 DEF Handshake, PermitDropped
<1>6. ASSUME NEW s \in Sessions, RawShutdown(s) PROVE Routed'
  BY <1>6 DEF RawShutdown, MayBeOnWire
<1>7. ASSUME NEW s \in Sessions, SerialReturns(s) PROVE Routed'
  BY <1>7 DEF SerialReturns
<1>8. ASSUME NEW s \in Sessions, RecvFails(s) PROVE Routed'
  BY <1>8 DEF RecvFails
<1>9. ASSUME NEW s \in Sessions, NEW r \in Requests, Recv(s, r) PROVE Routed'
  BY <1>9 DEF Recv
<1>10. ASSUME NEW s \in Sessions, RouteFound(s) PROVE Routed'
  BY <1>10 DEF RouteFound, HandlerFree
<1>11. ASSUME NEW s \in Sessions, RouteMiss(s) PROVE Routed'
  BY <1>11 DEF RouteMiss, HandlerFree
<1>12. ASSUME NEW s \in Sessions, LockDownstream(s) PROVE Routed'
  BY <1>12 DEF LockDownstream
<1>13. ASSUME NEW s \in Sessions, OnDownstreamTimeout(s) PROVE Routed'
  BY <1>13 DEF OnDownstreamTimeout, HandlerFree
<1>14. ASSUME NEW s \in Sessions, OnResponseReturned(s) PROVE Routed'
  BY <1>14 DEF OnResponseReturned, HandlerFree, Continue
<1>15. ASSUME NEW s \in Sessions, OnUpstreamDisconnect(s) PROVE Routed'
  BY <1>15 DEF OnUpstreamDisconnect, PermitDropped, HandlerFree
<1>16. ASSUME NEW s \in Sessions, Refuse(s) PROVE Routed'
  BY <1>16 DEF Refuse, Answer, Continue
<1>17. ASSUME NEW s \in Sessions, EncodeFails(s) PROVE Routed'
  BY <1>17 DEF EncodeFails, Continue
<1>18. ASSUME NEW s \in Sessions, DownstreamSend(s) PROVE Routed'
  BY <1>18 DEF DownstreamSend, KeepLock
<1>19. ASSUME NEW s \in Sessions, DownstreamSendFails(s) PROVE Routed'
  BY <1>19 DEF DownstreamSendFails, MayBeOnWire, Unlock, Continue
<1>20. ASSUME NEW s \in Sessions, NEW r \in Requests, DownstreamRecv(s, r) PROVE Routed'
  <2>1. CASE Continue(s)
    BY <1>20, <2>1 DEF DownstreamRecv, Continue
  <2>2. CASE Goto(s, "reply") /\ got' = [got EXCEPT ![s] = r] /\ UNCHANGED msg
    BY <1>20, <2>2 DEF DownstreamRecv
  <2> QED
    BY <1>20, <2>1, <2>2 DEF DownstreamRecv
<1>21. ASSUME NEW s \in Sessions, DownstreamRecvFails(s) PROVE Routed'
  BY <1>21 DEF DownstreamRecvFails, MayBeOnWire, Unlock, Continue
<1>22. ASSUME NEW s \in Sessions, DownstreamTimeout(s) PROVE Routed'
  BY <1>22 DEF DownstreamTimeout
<1>23. ASSUME NEW s \in Sessions, SendTimeoutException(s) PROVE Routed'
  BY <1>23 DEF SendTimeoutException, Answer, Unlock, Continue
<1>24. ASSUME NEW s \in Sessions, SendUpstream(s) PROVE Routed'
  BY <1>24 DEF SendUpstream, Answer
<1>25. ASSUME NEW s \in Sessions, SendUpstreamFails(s) PROVE Routed'
  BY <1>25 DEF SendUpstreamFails
<1>26. CASE UNCHANGED vars
  BY <1>26 DEF vars, sessionVars
<1> QED
  BY <1>1, <1>2, <1>3, <1>4, <1>5, <1>6, <1>7, <1>8, <1>9, <1>10, <1>11, <1>12, <1>13, <1>14,
     <1>15, <1>16, <1>17, <1>18, <1>19, <1>20, <1>21, <1>22, <1>23, <1>24, <1>25, <1>26 DEF
     Next, Acquire, AwaitDevice, AwaitSend

(* accept_async takes a permit only where one is left.                      *)
LEMMA PermitsStep ==
  ASSUME TypeOK, SharedHeldExactly, NEW s \in WsSessions, PermitFree, permits' = permits \cup {s}
  PROVE  MaxSessions > 0 => Cardinality(permits') <= MaxSessions
<1>1. IsFiniteSet(permits)
  BY SessionsAssumption, FS_Subset DEF TypeOK
<1>2. Cardinality(permits \cup {s}) \in {Cardinality(permits), Cardinality(permits) + 1}
  BY <1>1, FS_AddElement
<1>3. Cardinality(permits) \in Nat
  BY <1>1, FS_CardinalityType
<1> QED
  BY <1>2, <1>3, SessionsAssumption DEF PermitFree, SharedHeldExactly

(* A permit that is dropped makes room.                                     *)
LEMMA PermitsDropped ==
  ASSUME TypeOK, SharedHeldExactly, NEW s, PermitDropped(s)
  PROVE  MaxSessions > 0 => Cardinality(permits') <= MaxSessions
<1>1. IsFiniteSet(permits)
  BY SessionsAssumption, FS_Subset DEF TypeOK
<1>2. Cardinality(permits \ {s}) \in {Cardinality(permits), Cardinality(permits) - 1}
  BY <1>1, FS_RemoveElement
<1>3. Cardinality(permits) \in Nat
  BY <1>1, FS_CardinalityType
<1> QED
  BY <1>2, <1>3, SessionsAssumption DEF PermitDropped, SharedHeldExactly

(* No step takes a mutex or a permit without need, or leaves one behind:    *)
(* the early exits (send and receive errors, frames that do not parse, the  *)
(* dropped future of a raw gateway) included.                               *)
LEMMA HeldStep ==
  ASSUME TypeOK, Routed, SharedHeldExactly, [Next]_vars
  PROVE  SharedHeldExactly'
<1> USE RequestsAssumption, SessionsAssumption, NoneAssumption DEF At, Goto, TypeOK, Routed,
        Holding, ChannelOf, SharedHeldExactly
<1>1. CASE Shutdown
  BY <1>1 DEF Shutdown, sessionVars
<1>2. ASSUME NEW s \in Sessions, Accept(s) PROVE SharedHeldExactly'
  BY <1>2 DEF Accept
<1>3. ASSUME NEW s \in Sessions, AcceptWs(s) PROVE SharedHeldExactly'
  <2>1. MaxSessions > 0 => Cardinality(permits') <= MaxSessions
    BY <1>3, PermitsStep DEF AcceptWs
  <2> QED
    BY <1>3, <2>1 DEF AcceptWs
<1>4. ASSUME NEW s \in Sessions, RejectWs(s) PROVE SharedHeldExactly'
  BY <1>4 DEF RejectWs
<1>5. ASSUME NEW s \in Sessions, Handshake(s) PROVE SharedHeldExactly'
  <2>1. CASE Goto(s, "recv") /\ UNCHANGED permits
    BY <1>5, <2>1 DEF Handshake
  <2>2. CASE Goto(s, "ended") /\ PermitDropped(s)
    <3>1. MaxSessions > 0 => Cardinality(permits') <= MaxSessions
      BY <2>2, PermitsDropped
    <3> QED
      BY <1>5, <2>2, <3>1 DEF Handshake, PermitDropped
  <2> QED
    BY <1>5, <2>1, <2>2 DEF Handshake
<1>6. ASSUME NEW s \in Sessions, RawShutdown(s) PROVE SharedHeldExactly'
  BY <1>6 DEF RawShutdown, MayBeOnWire
<1>7. ASSUME NEW s \in Sessions, SerialReturns(s) PROVE SharedHeldExactly'
  BY <1>7 DEF SerialReturns
<1>8. ASSUME NEW s \in Sessions, RecvFails(s) PROVE SharedHeldExactly'
  BY <1>8 DEF RecvFails
<1>9. ASSUME NEW s \in Sessions, NEW r \in Requests, Recv(s, r) PROVE SharedHeldExactly'
  BY <1>9 DEF Recv
<1>10. ASSUME NEW s \in Sessions, RouteFound(s) PROVE SharedHeldExactly'
  BY <1>10 DEF RouteFound, HandlerFree
<1>11. ASSUME NEW s \in Sessions, RouteMiss(s) PROVE SharedHeldExactly'
  BY <1>11 DEF RouteMiss, HandlerFree
<1>12. ASSUME NEW s \in Sessions, LockDownstream(s) PROVE SharedHeldExactly'
  BY <1>12 DEF LockDownstream
<1>13. ASSUME NEW s \in Sessions, OnDownstreamTimeout(s) PROVE SharedHeldExactly'
  BY <1>13 DEF OnDownstreamTimeout, HandlerFree
<1>14. ASSUME NEW s \in Sessions, OnResponseReturned(s) PROVE SharedHeldExactly'
  BY <1>14 DEF OnResponseReturned, HandlerFree, Continue
<1>15. ASSUME NEW s \in Sessions, OnUpstreamDisconnect(s) PROVE SharedHeldExactly'
  <2>1. MaxSessions > 0 => Cardinality(permits') <= MaxSessions
    BY <1>15, PermitsDropped DEF OnUpstreamDisconnect
  <2> QED
    BY <1>15, <2>1 DEF OnUpstreamDisconnect, PermitDropped
<1>16. ASSUME NEW s \in Sessions, Refuse(s) PROVE SharedHeldExactly'
  BY <1>16 DEF Refuse, Answer, Continue
<1>17. ASSUME NEW s \in Sessions, EncodeFails(s) PROVE SharedHeldExactly'
  BY <1>17 DEF EncodeFails, Continue
<1>18. ASSUME NEW s \in Sessions, DownstreamSend(s) PROVE SharedHeldExactly'
  BY <1>18 DEF DownstreamSend, KeepLock
<1>19. ASSUME NEW s \in Sessions, DownstreamSendFails(s) PROVE SharedHeldExactly'
  BY <1>19 DEF DownstreamSendFails, MayBeOnWire, Unlock, Continue
<1>20. ASSUME NEW s \in Sessions, NEW r \in Requests, DownstreamRecv(s, r) PROVE SharedHeldExactly'
  <2>1. CASE Continue(s)
    BY <1>20, <2>1 DEF DownstreamRecv, Unlock, Continue
  <2>2. CASE Goto(s, "reply") /\ got' = [got EXCEPT ![s] = r] /\ UNCHANGED msg
    BY <1>20, <2>2 DEF DownstreamRecv, Unlock
  <2> QED
    BY <1>20, <2>1, <2>2 DEF DownstreamRecv
<1>21. ASSUME NEW s \in Sessions, DownstreamRecvFails(s) PROVE SharedHeldExactly'
  BY <1>21 DEF DownstreamRecvFails, MayBeOnWire, Unlock, Continue
<1>22. ASSUME NEW s \in Sessions, DownstreamTimeout(s) PROVE SharedHeldExactly'
  BY <1>22 DEF DownstreamTimeout
<1>23. ASSUME NEW s \in Sessions, SendTimeoutException(s) PROVE SharedHeldExactly'
  BY <1>23 DEF SendTimeoutException, Answer, Unlock, Continue
<1>24. ASSUME NEW s \in Sessions, SendUpstream(s) PROVE SharedHeldExactly'
  BY <1>24 DEF SendUpstream, Answer
<1>25. ASSUME NEW s \in Sessions, SendUpstreamFails(s) PROVE SharedHeldExactly'
  BY <1>25 DEF SendUpstreamFails
<1>26. CASE UNCHANGED vars
  BY <1>26 DEF vars, sessionVars
<1> QED
  BY <1>1, <1>2, <1>3, <1>4, <1>5, <1>6, <1>7, <1>8, <1>9, <1>10, <1>11, <1>12, <1>13, <1>14,
     <1>15, <1>16, <1>17, <1>18, <1>19, <1>20, <1>21, <1>22, <1>23, <1>24, <1>25, <1>26 DEF
     Next, Acquire, AwaitDevice, AwaitSend

(* DownstreamTimeout records the request, and nothing is taken from the     *)
(* record.                                                                  *)
LEMMA GivenUpStep ==
  ASSUME TypeOK, Routed, SharedHeldExactly, OwnTraffic, [Next]_vars
  PROVE  GivenUp'
<1> USE RequestsAssumption, SessionsAssumption, NoneAssumption DEF At, Goto, TypeOK, Routed,
        Holding, ChannelOf, SharedHeldExactly, OwnTraffic, GivenUp, WireOwn, GotOwn, Late
<1>1. CASE Shutdown
  BY <1>1 DEF Shutdown, sessionVars
<1>2. ASSUME NEW s \in Sessions, Accept(s) PROVE GivenUp'
  BY <1>2 DEF Accept
<1>3. ASSUME NEW s \in Sessions, AcceptWs(s) PROVE GivenUp'
  BY <1>3 DEF AcceptWs
<1>4. ASSUME NEW s \in Sessions, RejectWs(s) PROVE GivenUp'
  BY <1>4 DEF RejectWs
<1>5. ASSUME NEW s \in Sessions, Handshake(s) PROVE GivenUp'
  BY <1>5 DEF Handshake, PermitDropped
<1>6. ASSUME NEW s \in Sessions, RawShutdown(s) PROVE GivenUp'
  BY <1>6 DEF RawShutdown, MayBeOnWire
<1>7. ASSUME NEW s \in Sessions, SerialReturns(s) PROVE GivenUp'
  BY <1>7 DEF SerialReturns
<1>8. ASSUME NEW s \in Sessions, RecvFails(s) PROVE GivenUp'
  BY <1>8 DEF RecvFails
<1>9. ASSUME NEW s \in Sessions, NEW r \in Requests, Recv(s, r) PROVE GivenUp'
  BY <1>9 DEF Recv
<1>10. ASSUME NEW s \in Sessions, RouteFound(s) PROVE GivenUp'
  BY <1>10 DEF RouteFound, HandlerFree
<1>11. ASSUME NEW s \in Sessions, RouteMiss(s) PROVE GivenUp'
  BY <1>11 DEF RouteMiss, HandlerFree
<1>12. ASSUME NEW s \in Sessions, LockDownstream(s) PROVE GivenUp'
  BY <1>12 DEF LockDownstream
<1>13. ASSUME NEW s \in Sessions, OnDownstreamTimeout(s) PROVE GivenUp'
  BY <1>13 DEF OnDownstreamTimeout, HandlerFree
<1>14. ASSUME NEW s \in Sessions, OnResponseReturned(s) PROVE GivenUp'
  BY <1>14 DEF OnResponseReturned, HandlerFree, Continue
<1>15. ASSUME NEW s \in Sessions, OnUpstreamDisconnect(s) PROVE GivenUp'
  BY <1>15 DEF OnUpstreamDisconnect, PermitDropped, HandlerFree
<1>16. ASSUME NEW s \in Sessions, Refuse(s) PROVE GivenUp'
  BY <1>16 DEF Refuse, Answer, Continue
<1>17. ASSUME NEW s \in Sessions, EncodeFails(s) PROVE GivenUp'
  BY <1>17 DEF EncodeFails, Continue
<1>18. ASSUME NEW s \in Sessions, DownstreamSend(s) PROVE GivenUp'
  BY <1>18 DEF DownstreamSend, KeepLock
<1>19. ASSUME NEW s \in Sessions, DownstreamSendFails(s) PROVE GivenUp'
  BY <1>19 DEF DownstreamSendFails, MayBeOnWire, Unlock, Continue
<1>20. ASSUME NEW s \in Sessions, NEW r \in Requests, DownstreamRecv(s, r) PROVE GivenUp'
  BY <1>20 DEF DownstreamRecv, Unlock, Continue
<1>21. ASSUME NEW s \in Sessions, DownstreamRecvFails(s) PROVE GivenUp'
  BY <1>21 DEF DownstreamRecvFails, MayBeOnWire, Unlock, Continue
<1>22. ASSUME NEW s \in Sessions, DownstreamTimeout(s) PROVE GivenUp'
  BY <1>22 DEF DownstreamTimeout
<1>23. ASSUME NEW s \in Sessions, SendTimeoutException(s) PROVE GivenUp'
  BY <1>23 DEF SendTimeoutException, Answer, Unlock, Continue
<1>24. ASSUME NEW s \in Sessions, SendUpstream(s) PROVE GivenUp'
  BY <1>24 DEF SendUpstream, Answer
<1>25. ASSUME NEW s \in Sessions, SendUpstreamFails(s) PROVE GivenUp'
  BY <1>25 DEF SendUpstreamFails
<1>26. CASE UNCHANGED vars
  BY <1>26 DEF vars, sessionVars
<1> QED
  BY <1>1, <1>2, <1>3, <1>4, <1>5, <1>6, <1>7, <1>8, <1>9, <1>10, <1>11, <1>12, <1>13, <1>14,
     <1>15, <1>16, <1>17, <1>18, <1>19, <1>20, <1>21, <1>22, <1>23, <1>24, <1>25, <1>26 DEF
     Next, Acquire, AwaitDevice, AwaitSend

(* A request goes to the device only under the channel's mutex, and whoever *)
(* gives the mutex back with the request unanswered marks the channel as    *)
(* late.                                                                    *)
LEMMA WireOwnStep ==
  ASSUME TypeOK, Routed, SharedHeldExactly, OwnTraffic, [Next]_vars
  PROVE  WireOwn'
<1> USE RequestsAssumption, SessionsAssumption, NoneAssumption DEF At, Goto, TypeOK, Routed,
        Holding, ChannelOf, SharedHeldExactly, OwnTraffic, GivenUp, WireOwn, GotOwn, Late
<1>1. CASE Shutdown
  BY <1>1 DEF Shutdown, sessionVars
<1>2. ASSUME NEW s \in Sessions, Accept(s) PROVE WireOwn'
  BY <1>2 DEF Accept
<1>3. ASSUME NEW s \in Sessions, AcceptWs(s) PROVE WireOwn'
  BY <1>3 DEF AcceptWs
<1>4. ASSUME NEW s \in Sessions, RejectWs(s) PROVE WireOwn'
  BY <1>4 DEF RejectWs
<1>5. ASSUME NEW s \in Sessions, Handshake(s) PROVE WireOwn'
  BY <1>5 DEF Handshake, PermitDropped
<1>6. ASSUME NEW s \in Sessions, RawShutdown(s) PROVE WireOwn'
  BY <1>6 DEF RawShutdown, MayBeOnWire
<1>7. ASSUME NEW s \in Sessions, SerialReturns(s) PROVE WireOwn'
  BY <1>7 DEF SerialReturns
<1>8. ASSUME NEW s \in Sessions, RecvFails(s) PROVE WireOwn'
  BY <1>8 DEF RecvFails
<1>9. ASSUME NEW s \in Sessions, NEW r \in Requests, Recv(s, r) PROVE WireOwn'
  BY <1>9 DEF Recv
<1>10. ASSUME NEW s \in Sessions, RouteFound(s) PROVE WireOwn'
  BY <1>10 DEF RouteFound, HandlerFree
<1>11. ASSUME NEW s \in Sessions, RouteMiss(s) PROVE WireOwn'
  BY <1>11 DEF RouteMiss, HandlerFree
<1>12. ASSUME NEW s \in Sessions, LockDownstream(s) PROVE WireOwn'
  BY <1>12 DEF LockDownstream
<1>13. ASSUME NEW s \in Sessions, OnDownstreamTimeout(s) PROVE WireOwn'
  BY <1>13 DEF OnDownstreamTimeout, HandlerFree
<1>14. ASSUME NEW s \in Sessions, OnResponseReturned(s) PROVE WireOwn'
  BY <1>14 DEF OnResponseReturned, HandlerFree, Continue
<1>15. ASSUME NEW s \in Sessions, OnUpstreamDisconnect(s) PROVE WireOwn'
  BY <1>15 DEF OnUpstreamDisconnect, PermitDropped, HandlerFree
<1>16. ASSUME NEW s \in Sessions, Refuse(s) PROVE WireOwn'
  BY <1>16 DEF Refuse, Answer, Continue
<1>17. ASSUME NEW s \in Sessions, EncodeFails(s) PROVE WireOwn'
  BY <1>17 DEF EncodeFails, Continue
<1>18. ASSUME NEW s \in Sessions, DownstreamSend(s) PROVE WireOwn'
  BY <1>18 DEF DownstreamSend, KeepLock
<1>19. ASSUME NEW s \in Sessions, DownstreamSendFails(s) PROVE WireOwn'
  BY <1>19 DEF DownstreamSendFails, MayBeOnWire, Unlock, Continue
<1>20. ASSUME NEW s \in Sessions, NEW r \in Requests, DownstreamRecv(s, r) PROVE WireOwn'
  BY <1>20 DEF DownstreamRecv, Unlock, Continue
<1>21. ASSUME NEW s \in Sessions, DownstreamRecvFails(s) PROVE WireOwn'
  BY <1>21 DEF DownstreamRecvFails, MayBeOnWire, Unlock, Continue
<1>22. ASSUME NEW s \in Sessions, DownstreamTimeout(s) PROVE WireOwn'
  BY <1>22 DEF DownstreamTimeout
<1>23. ASSUME NEW s \in Sessions, SendTimeoutException(s) PROVE WireOwn'
  BY <1>23 DEF SendTimeoutException, Answer, Unlock, Continue
<1>24. ASSUME NEW s \in Sessions, SendUpstream(s) PROVE WireOwn'
  BY <1>24 DEF SendUpstream, Answer
<1>25. ASSUME NEW s \in Sessions, SendUpstreamFails(s) PROVE WireOwn'
  BY <1>25 DEF SendUpstreamFails
<1>26. CASE UNCHANGED vars
  BY <1>26 DEF vars, sessionVars
<1> QED
  BY <1>1, <1>2, <1>3, <1>4, <1>5, <1>6, <1>7, <1>8, <1>9, <1>10, <1>11, <1>12, <1>13, <1>14,
     <1>15, <1>16, <1>17, <1>18, <1>19, <1>20, <1>21, <1>22, <1>23, <1>24, <1>25, <1>26 DEF
     Next, Acquire, AwaitDevice, AwaitSend

(* recv returns a response of the channel that the session holds, hence its *)
(* own unless the channel is late.                                          *)
LEMMA GotOwnStep ==
  ASSUME TypeOK, Routed, SharedHeldExactly, OwnTraffic, [Next]_vars
  PROVE  GotOwn'
<1> USE RequestsAssumption, SessionsAssumption, NoneAssumption DEF At, Goto, TypeOK, Routed,
        Holding, ChannelOf, SharedHeldExactly, OwnTraffic, GivenUp, WireOwn, GotOwn, Late
<1>1. CASE Shutdown
  BY <1>1 DEF Shutdown, sessionVars
<1>2. ASSUME NEW s \in Sessions, Accept(s) PROVE GotOwn'
  BY <1>2 DEF Accept
<1>3. ASSUME NEW s \in Sessions, AcceptWs(s) PROVE GotOwn'
  BY <1>3 DEF AcceptWs
<1>4. ASSUME NEW s \in Sessions, RejectWs(s) PROVE GotOwn'
  BY <1>4 DEF RejectWs
<1>5. ASSUME NEW s \in Sessions, Handshake(s) PROVE GotOwn'
  BY <1>5 DEF Handshake, PermitDropped
<1>6. ASSUME NEW s \in Sessions, RawShutdown(s) PROVE GotOwn'
  BY <1>6 DEF RawShutdown, MayBeOnWire
<1>7. ASSUME NEW s \in Sessions, SerialReturns(s) PROVE GotOwn'
  BY <1>7 DEF SerialReturns
<1>8. ASSUME NEW s \in Sessions, RecvFails(s) PROVE GotOwn'
  BY <1>8 DEF RecvFails
<1>9. ASSUME NEW s \in Sessions, NEW r \in Requests, Recv(s, r) PROVE GotOwn'
  <2>1. got[s] = None /\ got' = got /\ expired' = expired
    BY <1>9 DEF Recv
  <2>2. \A t \in Sessions \ {s} : msg'[t] = msg[t]
    BY <1>9 DEF Recv
  <2>3. ASSUME NEW t \in Sessions, got'[t] # None PROVE got'[t] = msg'[t] \/ Late(ChannelOf(t))'
    <3>1. t # s
      BY <2>1, <2>3
    <3>2. got[t] = msg[t] \/ Late(ChannelOf(t))
      BY <2>1, <2>3
    <3> QED
      BY <2>1, <2>2, <3>1, <3>2
  <2> QED
    BY <2>3
<1>10. ASSUME NEW s \in Sessions, RouteFound(s) PROVE GotOwn'
  BY <1>10 DEF RouteFound, HandlerFree
<1>11. ASSUME NEW s \in Sessions, RouteMiss(s) PROVE GotOwn'
  BY <1>11 DEF RouteMiss, HandlerFree
<1>12. ASSUME NEW s \in Sessions, LockDownstream(s) PROVE GotOwn'
  BY <1>12 DEF LockDownstream
<1>13. ASSUME NEW s \in Sessions, OnDownstreamTimeout(s) PROVE GotOwn'
  BY <1>13 DEF OnDownstreamTimeout, HandlerFree
<1>14. ASSUME NEW s \in Sessions, OnResponseReturned(s) PROVE GotOwn'
  BY <1>14 DEF OnResponseReturned, HandlerFree, Continue
<1>15. ASSUME NEW s \in Sessions, OnUpstreamDisconnect(s) PROVE GotOwn'
  BY <1>15 DEF OnUpstreamDisconnect, PermitDropped, HandlerFree
<1>16. ASSUME NEW s \in Sessions, Refuse(s) PROVE GotOwn'
  BY <1>16 DEF Refuse, Answer, Continue
<1>17. ASSUME NEW s \in Sessions, EncodeFails(s) PROVE GotOwn'
  BY <1>17 DEF EncodeFails, Continue
<1>18. ASSUME NEW s \in Sessions, DownstreamSend(s) PROVE GotOwn'
  BY <1>18 DEF DownstreamSend, KeepLock
<1>19. ASSUME NEW s \in Sessions, DownstreamSendFails(s) PROVE GotOwn'
  BY <1>19 DEF DownstreamSendFails, MayBeOnWire, Unlock, Continue
<1>20. ASSUME NEW s \in Sessions, NEW r \in Requests, DownstreamRecv(s, r) PROVE GotOwn'
  <2>1. expired' = expired /\ \A t \in Sessions \ {s} : msg'[t] = msg[t] /\ got'[t] = got[t]
    BY <1>20 DEF DownstreamRecv, Continue
  <2>2. CASE Continue(s)
    BY <2>1, <2>2 DEF Continue
  <2>3. CASE Goto(s, "reply") /\ got' = [got EXCEPT ![s] = r] /\ UNCHANGED msg
    <3>1. r = msg[s] \/ Late(ChannelOf(s))
      BY <1>20 DEF DownstreamRecv
    <3> QED
      BY <2>1, <2>3, <3>1
  <2> QED
    BY <1>20, <2>2, <2>3 DEF DownstreamRecv
<1>21. ASSUME NEW s \in Sessions, DownstreamRecvFails(s) PROVE GotOwn'
  BY <1>21 DEF DownstreamRecvFails, MayBeOnWire, Unlock, Continue
<1>22. ASSUME NEW s \in Sessions, DownstreamTimeout(s) PROVE GotOwn'
  BY <1>22 DEF DownstreamTimeout
<1>23. ASSUME NEW s \in Sessions, SendTimeoutException(s) PROVE GotOwn'
  BY <1>23 DEF SendTimeoutException, Answer, Unlock, Continue
<1>24. ASSUME NEW s \in Sessions, SendUpstream(s) PROVE GotOwn'
  BY <1>24 DEF SendUpstream, Answer
<1>25. ASSUME NEW s \in Sessions, SendUpstreamFails(s) PROVE GotOwn'
  BY <1>25 DEF SendUpstreamFails
<1>26. CASE UNCHANGED vars
  BY <1>26 DEF vars, sessionVars
<1> QED
  BY <1>1, <1>2, <1>3, <1>4, <1>5, <1>6, <1>7, <1>8, <1>9, <1>10, <1>11, <1>12, <1>13, <1>14,
     <1>15, <1>16, <1>17, <1>18, <1>19, <1>20, <1>21, <1>22, <1>23, <1>24, <1>25, <1>26 DEF
     Next, Acquire, AwaitDevice, AwaitSend

(* An answer that is the session's own keeps AnswerIsOwn.                   *)
LEMMA AnswerOwn ==
  ASSUME TypeOK, AnswerIsOwn, NEW s \in Sessions, msg[s] \in Requests, NEW what,
         what \in {msg[s], Exception} \/ Late(ChannelOf(s)),
         what \in Requests \cup {Exception},
         Answer(s, what), expired \subseteq expired'
  PROVE  AnswerIsOwn'
<1> SUFFICES ASSUME NEW r \in Requests, NEW k \in DOMAIN answers'[r]
             PROVE  answers'[r][k] \in {r, Exception} \/ \E q \in expired' : Route[q.unit] = Route[r.unit]
  BY DEF AnswerIsOwn
<1>1. CASE r # msg[s]
  BY <1>1 DEF Answer, TypeOK, AnswerIsOwn
<1>2. CASE r = msg[s]
  <2>1. answers[r] \in Seq(Requests \cup {Exception}) /\ answers'[r] = Append(answers[r], what)
    BY <1>2 DEF Answer, TypeOK
  <2>2. CASE k = Len(answers[r]) + 1
    BY <1>2, <2>1, <2>2, AppendProperties DEF Late, ChannelOf
  <2>3. CASE k # Len(answers[r]) + 1
    <3>1. k \in DOMAIN answers[r] /\ answers'[r][k] = answers[r][k]
      BY <2>1, <2>3, AppendProperties, LenProperties
    <3> QED
      BY <3>1 DEF AnswerIsOwn
  <2> QED
    BY <2>2, <2>3
<1> QED
  BY <1>1, <1>2

(* Every frame sent upstream is an exception, or the response in hand.      *)
LEMMA AnswerStep ==
  ASSUME TypeOK, Routed, SharedHeldExactly, OwnTraffic, AnswerIsOwn, [Next]_vars
  PROVE  AnswerIsOwn'
<1> USE RequestsAssumption, SessionsAssumption, NoneAssumption DEF At, Goto, AnswerIsOwn
<1>1. CASE Shutdown
  BY <1>1 DEF Shutdown, sessionVars
<1>2. ASSUME NEW s \in Sessions, Accept(s) PROVE AnswerIsOwn'
  BY <1>2 DEF Accept
<1>3. ASSUME NEW s \in Sessions, AcceptWs(s) PROVE AnswerIsOwn'
  BY <1>3 DEF AcceptWs
<1>4. ASSUME NEW s \in Sessions, RejectWs(s) PROVE AnswerIsOwn'
  BY <1>4 DEF RejectWs
<1>5. ASSUME NEW s \in Sessions, Handshake(s) PROVE AnswerIsOwn'
  BY <1>5 DEF Handshake, PermitDropped
<1>6. ASSUME NEW s \in Sessions, RawShutdown(s) PROVE AnswerIsOwn'
  BY <1>6 DEF RawShutdown, MayBeOnWire
<1>7. ASSUME NEW s \in Sessions, SerialReturns(s) PROVE AnswerIsOwn'
  BY <1>7 DEF SerialReturns
<1>8. ASSUME NEW s \in Sessions, RecvFails(s) PROVE AnswerIsOwn'
  BY <1>8 DEF RecvFails
<1>9. ASSUME NEW s \in Sessions, NEW r \in Requests, Recv(s, r) PROVE AnswerIsOwn'
  BY <1>9 DEF Recv
<1>10. ASSUME NEW s \in Sessions, RouteFound(s) PROVE AnswerIsOwn'
  BY <1>10 DEF RouteFound, HandlerFree
<1>11. ASSUME NEW s \in Sessions, RouteMiss(s) PROVE AnswerIsOwn'
  BY <1>11 DEF RouteMiss, HandlerFree
<1>12. ASSUME NEW s \in Sessions, LockDownstream(s) PROVE AnswerIsOwn'
  BY <1>12 DEF LockDownstream
<1>13. ASSUME NEW s \in Sessions, OnDownstreamTimeout(s) PROVE AnswerIsOwn'
  BY <1>13 DEF OnDownstreamTimeout, HandlerFree
<1>14. ASSUME NEW s \in Sessions, OnResponseReturned(s) PROVE AnswerIsOwn'
  BY <1>14 DEF OnResponseReturned, HandlerFree, Continue
<1>15. ASSUME NEW s \in Sessions, OnUpstreamDisconnect(s) PROVE AnswerIsOwn'
  BY <1>15 DEF OnUpstreamDisconnect, PermitDropped, HandlerFree
<1>16. ASSUME NEW s \in Sessions, Refuse(s) PROVE AnswerIsOwn'
  <2>1. msg[s] \in Requests /\ expired' = expired
    BY <1>16 DEF Refuse, TypeOK
  <2>2. CASE Answer(s, Exception)
    BY <2>1, <2>2, AnswerOwn
  <2>3. CASE UNCHANGED answers
    BY <2>1, <2>3
  <2> QED
    BY <1>16, <2>2, <2>3 DEF Refuse
<1>17. ASSUME NEW s \in Sessions, EncodeFails(s) PROVE AnswerIsOwn'
  BY <1>17 DEF EncodeFails, Continue
<1>18. ASSUME NEW s \in Sessions, DownstreamSend(s) PROVE AnswerIsOwn'
  BY <1>18 DEF DownstreamSend, KeepLock
<1>19. ASSUME NEW s \in Sessions, DownstreamSendFails(s) PROVE AnswerIsOwn'
  BY <1>19 DEF DownstreamSendFails, MayBeOnWire, Unlock, Continue
<1>20. ASSUME NEW s \in Sessions, NEW r \in Requests, DownstreamRecv(s, r) PROVE AnswerIsOwn'
  BY <1>20 DEF DownstreamRecv, Unlock, Continue
<1>21. ASSUME NEW s \in Sessions, DownstreamRecvFails(s) PROVE AnswerIsOwn'
  BY <1>21 DEF DownstreamRecvFails, MayBeOnWire, Unlock, Continue
<1>22. ASSUME NEW s \in Sessions, DownstreamTimeout(s) PROVE AnswerIsOwn'
  BY <1>22 DEF DownstreamTimeout
<1>23. ASSUME NEW s \in Sessions, SendTimeoutException(s) PROVE AnswerIsOwn'
  <2>1. msg[s] \in Requests /\ expired' = expired
    BY <1>23 DEF SendTimeoutException, TypeOK
  <2>2. CASE Answer(s, Exception)
    BY <2>1, <2>2, AnswerOwn
  <2>3. CASE UNCHANGED answers
    BY <2>1, <2>3
  <2> QED
    BY <1>23, <2>2, <2>3 DEF SendTimeoutException
<1>24. ASSUME NEW s \in Sessions, SendUpstream(s) PROVE AnswerIsOwn'
  <2>1. msg[s] \in Requests /\ got[s] \in Requests /\ expired' = expired
    BY <1>24 DEF SendUpstream, TypeOK
  <2>2. got[s] = msg[s] \/ Late(ChannelOf(s))
    BY <2>1 DEF OwnTraffic, GotOwn
  <2> QED
    BY <1>24, <2>1, <2>2, AnswerOwn DEF SendUpstream
<1>25. ASSUME NEW s \in Sessions, SendUpstreamFails(s) PROVE AnswerIsOwn'
  BY <1>25 DEF SendUpstreamFails
<1>26. CASE UNCHANGED vars
  BY <1>26 DEF vars, sessionVars
<1> QED
  BY <1>1, <1>2, <1>3, <1>4, <1>5, <1>6, <1>7, <1>8, <1>9, <1>10, <1>11, <1>12, <1>13, <1>14,
     <1>15, <1>16, <1>17, <1>18, <1>19, <1>20, <1>21, <1>22, <1>23, <1>24, <1>25, <1>26 DEF
     Next, Acquire, AwaitDevice, AwaitSend

-----------------------------------------------------------------------------
(* The invariant holds before the first connection.                         *)
LEMMA InitInv == Init => IndInv
<1> SUFFICES ASSUME Init PROVE IndInv
  OBVIOUS
<1> USE RequestsAssumption, SessionsAssumption, NoneAssumption DEF Init
<1>1. TypeOK
  BY EmptySeq DEF TypeOK
<1>2. Cardinality(permits) = 0
  BY FS_EmptySet
<1>3. SharedHeldExactly
  BY <1>2 DEF SharedHeldExactly, Holding
<1>4. Routed /\ OwnTraffic
  BY DEF Routed, OwnTraffic, GivenUp, WireOwn, GotOwn, Holding
<1>5. AnswerIsOwn
  BY DEF AnswerIsOwn
<1> QED
  BY <1>1, <1>3, <1>4, <1>5 DEF IndInv

(* The invariant is inductive.                                              *)
LEMMA InductiveInv == IndInv /\ [Next]_vars => IndInv'
BY TypeStep, RoutedStep, HeldStep, GivenUpStep, WireOwnStep, GotOwnStep, AnswerStep
   DEF IndInv, OwnTraffic

(* Every variable keeps its type, and a session has a request, or a         *)
(* response, in hand exactly at the awaits where run_async_session does.    *)
THEOREM TypeCorrect == Spec => []TypeOK
BY InitInv, InductiveInv, PTL DEF Spec, IndInv

(* The channel mutex is held exactly through a round trip, the handler      *)
(* mutex across an await only with the channel's, and permits from          *)
(* acceptance to the end of the task, for every interleaving of any number  *)
(* of sessions.                                                             *)
THEOREM SharedHeld == Spec => []SharedHeldExactly
BY InitInv, InductiveInv, PTL DEF Spec, IndInv

(* What a client gets is the response to its own request, or an exception,  *)
(* unless a round trip on the same channel was given up before: the         *)
(* channel's mutex is all that pairs requests and responses downstream.     *)
THEOREM OwnAnswers == Spec => []AnswerIsOwn
BY InitInv, InductiveInv, PTL DEF Spec, IndInv

=============================================================================
