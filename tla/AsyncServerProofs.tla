------------------------- MODULE AsyncServerProofs -------------------------
(***************************************************************************)
(* Proofs about AsyncServer, for any number of connections and ports, any  *)
(* traffic and any saturation limit of the counters: no write request is   *)
(* lost, and the FC08 counters of a session agree with what became of its  *)
(* frames.                                                                 *)
(*                                                                         *)
(* NoLostWrite needs what the mutex is for (Exclusive): what its holder    *)
(* has read is still there when it writes. CountersExact holds between two *)
(* requests only; CountersAhead says by how much the counters run ahead of *)
(* the frames while a request is in progress, and is inductive.            *)
(***************************************************************************)
EXTENDS AsyncServer, TLAPS

(* The application is held through its handler, and by one session: nobody  *)
(* writes between the read and the write of a request.                      *)
Exclusive ==
  \A s \in Sessions :
    /\ mutex = s <=> pc[s] = "handle"
    /\ pc[s] = "handle" => seen[s] = register

(* The request in progress is one that run() takes to the await the session *)
(* is at.                                                                   *)
InHand ==
  \A s \in Sessions :
    /\ pc[s] \in {"lock", "handle", "settle"} => req[s] # None /\ req[s].op \in {"read", "write", "forward"}
    /\ pc[s] = "settle" => resp[s] \in Responses
    /\ pc[s] = "send" => /\ req[s] # None /\ req[s].op # "damaged"
                         /\ req[s].op = "clear" => resp[s] = "ok"

(* The counters already incremented for the request in progress, which is   *)
(* not counted in fate before it comes to its end; the request that clears  *)
(* the counters is not counted at all.                                      *)
Ahead(s) ==
  IF pc[s] = "recv" \/ req[s].op = "clear" THEN {}
  ELSE {"message"} \cup (IF req[s].op \in {"read", "write", "forward"} THEN {"server_message"} ELSE {})
                   \cup (IF pc[s] = "send" /\ resp[s] = "exception" THEN {"exception_error"} ELSE {})

(* How far counter c of session s is ahead.                                 *)
Plus(s, c) == IF c \in Ahead(s) THEN 1 ELSE 0

(* Frames received since the counters were cleared.                         *)
Total(f) == f["damaged"] + f["foreign"] + f["silent"] + f["answered"] + f["refused"]

(* The counters of s agree with the fate of its frames and the request in   *)
(* progress, up to saturation.                                              *)
Agrees(s) ==
  /\ stats[s]["message"] = Saturate(Total(fate[s]) + Plus(s, "message"))
  /\ stats[s]["comm_error"] = Saturate(fate[s]["damaged"])
  /\ stats[s]["exception_error"] = Saturate(fate[s]["exception"] + Plus(s, "exception_error"))
  /\ stats[s]["server_message"] = Saturate(fate[s]["app"] + Plus(s, "server_message"))
  /\ stats[s]["no_response"] = Saturate(fate[s]["silent"])

(* The counters agree at every await of every session that runs.            *)
CountersAhead == \A s \in Sessions : pc[s] # "ended" => Agrees(s)

(* The inductive invariant.                                                 *)
IndInv == TypeOK /\ Exclusive /\ NoLostWrite /\ InHand /\ CountersAhead

-----------------------------------------------------------------------------

(* Only Lock takes the mutex, and the register only changes under it;       *)
(* Handle and the dropped future of a serial server give it back.           *)
LEMMA ExclusiveStep ==
  ASSUME TypeOK, Exclusive, NoLostWrite, [Next]_vars
  PROVE  Exclusive' /\ NoLostWrite'
<1> USE FramesAssumption, BoundsAssumption, SessionsAssumption, NoneAssumption DEF TypeOK,
        Exclusive, NoLostWrite
<1>1. CASE Shutdown
  BY <1>1 DEF Shutdown, sessionVars, appVars
<1>2. ASSUME NEW s \in Sessions, Accept(s) PROVE Exclusive' /\ NoLostWrite'
  BY <1>2 DEF Accept, appVars
<1>3. ASSUME NEW s \in Sessions, SerialShutdown(s) PROVE Exclusive' /\ NoLostWrite'
  BY <1>3 DEF SerialShutdown, Ends
<1>4. ASSUME NEW s \in Sessions, ReceiveFails(s) PROVE Exclusive' /\ NoLostWrite'
  BY <1>4 DEF ReceiveFails, Ends, appVars
<1>5. ASSUME NEW s \in Sessions, NEW f \in Frames[s], DiscardDamaged(s, f) PROVE Exclusive' /\ NoLostWrite'
  BY <1>5 DEF DiscardDamaged, Arrives, Tally, Counted, appVars
<1>6. ASSUME NEW s \in Sessions, NEW f \in Frames[s], DiscardForeign(s, f) PROVE Exclusive' /\ NoLostWrite'
  BY <1>6 DEF DiscardForeign, Arrives, Tally, Counted, appVars
<1>7. ASSUME NEW s \in Sessions, NEW f \in Frames[s], DiscardInListenOnlyMode(s, f)
      PROVE  Exclusive' /\ NoLostWrite'
  BY <1>7 DEF DiscardInListenOnlyMode, Arrives, Tally, Counted, appVars
<1>8. ASSUME NEW s \in Sessions, NEW f \in Frames[s], ForceListenOnly(s, f) PROVE Exclusive' /\ NoLostWrite'
  BY <1>8 DEF ForceListenOnly, Accepted, Arrives, Tally, Counted, appVars
<1>9. ASSUME NEW s \in Sessions, NEW f \in Frames[s], AnswerFc08(s, f) PROVE Exclusive' /\ NoLostWrite'
  BY <1>9 DEF AnswerFc08, Accepted, Arrives, Tally, GoesTo, appVars
<1>10. ASSUME NEW s \in Sessions, NEW f \in Frames[s], BroadcastDiscarded(s, f)
       PROVE  Exclusive' /\ NoLostWrite'
  BY <1>10 DEF BroadcastDiscarded, Accepted, Arrives, Tally, Counted, appVars
<1>11. ASSUME NEW s \in Sessions, NEW f \in Frames[s], DispatchBroadcast(s, f)
       PROVE  Exclusive' /\ NoLostWrite'
  BY <1>11 DEF DispatchBroadcast, Accepted, Arrives, Tally, GoesTo, appVars
<1>12. ASSUME NEW s \in Sessions, NEW f \in Frames[s], RejectUnknown(s, f) PROVE Exclusive' /\ NoLostWrite'
  BY <1>12 DEF RejectUnknown, Accepted, Arrives, Tally, GoesTo, appVars
<1>13. ASSUME NEW s \in Sessions, NEW f \in Frames[s], Dispatch(s, f) PROVE Exclusive' /\ NoLostWrite'
  BY <1>13 DEF Dispatch, Accepted, Arrives, Tally, GoesTo, appVars
<1>14. ASSUME NEW s \in Sessions, Lock(s) PROVE Exclusive' /\ NoLostWrite'
  BY <1>14 DEF Lock, GoesTo
<1>15. ASSUME NEW s \in Sessions, NEW r \in Responses, Handle(s, r) PROVE Exclusive' /\ NoLostWrite'
  BY <1>15 DEF Handle, GoesTo, Execute
<1>16. ASSUME NEW s \in Sessions, SettleSilently(s) PROVE Exclusive' /\ NoLostWrite'
  BY <1>16 DEF SettleSilently, Continues, Counted, appVars
<1>17. ASSUME NEW s \in Sessions, Settle(s) PROVE Exclusive' /\ NoLostWrite'
  BY <1>17 DEF Settle, GoesTo, appVars
<1>18. ASSUME NEW s \in Sessions, Send(s) PROVE Exclusive' /\ NoLostWrite'
  BY <1>18 DEF Send, Counted, Continues, appVars
<1>19. ASSUME NEW s \in Sessions, SendFails(s) PROVE Exclusive' /\ NoLostWrite'
  BY <1>19 DEF SendFails, Counted, Continues, Ends, appVars
<1>20. CASE UNCHANGED vars
  BY <1>20 DEF vars, sessionVars, appVars
<1> QED
  BY <1>1, <1>2, <1>3, <1>4, <1>5, <1>6, <1>7, <1>8, <1>9, <1>10, <1>11, <1>12, <1>13, <1>14,
     <1>15, <1>16, <1>17, <1>18, <1>19, <1>20 DEF Next, Receive, SessionStep

(* A counter stops at CounterMax, and one that has stopped stays there.     *)
LEMMA SaturateType ==
  ASSUME NEW n \in Nat
  PROVE  Saturate(n) \in 0..CounterMax /\ Saturate(Saturate(n) + 1) = Saturate(n + 1)
BY BoundsAssumption DEF Saturate

(* An increment keeps the counters within their width.                      *)
LEMMA IncrementedType ==
  ASSUME NEW st \in [Counters -> 0..CounterMax], NEW S
  PROVE  Incremented(st, S) \in [Counters -> 0..CounterMax]
BY BoundsAssumption DEF Incremented, Saturate

(* Counting a frame keeps the counters within their width.                  *)
LEMMA TallyType ==
  ASSUME TypeOK, NEW s \in Sessions, NEW S, Tally(s, S)
  PROVE  stats' \in [Sessions -> [Counters -> 0..CounterMax]]
BY IncrementedType DEF Tally, TypeOK

(* A history counts in natural numbers.                                     *)
LEMMA CountedType ==
  ASSUME TypeOK, NEW s \in Sessions, NEW S, Counted(s, S)
  PROVE  fate' \in [Sessions -> [Fates -> Nat]]
BY DEF Counted, TypeOK

(* Counters start at zero.                                                  *)
LEMMA ZeroType == Zero(Counters) \in [Counters -> 0..CounterMax] /\ Zero(Fates) \in [Fates -> Nat]
BY BoundsAssumption DEF Zero

(* No step breaks the type invariant.                                       *)
LEMMA TypeStep ==
  ASSUME TypeOK, InHand, [Next]_vars
  PROVE  TypeOK'
<1> USE FramesAssumption, BoundsAssumption, SessionsAssumption, NoneAssumption, TallyType,
        CountedType, ZeroType, IncrementedType DEF TypeOK, Responses
<1>1. CASE Shutdown
  BY <1>1 DEF Shutdown, sessionVars, appVars
<1>2. ASSUME NEW s \in Sessions, Accept(s) PROVE TypeOK'
  BY <1>2 DEF Accept, appVars
<1>3. ASSUME NEW s \in Sessions, SerialShutdown(s) PROVE TypeOK'
  BY <1>3 DEF SerialShutdown, Ends
<1>4. ASSUME NEW s \in Sessions, ReceiveFails(s) PROVE TypeOK'
  BY <1>4 DEF ReceiveFails, Ends, appVars
<1>5. ASSUME NEW s \in Sessions, NEW f \in Frames[s], DiscardDamaged(s, f) PROVE TypeOK'
  BY <1>5 DEF DiscardDamaged, Arrives, appVars
<1>6. ASSUME NEW s \in Sessions, NEW f \in Frames[s], DiscardForeign(s, f) PROVE TypeOK'
  BY <1>6 DEF DiscardForeign, Arrives, appVars
<1>7. ASSUME NEW s \in Sessions, NEW f \in Frames[s], DiscardInListenOnlyMode(s, f) PROVE TypeOK'
  BY <1>7 DEF DiscardInListenOnlyMode, Arrives, appVars
<1>8. ASSUME NEW s \in Sessions, NEW f \in Frames[s], ForceListenOnly(s, f) PROVE TypeOK'
  BY <1>8 DEF ForceListenOnly, Accepted, Arrives, appVars
<1>9. ASSUME NEW s \in Sessions, NEW f \in Frames[s], AnswerFc08(s, f) PROVE TypeOK'
  <2>1. CASE f.op = "clear"
    <3>1. stats' \in [Sessions -> [Counters -> 0..CounterMax]] /\ fate' \in [Sessions -> [Fates -> Nat]]
      <4>1. stats' = [stats EXCEPT ![s] = Zero(Counters)] /\ fate' = [fate EXCEPT ![s] = Zero(Fates)]
        BY <1>9, <2>1 DEF AnswerFc08
      <4> QED
        BY <4>1, ZeroType
    <3> QED
      BY <1>9, <2>1, <3>1 DEF AnswerFc08, Accepted, Arrives, GoesTo, appVars
  <2>2. CASE f.op # "clear"
    BY <1>9, <2>2 DEF AnswerFc08, Accepted, Arrives, GoesTo, appVars
  <2> QED
    BY <2>1, <2>2
<1>10. ASSUME NEW s \in Sessions, NEW f \in Frames[s], BroadcastDiscarded(s, f) PROVE TypeOK'
  BY <1>10 DEF BroadcastDiscarded, Accepted, Arrives, appVars
<1>11. ASSUME NEW s \in Sessions, NEW f \in Frames[s], DispatchBroadcast(s, f) PROVE TypeOK'
  BY <1>11 DEF DispatchBroadcast, Accepted, Arrives, GoesTo, appVars
<1>12. ASSUME NEW s \in Sessions, NEW f \in Frames[s], RejectUnknown(s, f) PROVE TypeOK'
  BY <1>12 DEF RejectUnknown, Accepted, Arrives, GoesTo, appVars
<1>13. ASSUME NEW s \in Sessions, NEW f \in Frames[s], Dispatch(s, f) PROVE TypeOK'
  BY <1>13 DEF Dispatch, Accepted, Arrives, GoesTo, appVars
<1>14. ASSUME NEW s \in Sessions, Lock(s) PROVE TypeOK'
  BY <1>14 DEF Lock, GoesTo
<1>15. ASSUME NEW s \in Sessions, NEW r \in Responses, Handle(s, r) PROVE TypeOK'
  BY <1>15 DEF Handle, GoesTo, Execute
<1>16. ASSUME NEW s \in Sessions, SettleSilently(s) PROVE TypeOK'
  BY <1>16 DEF SettleSilently, Continues, appVars
<1>17. ASSUME NEW s \in Sessions, Settle(s) PROVE TypeOK'
  BY <1>17 DEF Settle, GoesTo, appVars
<1>18. ASSUME NEW s \in Sessions, Send(s) PROVE TypeOK'
  BY <1>18 DEF Send, Continues, appVars
<1>19. ASSUME NEW s \in Sessions, SendFails(s) PROVE TypeOK'
  BY <1>19 DEF SendFails, Continues, Ends, appVars
<1>20. CASE UNCHANGED vars
  BY <1>20 DEF vars, sessionVars, appVars
<1> QED
  BY <1>1, <1>2, <1>3, <1>4, <1>5, <1>6, <1>7, <1>8, <1>9, <1>10, <1>11, <1>12, <1>13, <1>14,
     <1>15, <1>16, <1>17, <1>18, <1>19, <1>20 DEF Next, Receive, SessionStep

(* run() passes on the requests each await is for.                          *)
LEMMA InHandStep ==
  ASSUME TypeOK, InHand, [Next]_vars
  PROVE  InHand'
<1> USE FramesAssumption, BoundsAssumption, SessionsAssumption, NoneAssumption DEF TypeOK,
        InHand, Responses, is_addressed_to_us, is_broadcast_write_fc
<1>1. CASE Shutdown
  BY <1>1 DEF Shutdown, sessionVars, appVars
<1>2. ASSUME NEW s \in Sessions, Accept(s) PROVE InHand'
  BY <1>2 DEF Accept, appVars
<1>3. ASSUME NEW s \in Sessions, SerialShutdown(s) PROVE InHand'
  BY <1>3 DEF SerialShutdown, Ends
<1>4. ASSUME NEW s \in Sessions, ReceiveFails(s) PROVE InHand'
  BY <1>4 DEF ReceiveFails, Ends, appVars
<1>5. ASSUME NEW s \in Sessions, NEW f \in Frames[s], DiscardDamaged(s, f) PROVE InHand'
  BY <1>5 DEF DiscardDamaged, Arrives, appVars
<1>6. ASSUME NEW s \in Sessions, NEW f \in Frames[s], DiscardForeign(s, f) PROVE InHand'
  BY <1>6 DEF DiscardForeign, Arrives, appVars
<1>7. ASSUME NEW s \in Sessions, NEW f \in Frames[s], DiscardInListenOnlyMode(s, f) PROVE InHand'
  BY <1>7 DEF DiscardInListenOnlyMode, Arrives, appVars
<1>8. ASSUME NEW s \in Sessions, NEW f \in Frames[s], ForceListenOnly(s, f) PROVE InHand'
  BY <1>8 DEF ForceListenOnly, Accepted, Arrives, appVars
<1>9. ASSUME NEW s \in Sessions, NEW f \in Frames[s], AnswerFc08(s, f) PROVE InHand'
  BY <1>9 DEF AnswerFc08, Accepted, Arrives, GoesTo, appVars
<1>10. ASSUME NEW s \in Sessions, NEW f \in Frames[s], BroadcastDiscarded(s, f) PROVE InHand'
  BY <1>10 DEF BroadcastDiscarded, Accepted, Arrives, appVars
<1>11. ASSUME NEW s \in Sessions, NEW f \in Frames[s], DispatchBroadcast(s, f) PROVE InHand'
  BY <1>11 DEF DispatchBroadcast, Accepted, Arrives, GoesTo, appVars
<1>12. ASSUME NEW s \in Sessions, NEW f \in Frames[s], RejectUnknown(s, f) PROVE InHand'
  BY <1>12 DEF RejectUnknown, Accepted, Arrives, GoesTo, appVars
<1>13. ASSUME NEW s \in Sessions, NEW f \in Frames[s], Dispatch(s, f) PROVE InHand'
  BY <1>13 DEF Dispatch, Accepted, Arrives, GoesTo, appVars
<1>14. ASSUME NEW s \in Sessions, Lock(s) PROVE InHand'
  BY <1>14 DEF Lock, GoesTo
<1>15. ASSUME NEW s \in Sessions, NEW r \in Responses, Handle(s, r) PROVE InHand'
  BY <1>15 DEF Handle, GoesTo, Execute
<1>16. ASSUME NEW s \in Sessions, SettleSilently(s) PROVE InHand'
  BY <1>16 DEF SettleSilently, Continues, appVars
<1>17. ASSUME NEW s \in Sessions, Settle(s) PROVE InHand'
  BY <1>17 DEF Settle, GoesTo, appVars
<1>18. ASSUME NEW s \in Sessions, Send(s) PROVE InHand'
  BY <1>18 DEF Send, Continues, appVars
<1>19. ASSUME NEW s \in Sessions, SendFails(s) PROVE InHand'
  BY <1>19 DEF SendFails, Continues, Ends, appVars
<1>20. CASE UNCHANGED vars
  BY <1>20 DEF vars, sessionVars, appVars
<1> QED
  BY <1>1, <1>2, <1>3, <1>4, <1>5, <1>6, <1>7, <1>8, <1>9, <1>10, <1>11, <1>12, <1>13, <1>14,
     <1>15, <1>16, <1>17, <1>18, <1>19, <1>20 DEF Next, Receive, SessionStep

(* Fresh and cleared counters agree with an empty history.                  *)
LEMMA ZeroAgrees ==
  ASSUME NEW s \in Sessions, stats'[s] = Zero(Counters), fate'[s] = Zero(Fates),
         pc'[s] = "recv" \/ req'[s].op = "clear"
  PROVE  Agrees(s)'
<1>1. Ahead(s)' = {}
  BY DEF Ahead
<1>2. \A c \in Counters : stats'[s][c] = 0
  BY DEF Zero
<1>3. \A f \in Fates : fate'[s][f] = 0
  BY DEF Zero
<1>4. Saturate(0) = 0
  BY BoundsAssumption DEF Saturate
<1> QED
  BY <1>1, <1>2, <1>3, <1>4 DEF Agrees, Total, Plus, Counters, Fates

(* Every path through run() increments the counters that belong to what     *)
(* becomes of the frame, and no other.                                      *)
LEMMA CountersStep ==
  ASSUME TypeOK, InHand, CountersAhead, [Next]_vars
  PROVE  CountersAhead'
<1> USE FramesAssumption, BoundsAssumption, SessionsAssumption, NoneAssumption, SaturateType DEF
        TypeOK, InHand, CountersAhead, Agrees, Responses, Total, Plus, Ahead, Fate, Counters,
        Fates, Incremented, Zero
<1>1. CASE Shutdown
  BY <1>1 DEF Shutdown, sessionVars, appVars
<1>2. ASSUME NEW s \in Sessions, Accept(s) PROVE CountersAhead'
  <2>1. \A t \in Sessions \ {s} : /\ pc'[t] = pc[t] /\ req'[t] = req[t] /\ resp'[t] = resp[t]
                                /\ stats'[t] = stats[t] /\ fate'[t] = fate[t]
    BY <1>2 DEF Accept, appVars
  <2>2. pc'[s] = "recv" /\ stats'[s] = Zero(Counters) /\ fate'[s] = Zero(Fates)
    BY <1>2 DEF Accept
  <2>3. Agrees(s)'
    BY <2>2, ZeroAgrees
  <2> QED
    BY <2>1, <2>3
<1>3. ASSUME NEW s \in Sessions, SerialShutdown(s) PROVE CountersAhead'
  BY <1>3 DEF SerialShutdown, Ends
<1>4. ASSUME NEW s \in Sessions, ReceiveFails(s) PROVE CountersAhead'
  BY <1>4 DEF ReceiveFails, Ends, appVars
<1>5. ASSUME NEW s \in Sessions, NEW f \in Frames[s], DiscardDamaged(s, f) PROVE CountersAhead'
  BY <1>5 DEF DiscardDamaged, Arrives, Tally, Counted, appVars
<1>6. ASSUME NEW s \in Sessions, NEW f \in Frames[s], DiscardForeign(s, f) PROVE CountersAhead'
  BY <1>6 DEF DiscardForeign, Arrives, Tally, Counted, appVars
<1>7. ASSUME NEW s \in Sessions, NEW f \in Frames[s], DiscardInListenOnlyMode(s, f) PROVE CountersAhead'
  BY <1>7 DEF DiscardInListenOnlyMode, Arrives, Tally, Counted, appVars
<1>8. ASSUME NEW s \in Sessions, NEW f \in Frames[s], ForceListenOnly(s, f) PROVE CountersAhead'
  BY <1>8 DEF ForceListenOnly, Accepted, Arrives, Tally, Counted, appVars
<1>9. ASSUME NEW s \in Sessions, NEW f \in Frames[s], AnswerFc08(s, f) PROVE CountersAhead'
  <2>1. \A t \in Sessions \ {s} : /\ pc'[t] = pc[t] /\ req'[t] = req[t] /\ resp'[t] = resp[t]
                                /\ stats'[t] = stats[t] /\ fate'[t] = fate[t]
    BY <1>9 DEF AnswerFc08, Accepted, Arrives, GoesTo, Tally, appVars
  <2>2. pc[s] = "recv" /\ pc'[s] = "send" /\ req'[s] = f /\ resp'[s] = "ok"
    BY <1>9 DEF AnswerFc08, Accepted, Arrives, GoesTo
  <2>3. CASE f.op = "clear"
    <3>1. stats'[s] = Zero(Counters) /\ fate'[s] = Zero(Fates)
      BY <1>9, <2>3 DEF AnswerFc08
    <3>2. Agrees(s)'
      BY <2>2, <2>3, <3>1, ZeroAgrees
    <3> QED
      BY <2>1, <3>2
  <2>4. CASE f.op \in {"echo", "restart", "counter"}
    <3>1. stats'[s] = Incremented(stats[s], {"message"} \cup {}) /\ fate'[s] = fate[s]
      BY <1>9, <2>4 DEF AnswerFc08, Tally
    <3> QED
      BY <2>1, <2>2, <2>4, <3>1
  <2> QED
    BY <1>9, <2>3, <2>4 DEF AnswerFc08
<1>10. ASSUME NEW s \in Sessions, NEW f \in Frames[s], BroadcastDiscarded(s, f) PROVE CountersAhead'
  BY <1>10 DEF BroadcastDiscarded, Accepted, Arrives, Tally, Counted, appVars
<1>11. ASSUME NEW s \in Sessions, NEW f \in Frames[s], DispatchBroadcast(s, f) PROVE CountersAhead'
  <2>1. \A t \in Sessions \ {s} : /\ pc'[t] = pc[t] /\ req'[t] = req[t] /\ resp'[t] = resp[t]
                                /\ stats'[t] = stats[t] /\ fate'[t] = fate[t]
    BY <1>11 DEF DispatchBroadcast, Accepted, Arrives, GoesTo, Tally, appVars
  <2>2. pc[s] = "recv" /\ pc'[s] = "lock" /\ req'[s] = f /\ f.op = "write"
    BY <1>11 DEF DispatchBroadcast, is_broadcast_write_fc, Accepted, Arrives, GoesTo
  <2>3. stats'[s] = Incremented(stats[s], {"message", "server_message"}) /\ fate'[s] = fate[s]
    BY <1>11 DEF DispatchBroadcast, Tally
  <2> QED
    BY <2>1, <2>2, <2>3
<1>12. ASSUME NEW s \in Sessions, NEW f \in Frames[s], RejectUnknown(s, f) PROVE CountersAhead'
  BY <1>12 DEF RejectUnknown, Accepted, Arrives, Tally, GoesTo, appVars
<1>13. ASSUME NEW s \in Sessions, NEW f \in Frames[s], Dispatch(s, f) PROVE CountersAhead'
  BY <1>13 DEF Dispatch, Accepted, Arrives, Tally, GoesTo, appVars
<1>14. ASSUME NEW s \in Sessions, Lock(s) PROVE CountersAhead'
  BY <1>14 DEF Lock, GoesTo
<1>15. ASSUME NEW s \in Sessions, NEW r \in Responses, Handle(s, r) PROVE CountersAhead'
  BY <1>15 DEF Handle, GoesTo, Execute
<1>16. ASSUME NEW s \in Sessions, SettleSilently(s) PROVE CountersAhead'
  BY <1>16 DEF SettleSilently, Continues, Counted, appVars
<1>17. ASSUME NEW s \in Sessions, Settle(s) PROVE CountersAhead'
  BY <1>17 DEF Settle, GoesTo, appVars
<1>18. ASSUME NEW s \in Sessions, Send(s) PROVE CountersAhead'
  BY <1>18 DEF Send, Counted, Continues, appVars
<1>19. ASSUME NEW s \in Sessions, SendFails(s) PROVE CountersAhead'
  BY <1>19 DEF SendFails, Counted, Continues, Ends, appVars
<1>20. CASE UNCHANGED vars
  BY <1>20 DEF vars, sessionVars, appVars
<1> HIDE DEF TypeOK, InHand, CountersAhead, Agrees, Responses, Total, Plus, Ahead, Fate,
        Counters, Fates, Incremented, Zero
<1> QED
  BY <1>1, <1>2, <1>3, <1>4, <1>5, <1>6, <1>7, <1>8, <1>9, <1>10, <1>11, <1>12, <1>13, <1>14,
     <1>15, <1>16, <1>17, <1>18, <1>19, <1>20 DEF Next, Receive, SessionStep

-----------------------------------------------------------------------------
(* The invariant holds at the start.                                        *)
LEMMA InitInv == Init => IndInv
<1> SUFFICES ASSUME Init PROVE IndInv
  OBVIOUS
<1> USE FramesAssumption, BoundsAssumption, SessionsAssumption, NoneAssumption DEF Init
<1>1. TypeOK
  BY ZeroType DEF TypeOK
<1>2. Exclusive /\ NoLostWrite /\ InHand
  BY DEF Exclusive, NoLostWrite, InHand
<1>3. CountersAhead
  BY DEF CountersAhead, Agrees, Saturate, Total, Plus, Ahead, Zero, Counters, Fates
<1> QED
  BY <1>1, <1>2, <1>3 DEF IndInv

(* The invariant is inductive.                                              *)
LEMMA InductiveInv == IndInv /\ [Next]_vars => IndInv'
BY TypeStep, ExclusiveStep, InHandStep, CountersStep DEF IndInv

(* Between two requests no counter is ahead.                                *)
LEMMA AheadIsExact == TypeOK /\ CountersAhead => CountersExact
BY DEF TypeOK, CountersAhead, Agrees, CountersExact, Total, Plus, Ahead, Fates

(* Every variable keeps its type: in particular no counter exceeds its      *)
(* width.                                                                   *)
THEOREM TypeCorrect == Spec => []TypeOK
BY InitInv, InductiveInv, PTL DEF Spec, IndInv

(* Arc<Mutex<APP>> makes a write request's read and write, with an await in *)
(* between, one: no write is lost, however many sessions interleave, and    *)
(* whatever await a serial server is shut down at.                          *)
THEOREM WritesKept == Spec => []NoLostWrite
BY InitInv, InductiveInv, PTL DEF Spec, IndInv

(* The FC08 counters of every session agree with what became of its frames, *)
(* for any sequence of frames, up to saturation.                            *)
THEOREM CountersAgree == Spec => []CountersExact
BY InitInv, InductiveInv, AheadIsExact, PTL DEF Spec, IndInv

=============================================================================
