-------------------------- MODULE MCServerServices --------------------------
(***************************************************************************)
(* Finite instances of ServerServices.  For safety the clock stops at      *)
(* MaxTime.  For liveness it goes on: at MaxTime a tick moves every stored *)
(* time one unit into the past instead, down to 0.  The attempts of a      *)
(* request move with the time it was heard, so that the spans between them *)
(* stay what they were, or at least MaxTime.                               *)
(***************************************************************************)
EXTENDS ServerServices

CONSTANT MaxTime

Time == now < MaxTime /\ Tick
MCNext == Step \/ Time
MCSpec == Init /\ [][MCNext]_vars

Earlier(t) == IF t > 0 THEN t - 1 ELSE t
SlideTick ==
  /\ pc \in {"idle", "ingest", "dispatch"} /\ now = MaxTime
  /\ last_recv_us' = Earlier(last_recv_us)
  /\ request_queue' = [k \in DOMAIN request_queue |->
       [request_queue[k] EXCEPT !.received_at_us = Earlier(@)]]
  /\ response_queue' = [k \in DOMAIN response_queue |->
       [response_queue[k] EXCEPT !.queued_at_us = Earlier(@)]]
  /\ heard' = [r \in Requests |-> Earlier(heard[r])]
  /\ attempts' = [r \in Requests |->
       IF heard[r] > 0 THEN [k \in DOMAIN attempts[r] |-> attempts[r][k] - 1] ELSE attempts[r]]
  /\ UNCHANGED <<rxed_frame, partial, connected, listen_only_mode, now, pollVars,
                 executed, fates>>

(* The application keeps polling, and time passes between the polls.        *)
MCLiveSpec ==
  /\ Init /\ [][Step \/ Time \/ SlideTick]_vars
  /\ WF_vars(Poll) /\ SF_vars(Time \/ SlideTick)

Req(n, unit, op) == [id |-> n, unit |-> unit, op |-> op]

\* Requests of different priorities to one TCP server.
MixedRequests ==
  {Req(1, 1, "write"), Req(2, 1, "read"), Req(3, 1, "other"), Req(4, 1, "unsupported")}
\* A bus with another unit, a broadcast, and listen-only mode entered and left.
BusRequests ==
  {Req(1, 0, "write"), Req(2, 2, "write"), Req(3, 1, "listen"), Req(4, 1, "restart")}
==============================================================================
