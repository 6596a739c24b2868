---------------------------- MODULE MCGatewaySync ----------------------------
(***************************************************************************)
(* Finite instances of GatewaySync.  As in MCClientServices, time slides:  *)
(* at Horizon a tick moves the deadlines one unit closer instead.          *)
(***************************************************************************)
EXTENDS GatewaySync

CONSTANT Horizon

Sooner(s) == IF s = None THEN None
             ELSE [s EXCEPT !.deadline_ms = IF @ = 0 THEN 0 ELSE @ - 1]

SlideTick ==
  /\ pc = "idle" /\ now = Horizon
  /\ state' = [d \in Channels |-> Sooner(state[d])]
  /\ UNCHANGED <<upstreams, rxbuf, wire, txn_map, next_internal, pending, now, pollVars, askVars>>

Time == (now < Horizon /\ Tick) \/ SlideTick
MCNext == Step \/ Time
MCSpec == Init /\ [][MCNext]_vars

(* The application keeps calling poll(), each call ends, and time passes.   *)
MCLiveSpec == MCSpec /\ WF_vars(Poll) /\ SF_vars(Time)

Req(n, c, txn, unit) == [id |-> n, client |-> c, txn |-> txn, unit |-> unit]

MCClients == {"a", "b"}
\* Both clients use transaction id 1; units 1 and 2 have a channel, 9 has none.
MCRequests == {Req(1, "a", 1, 1), Req(2, "a", 2, 1), Req(3, "b", 1, 2), Req(4, "b", 2, 9)}
ThreeRequests == {Req(1, "a", 1, 1), Req(2, "a", 2, 1), Req(3, "b", 1, 2)}
MCRoute == [u \in {1, 2, 9} |-> IF u = 9 THEN None ELSE u]
==============================================================================
