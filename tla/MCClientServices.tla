-------------------------- MODULE MCClientServices --------------------------
(***************************************************************************)
(* Finite instances of ClientServices.  Time is bounded by a sliding       *)
(* window: once the clock reaches Horizon, a tick moves every stored time  *)
(* one unit into the past instead.  Only differences of times are compared *)
(* and none that matters exceeds Horizon, so nothing is cut off and time   *)
(* may go on for ever.                                                     *)
(***************************************************************************)
EXTENDS ClientServices, RetryPolicy

CONSTANTS Horizon, LongestDelay

ASSUME HorizonAssumption ==
  /\ Horizon > ResponseTimeout + LongestDelay
  /\ \A a \in DOMAIN RetryDelays : \A d \in RetryDelays[a] : d <= LongestDelay

Earlier(t) == IF t = None \/ t = 0 THEN t ELSE t - 1

SlideTick ==
  /\ pc = "idle" /\ now = Horizon
  /\ expected_responses' = [k \in DOMAIN expected_responses |->
       [expected_responses[k] EXCEPT !.sent_timestamp = Earlier(@),
                                     !.next_retry_timestamp = Earlier(@)]]
  /\ next_timeout_check' = Earlier(next_timeout_check)
  /\ current_millis' = Earlier(current_millis)
  /\ UNCHANGED <<now, linkVars, appVars, pc, i, new_next_check>>

Time == (now < Horizon /\ Tick) \/ SlideTick

(* A broadcast that is refused leaves nothing behind but its verdict, so it  *)
(* is enough to look at the orders in which it comes before the requests.    *)
RefusedFirst ==
  \A r \in Requests : Refused(r) /\ verdict[r] = "new" => \A s \in Requests : verdict[s] = "new"
MCNext == (Step /\ RefusedFirst') \/ Time
MCSpec == Init /\ [][MCNext]_vars

(* Time passes whatever the client does, also when it is polled in a busy   *)
(* loop: strong fairness, since Time is a step between two polls.           *)
MCLiveSpec == MCSpec /\ PollFairness /\ SF_vars(Time)

Req(n, txn, unit, op) == [id |-> n, txn_id |-> txn, unit |-> unit, op |-> op]

\* Two pipelined requests of the same shape to one server, and a broadcast.
TcpRequests == {Req(1, 1, 1, "read"), Req(2, 2, 1, "read"), Req(3, 3, 0, "write")}
\* Two requests to one device, one after the other, and a broadcast write.
SerialRequests == {Req(1, 1, 1, "read"), Req(2, 2, 1, "write"), Req(3, 3, 0, "write")}
(* The delays a strategy gives: RetryPolicy, with the numbers random_fn may *)
(* return.                                                                  *)
Delays(backoff, jitter, randoms) ==
  [a \in 1..RetryAttempts |-> {apply(jitter, delay_ms_for_retry(backoff, a), n) : n \in randoms}]

OneUnit == Delays([kind |-> "Exponential", base_delay_ms |-> 1, max_delay_ms |-> 8],
                  [kind |-> "BoundedMs", max_jitter_ms |-> 1], {1})
\* At once, and then after three units, which is longer than the time-out.
Growing == Delays([kind |-> "Linear", initial_delay_ms |-> 0, increment_ms |-> 3, max_delay_ms |-> 8],
                  [kind |-> "None"], {NoRandom})
=============================================================================
