--------------------------- MODULE ServerServices ---------------------------
(***************************************************************************)
(* The Modbus server (mbus-server, ServerServices): poll() retries queued  *)
(* responses, receives, ingests frames into the priority queue (or handles *)
(* them at once), expires stale requests and dispatches the rest.          *)
(*                                                                         *)
(* A frame is the request it carries, or Garbage.  What a handler does for *)
(* its function code is abstracted to: it ran, and has an answer to send.  *)
(***************************************************************************)
EXTENDS Integers, Sequences, FiniteSets

CONSTANTS
  Requests,         \* what the peers may send, each once: [id, unit, op]
  Own,              \* slave_address
  IsSerial,         \* TRANSPORT_TYPE.is_serial_type()
  QueueDepth,       \* QUEUE_DEPTH
  RxCapacity,       \* frames that fit in rxed_frame
  MaxSendRetries, RetryInterval, Turnaround, Deadline,
  StrictMode, RejectPolicy, PriorityQueue, BroadcastWrites,  \* ResilienceConfig
  Garbage           \* bytes that parse as no frame

BROADCAST == 0
Ops == {"other", "read", "write", "loopback", "restart", "listen", "unsupported"}

ASSUME RequestsAssumption ==
  \A r \in Requests : r \in [id : Nat, unit : Nat, op : Ops]
ASSUME GarbageAssumption == Garbage \notin Requests
ASSUME ConfigAssumption ==
  /\ Own \in Nat \ {BROADCAST} /\ QueueDepth \in Nat /\ RxCapacity \in Nat
  /\ MaxSendRetries \in Nat /\ RetryInterval \in Nat /\ Turnaround \in Nat /\ Deadline \in Nat
  /\ {IsSerial, StrictMode, RejectPolicy, PriorityQueue, BroadcastWrites} \subseteq BOOLEAN

VARIABLES
  rxed_frame,         \* received, not yet ingested
  partial,            \* whether the last frame of rxed_frame is incomplete
  last_recv_us,
  request_queue,      \* requests waiting for dispatch
  response_queue,     \* responses waiting to be sent
  listen_only_mode,
  connected,          \* the transport's state
  now,                \* clock_fn
  pc,                 \* where poll() is
  todo,               \* responses drain_response_queue has still to look at
  i, expired,         \* the scan for stale requests and what it took out
  heard,              \* when each request was received (its last bytes), or -1
  executed,           \* how often each request was handed to its handler
  fates,              \* how each request ended
  attempts            \* when its response was passed to transport.send, in order

rxVars == <<rxed_frame, partial, last_recv_us, connected, heard>>
queueVars == <<request_queue, response_queue>>
pollVars == <<pc, todo, i, expired>>
outVars == <<executed, fates, attempts>>
vars == <<rxVars, queueVars, listen_only_mode, now, pollVars, outVars>>

PendingRequest == [req : Requests, priority : 0..3, received_at_us : Nat]
PendingResponse == [req : Requests, what : {"answer", "refusal"}, retry_count : Nat,
                    queued_at_us : Nat, is_turnaround_delay : BOOLEAN]

Init ==
  /\ rxed_frame = <<>> /\ partial = FALSE /\ last_recv_us = 0 /\ connected = TRUE
  /\ request_queue = <<>> /\ response_queue = <<>>
  /\ listen_only_mode = FALSE
  /\ now = 0
  /\ pc = "idle" /\ todo = 0 /\ i = 1 /\ expired = <<>>
  /\ heard = [r \in Requests |-> -1]
  /\ executed = [r \in Requests |-> 0]
  /\ fates = [r \in Requests |-> <<>>]
  /\ attempts = [r \in Requests |-> <<>>]

Elements(s) == {s[k] : k \in DOMAIN s}
SwapRemove(s, k) == [j \in 1..(Len(s) - 1) |-> IF j = k THEN s[Len(s)] ELSE s[j]]
End(r, fate) == fates' = [fates EXCEPT ![r] = Append(@, fate)]
Elapsed(t) == IF now > t THEN now - t ELSE 0   \* saturating_sub

-----------------------------------------------------------------------------
(* Sending a response.                                                      *)

HasRoom == Len(response_queue) < QueueDepth

(* response_queue.push_back, the response being lost if there is no room.   *)
Enqueue(r, what, at, turnaround) ==
  IF HasRoom
  THEN /\ response_queue' = Append(response_queue,
            [req |-> r, what |-> what, retry_count |-> 0, queued_at_us |-> at,
             is_turnaround_delay |-> turnaround])
       /\ UNCHANGED fates
  ELSE End(r, "overflow") /\ UNCHANGED response_queue

TooSoonByOne == Turnaround > 0 /\ Elapsed(last_recv_us) + 1 < Turnaround
TooSoon == Turnaround > 0 /\ Elapsed(last_recv_us) < Turnaround

SendNow(r, what) ==
  /\ attempts' = [attempts EXCEPT ![r] = Append(@, now)]
  /\ \/ connected /\ End(r, what) /\ UNCHANGED response_queue
     \/ Enqueue(r, what, now, FALSE)

(* try_send_or_queue                                                        *)
Respond(r, what) ==
  IF TooSoon THEN Enqueue(r, what, last_recv_us, TRUE) /\ UNCHANGED attempts
             ELSE SendNow(r, what)

Silently(r) == End(r, "discarded") /\ UNCHANGED <<response_queue, attempts>>

-----------------------------------------------------------------------------
(* Step 1: drain_response_queue.                                            *)

BeginPoll ==
  /\ pc = "idle"
  /\ pc' = "drain" /\ todo' = Len(response_queue)
  /\ UNCHANGED <<rxVars, queueVars, listen_only_mode, now, i, expired, outVars>>

Draining == pc = "drain" /\ todo > 0
Exhausted(p) == p.retry_count >= MaxSendRetries
DelayedNever(p) == FALSE
Delayed(p) ==
  IF p.is_turnaround_delay THEN TooSoon
  ELSE RetryInterval > 0 /\ Elapsed(p.queued_at_us) < RetryInterval

DropExhausted ==
  /\ Draining /\ Exhausted(Head(response_queue))
  /\ response_queue' = Tail(response_queue)
  /\ End(Head(response_queue).req, "exhausted")
  /\ todo' = todo - 1
  /\ UNCHANGED <<rxVars, request_queue, listen_only_mode, now, pc, i, expired,
                 executed, attempts>>

(* The head is not due: it goes to the back and the loop ends.              *)
DelayRetry ==
  /\ Draining /\ ~Exhausted(Head(response_queue)) /\ Delayed(Head(response_queue))
  /\ response_queue' = Append(Tail(response_queue), Head(response_queue))
  /\ todo' = 0
  /\ UNCHANGED <<rxVars, request_queue, listen_only_mode, now, pc, i, expired, outVars>>

Retryable == Draining /\ ~Exhausted(Head(response_queue)) /\ ~Delayed(Head(response_queue))
Attempt == attempts' = [attempts EXCEPT ![Head(response_queue).req] = Append(@, now)]

RetryOk ==
  /\ Retryable /\ connected
  /\ Attempt
  /\ End(Head(response_queue).req, Head(response_queue).what)
  /\ response_queue' = Tail(response_queue)
  /\ todo' = todo - 1
  /\ UNCHANGED <<rxVars, request_queue, listen_only_mode, now, pc, i, expired, executed>>

RetryFailedForgets ==
  /\ Retryable /\ Attempt
  /\ response_queue' = Tail(response_queue)
  /\ todo' = 0
  /\ UNCHANGED <<rxVars, request_queue, listen_only_mode, now, pc, i, expired,
                 executed, fates>>

RetryFailed ==
  /\ Retryable /\ Attempt
  /\ response_queue' = Append(Tail(response_queue),
       [Head(response_queue) EXCEPT !.retry_count = @ + 1, !.queued_at_us = now,
                                    !.is_turnaround_delay = FALSE])
  /\ todo' = 0
  /\ UNCHANGED <<rxVars, request_queue, listen_only_mode, now, pc, i, expired,
                 executed, fates>>

-----------------------------------------------------------------------------
(* Step 2: recv.                                                            *)

Receiving == pc = "drain" /\ todo = 0
Lost(R) == fates' = [r \in Requests |-> IF r \in R THEN Append(fates[r], "lost") ELSE fates[r]]
Buffered == Elements(rxed_frame) \ {Garbage}
ClearRxedFrame == rxed_frame' = <<>> /\ partial' = FALSE /\ Lost(Buffered)

(* What one recv() may bring: up to two new requests, bytes without sense,  *)
(* or only more of the frame begun before.                                  *)
Unheard == {r \in Requests : heard[r] = -1}
Arrivals == {<<Garbage>>} \cup {<<r>> : r \in Unheard}
              \cup {<<p[1], p[2]>> : p \in {q \in Unheard \X Unheard : q[1] # q[2]}}
              \cup (IF partial THEN {<<>>} ELSE {})

RecvOk ==
  /\ Receiving /\ connected
  /\ \E new \in Arrivals :
       /\ heard' = [r \in Requests |->
            IF r \in Elements(rxed_frame \o new) THEN now ELSE heard[r]]
       /\ IF Len(rxed_frame) + Len(new) <= RxCapacity
          THEN /\ rxed_frame' = rxed_frame \o new
               /\ partial' \in (IF rxed_frame'[Len(rxed_frame')] = Garbage THEN {FALSE} ELSE BOOLEAN)
               /\ UNCHANGED fates
          ELSE /\ rxed_frame' = <<>> /\ partial' = FALSE
               /\ Lost(Buffered \cup (Elements(new) \ {Garbage}))
  /\ last_recv_us' = now
  /\ pc' = "ingest"
  /\ UNCHANGED <<queueVars, listen_only_mode, connected, now, todo, i, expired,
                 executed, attempts>>

(* handle_recv_error; poll() returns.                                       *)
RecvNothing ==
  /\ Receiving /\ connected
  /\ pc' = "idle"
  /\ UNCHANGED <<rxVars, queueVars, listen_only_mode, now, todo, i, expired, outVars>>

RecvFailed ==
  /\ Receiving
  /\ ClearRxedFrame
  /\ connected' \in {connected, FALSE}
  /\ pc' = "idle"
  /\ UNCHANGED <<last_recv_us, heard, queueVars, listen_only_mode, now, todo, i, expired,
                 executed, attempts>>

-----------------------------------------------------------------------------
(* Handling one request: dispatch_request_for_frame.                        *)

(* RequestPriority::from_function_code                                      *)
Priority(r) ==
  CASE r.op = "read" -> 1 [] r.op = "write" -> 2
    [] r.op \in {"loopback", "restart", "listen"} -> 3 [] OTHER -> 0

IsDiagnostics(r) == r.op \in {"loopback", "restart", "listen"}

MisaddressedNever(r) == FALSE

(* should_drop_for_address, looked at on receipt and again before dispatch. *)
Misaddressed(r) == r.unit # Own

Execute(r) ==
  IF (listen_only_mode /\ ~IsDiagnostics(r)) \/ Misaddressed(r)
  THEN Silently(r) /\ UNCHANGED <<executed, listen_only_mode>>
  ELSE /\ executed' = [executed EXCEPT ![r] = @ + 1]
       /\ listen_only_mode' = CASE r.op = "listen" /\ IsSerial -> TRUE
                                [] r.op = "restart" /\ IsSerial -> FALSE
                                [] OTHER -> listen_only_mode
       /\ IF r.op = "listen" /\ IsSerial THEN Silently(r) ELSE Respond(r, "answer")

-----------------------------------------------------------------------------
(* Step 3: process_rxed_frame, one action per way a frame is ingested.      *)

(* A whole frame is there; otherwise ingest_frame reports BufferTooSmall.   *)
Whole == Len(rxed_frame) > (IF partial THEN 1 ELSE 0)
Ingesting == pc = "ingest" /\ Whole
Frame == Head(rxed_frame)
Drain == rxed_frame' = Tail(rxed_frame) /\ UNCHANGED <<partial, last_recv_us, connected, heard>>
IsBroadcastWrite(r) ==
  r.unit = BROADCAST /\ BroadcastWrites /\ IsSerial /\ r.op = "write"
Addressed == Ingesting /\ Frame # Garbage /\ Frame.op # "unsupported" /\ ~Misaddressed(Frame)

(* handle_parse_error: resynchronise.                                       *)
Resync ==
  /\ Ingesting /\ Frame = Garbage
  /\ Drain
  /\ UNCHANGED <<queueVars, listen_only_mode, now, pollVars, outVars>>

(* An unknown function code: on TCP an exception is sent past all queues,   *)
(* whatever the unit; on a serial line the frame is skipped.                *)
Unsupported ==
  /\ Ingesting /\ Frame # Garbage /\ Frame.op = "unsupported"
  /\ \/ ~IsSerial /\ connected /\ End(Frame, "refusal")
     \/ End(Frame, "discarded")
  /\ IF IsSerial THEN UNCHANGED attempts
                 ELSE attempts' = [attempts EXCEPT ![Frame] = Append(@, now)]
  /\ Drain
  /\ UNCHANGED <<queueVars, listen_only_mode, now, pollVars, executed>>

BroadcastWrite ==
  /\ Ingesting /\ Frame # Garbage /\ IsBroadcastWrite(Frame)
  /\ executed' = [executed EXCEPT ![Frame] = @ + 1]
  /\ End(Frame, "discarded")
  /\ Drain
  /\ UNCHANGED <<queueVars, listen_only_mode, now, pollVars, attempts>>

DropForAddress ==
  /\ Ingesting /\ Frame # Garbage /\ Frame.op # "unsupported"
  /\ Misaddressed(Frame) /\ ~IsBroadcastWrite(Frame)
  /\ End(Frame, "discarded")
  /\ Drain
  /\ UNCHANGED <<queueVars, listen_only_mode, now, pollVars, executed, attempts>>

UsesQueue == QueueDepth > 0 /\ PriorityQueue

(* should_apply_back_pressure: 80 % of the response queue in use.           *)
BackPressure == RejectPolicy /\ (Len(response_queue) * 100) \div QueueDepth >= 80

RejectFallsThrough ==
  /\ Addressed /\ UsesQueue /\ BackPressure
  /\ Len(request_queue) < QueueDepth
  /\ Respond(Frame, "refusal")
  /\ request_queue' = Append(request_queue,
       [req |-> Frame, priority |-> Priority(Frame), received_at_us |-> now])
  /\ Drain
  /\ UNCHANGED <<listen_only_mode, now, pollVars, executed>>

Reject ==
  /\ Addressed /\ UsesQueue /\ BackPressure
  /\ Respond(Frame, "refusal")
  /\ Drain
  /\ UNCHANGED <<request_queue, listen_only_mode, now, pollVars, executed>>

QueueRequest ==
  /\ Addressed /\ UsesQueue /\ ~BackPressure
  /\ Len(request_queue) < QueueDepth
  /\ request_queue' = Append(request_queue,
       [req |-> Frame, priority |-> Priority(Frame), received_at_us |-> now])
  /\ Drain
  /\ UNCHANGED <<response_queue, listen_only_mode, now, pollVars, outVars>>

(* No priority queue, or it is full.                                        *)
DispatchImmediately ==
  /\ Addressed
  /\ ~UsesQueue \/ (~BackPressure /\ Len(request_queue) = QueueDepth)
  /\ Execute(Frame)
  /\ Drain
  /\ UNCHANGED <<request_queue, now, pollVars>>

IngestEndReturns ==
  /\ pc = "ingest" /\ ~Whole
  /\ pc' = IF UsesQueue /\ ~partial THEN IF Deadline > 0 THEN "expire" ELSE "dispatch" ELSE "idle"
  /\ i' = 1
  /\ UNCHANGED <<rxVars, queueVars, listen_only_mode, now, todo, expired, outVars>>

IngestEnd ==
  /\ pc = "ingest" /\ ~Whole
  /\ pc' = IF UsesQueue THEN IF Deadline > 0 THEN "expire" ELSE "dispatch" ELSE "idle"
  /\ i' = 1
  /\ UNCHANGED <<rxVars, queueVars, listen_only_mode, now, todo, expired, outVars>>

-----------------------------------------------------------------------------
(* Step 4: expire_stale (silent) and take_expired (strict).                 *)

Scanning == pc = "expire" /\ i <= Len(request_queue)
Stale(q) == Elapsed(q.received_at_us) > Deadline

KeepFresh ==
  /\ Scanning /\ ~Stale(request_queue[i])
  /\ i' = i + 1
  /\ UNCHANGED <<rxVars, queueVars, listen_only_mode, now, pc, todo, expired, outVars>>

TakeExpired ==
  /\ Scanning /\ Stale(request_queue[i])
  /\ request_queue' = SwapRemove(request_queue, i)
  /\ IF StrictMode THEN expired' = Append(expired, request_queue[i]) /\ UNCHANGED fates
                   ELSE End(request_queue[i].req, "discarded") /\ UNCHANGED expired
  /\ UNCHANGED <<rxVars, response_queue, listen_only_mode, now, pc, todo, i,
                 executed, attempts>>

(* handle_expired_request_strict                                            *)
RefuseExpired ==
  /\ pc = "expire" /\ i > Len(request_queue) /\ expired # <<>>
  /\ Respond(Head(expired).req, "refusal")
  /\ expired' = Tail(expired)
  /\ UNCHANGED <<rxVars, request_queue, listen_only_mode, now, pc, todo, i, executed>>

ExpireEnd ==
  /\ pc = "expire" /\ i > Len(request_queue) /\ expired = <<>>
  /\ pc' = "dispatch" /\ i' = 1
  /\ UNCHANGED <<rxVars, queueVars, listen_only_mode, now, todo, expired, outVars>>

-----------------------------------------------------------------------------
(* Step 5: dispatch by priority.                                            *)

(* The first of the entries with the highest priority.                      *)
Highest(k) ==
  /\ \A j \in DOMAIN request_queue : request_queue[j].priority <= request_queue[k].priority
  /\ \A j \in 1..(k - 1) : request_queue[j].priority < request_queue[k].priority

DispatchPending ==
  /\ pc = "dispatch"
  /\ \E k \in DOMAIN request_queue :
       /\ Highest(k)
       /\ request_queue' = SwapRemove(request_queue, k)
       /\ Execute(request_queue[k].req)
  /\ UNCHANGED <<rxVars, now, pollVars>>

DispatchEnd ==
  /\ pc = "dispatch" /\ request_queue = <<>>
  /\ pc' = "idle"
  /\ UNCHANGED <<rxVars, queueVars, listen_only_mode, now, todo, i, expired, outVars>>

-----------------------------------------------------------------------------
(* disconnect and reconnect drop what was received, and nothing else.       *)
Disconnect ==
  /\ pc = "idle"
  /\ ClearRxedFrame
  /\ connected' = FALSE
  /\ UNCHANGED <<last_recv_us, heard, queueVars, listen_only_mode, now, pollVars,
                 executed, attempts>>

Reconnect ==
  /\ pc = "idle"
  /\ ClearRxedFrame
  /\ connected' \in BOOLEAN
  /\ UNCHANGED <<last_recv_us, heard, queueVars, listen_only_mode, now, pollVars,
                 executed, attempts>>

(* The clock runs between polls and while callbacks and sends take time.    *)
Tick ==
  /\ pc \in {"idle", "ingest", "dispatch"}
  /\ now' = now + 1
  /\ UNCHANGED <<rxVars, queueVars, listen_only_mode, pollVars, outVars>>

DrainResponses == DropExhausted \/ DelayRetry \/ RetryOk \/ RetryFailed
Receive == RecvOk \/ RecvNothing \/ RecvFailed
Ingest == Resync \/ Unsupported \/ BroadcastWrite \/ DropForAddress \/ Reject
            \/ QueueRequest \/ DispatchImmediately \/ IngestEnd
Expire == KeepFresh \/ TakeExpired \/ RefuseExpired \/ ExpireEnd
Dispatch == DispatchPending \/ DispatchEnd
Poll == BeginPoll \/ DrainResponses \/ Receive \/ Ingest \/ Expire \/ Dispatch
Step == Poll \/ Disconnect \/ Reconnect
Next == Step \/ Tick
Spec == Init /\ [][Next]_vars

-----------------------------------------------------------------------------
(* How a request can end.                                                   *)
Fate == {"answer", "refusal", "discarded", "lost", "overflow", "exhausted"}

(* Every variable keeps its type and no queue exceeds its capacity.          *)
TypeOK ==
  /\ rxed_frame \in Seq(Requests \cup {Garbage}) /\ Len(rxed_frame) <= RxCapacity
  /\ partial \in BOOLEAN /\ last_recv_us \in Nat /\ connected \in BOOLEAN
  /\ request_queue \in Seq(PendingRequest) /\ Len(request_queue) <= QueueDepth
  /\ response_queue \in Seq(PendingResponse) /\ Len(response_queue) <= QueueDepth
  /\ listen_only_mode \in BOOLEAN /\ now \in Nat
  /\ pc \in {"idle", "drain", "ingest", "expire", "dispatch"}
  /\ todo \in 0..QueueDepth /\ i \in 1..(QueueDepth + 1)
  /\ expired \in Seq(PendingRequest)
  /\ heard \in [Requests -> Int] /\ executed \in [Requests -> Nat]
  /\ fates \in [Requests -> Seq(Fate)] /\ attempts \in [Requests -> Seq(Nat)]

(* Every request received is in exactly one place - the receive buffer, the  *)
(* request queue, the requests just expired, the response queue - or it has  *)
(* ended, once.  Over full queues, swap_remove, retries and reconnects.      *)
Holding(s, r) == Cardinality({k \in DOMAIN s : s[k].req = r})
Places(r) ==
  Cardinality({k \in DOMAIN rxed_frame : rxed_frame[k] = r}) + Holding(request_queue, r)
    + Holding(expired, r) + Holding(response_queue, r) + Len(fates[r])
HeldOnce == \A r \in Requests : Places(r) = IF heard[r] = -1 THEN 0 ELSE 1

(* The client is told the truth: a request that is refused (back-pressure,   *)
(* expiry, unknown function) was not and will not be carried out, and one    *)
(* that is answered was carried out once.                                    *)
Said(r) == Elements(fates[r]) \cup
           {response_queue[k].what : k \in {j \in DOMAIN response_queue : response_queue[j].req = r}}
Truthful ==
  \A r \in Requests :
    /\ executed[r] <= 1
    /\ "refusal" \in Said(r) => executed[r] = 0 /\ Holding(request_queue, r) = 0
    /\ "answer" \in Said(r) => executed[r] = 1

(* A response is passed to the transport at most once and once more per      *)
(* retry, and attempts are at least the retry interval apart.                *)
RetryDiscipline ==
  \A r \in Requests :
    /\ Len(attempts[r]) <= 1 + MaxSendRetries
    /\ \A k \in 2..Len(attempts[r]) : attempts[r][k] - attempts[r][k - 1] >= RetryInterval

(* No response is sent before the turnaround delay has passed since the     *)
(* request's last bytes (the exception for unknown function codes excepted). *)
TurnaroundKept ==
  \A r \in Requests : r.op # "unsupported" /\ attempts[r] # <<>> =>
    attempts[r][1] - heard[r] >= Turnaround

(* A request addressed to another unit is neither carried out nor answered;  *)
(* a broadcast is carried out only as an enabled serial write and is never   *)
(* answered (unknown function codes on TCP excepted).                        *)
ForeignUntouched ==
  \A r \in Requests : r.unit # Own /\ r.op # "unsupported" =>
    attempts[r] = <<>> /\ (executed[r] > 0 => r.unit = BROADCAST /\ BroadcastWrites /\ r.op = "write")

(* The turnaround delay holds nothing back on TCP, as the documentation of   *)
(* turnaround_delay_us has it ("Only applies to serial transports; ignored   *)
(* for TCP"): a response in the queue was passed to the transport before.    *)
NoDelayOnTcp ==
  ~IsSerial => \A k \in DOMAIN response_queue : attempts[response_queue[k].req] # <<>>

(* In listen-only mode nothing is carried out but the restart, as the        *)
(* comment on the gate in dispatch_request_for_frame has it ("the server     *)
(* must silently discard all requests except ... Restart Communications      *)
(* Option").                                                                 *)
OnlyRestartWhileListening ==
  [][listen_only_mode =>
       \A r \in Requests : executed'[r] > executed[r] => r.op = "restart"]_vars

(* Every request received in full is eventually answered or ended otherwise, *)
(* or its response waits for the turnaround; and it does end if, again and   *)
(* again, a poll begins on a line that was quiet for the turnaround.  The    *)
(* wait is counted anew from whatever is received, so a line that is never   *)
(* quiet that long holds the response back for ever.  (Requests come once    *)
(* each, so all of them end if the set of the others becomes empty.)         *)
Taken(r) == heard[r] # -1 /\ r \notin Elements(rxed_frame)
Deferred(r) ==
  \E k \in DOMAIN response_queue :
    response_queue[k].req = r /\ response_queue[k].is_turnaround_delay
BusQuiet == pc = "idle" /\ Elapsed(last_recv_us) >= Turnaround
Unended == {r \in Requests : Taken(r) /\ fates[r] = <<>>}
EventuallyEnded ==
  /\ (\E r \in Unended : ~Deferred(r)) ~> (\A r \in Unended : Deferred(r))
  /\ []<>BusQuiet => (Unended # {} ~> Unended = {})
=============================================================================
