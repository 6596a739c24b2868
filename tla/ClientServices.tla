--------------------------- MODULE ClientServices ---------------------------
(***************************************************************************)
(* The synchronous Modbus client (mbus-client, ClientServices): the table  *)
(* of expected responses, request submission, and poll(), which ingests    *)
(* received bytes, dispatches responses and drives time-outs and retries.  *)
(*                                                                         *)
(* poll() takes &mut self, so no API call interleaves with it; it is split *)
(* into small steps (pc) only so that every helper is one action.          *)
(***************************************************************************)
EXTENDS Integers, Sequences, FiniteSets

CONSTANTS
  N,                \* capacity of expected_responses
  Requests,         \* the API calls the application may make, each at most once
  IsTcp,            \* TRANSPORT_TYPE.is_tcp_type()
  ResponseTimeout,  \* response_timeout_ms
  RetryAttempts,    \* retry_attempts
  RetryDelays,      \* attempt -> the delays backoff and jitter may give
  RxCapacity,       \* capacity of rxed_frame, in pieces of a frame
  None              \* Option::None; u64::MAX for new_next_check

(* A request is a record: txn_id, unit, op, and an id that tells two calls  *)
(* with the same arguments apart.  The handler of an operation accepts      *)
(* exactly the responses whose function code and shape are those of op.     *)
ASSUME RequestsAssumption ==
  \A r \in Requests : r \in [id : Nat, txn_id : Nat, unit : Nat, op : {"read", "write"}]
ASSUME NAssumption == N \in Nat \ {0} /\ IsTcp \in BOOLEAN /\ (~IsTcp => N = 1)
ASSUME TimeAssumption ==
  /\ ResponseTimeout \in Nat
  /\ RetryAttempts \in Nat
  /\ RetryDelays \in [1..RetryAttempts -> SUBSET Nat]
ASSUME RxAssumption == RxCapacity \in Nat
ASSUME NoneAssumption == None \notin Nat

VARIABLES
  expected_responses,  \* the pending requests
  next_timeout_check,  \* cached time of the earliest due entry, or None
  rxed_frame,          \* received bytes not yet consumed
  connected,           \* transport.is_connected()
  now,                 \* app.current_millis()
  pc,                  \* where poll() is; "idle" outside it
  current_millis,      \* handle_timeouts' local of that name
  i,                   \* index of the time-out scan; 1 outside it
  new_next_check,      \* watermark of the time-out scan; None outside it
  peer,                \* requests that reached the other side of the link
  cut,                 \* frame of which only the first part was delivered
  verdict,             \* what the API call of a request returned
  notified,            \* callbacks the application got for a request
  transmissions        \* number of times a request was put on the wire

queueVars == <<expected_responses, next_timeout_check>>
linkVars  == <<rxed_frame, connected, peer, cut>>
pollVars  == <<pc, current_millis, i, new_next_check>>
appVars   == <<verdict, notified, transmissions>>
vars == <<queueVars, linkVars, pollVars, appVars, now>>

BROADCAST == 0

-----------------------------------------------------------------------------
(* Pieces of frames: a response frame arrives whole or cut in two; the line *)
(* may also carry noise.                                                    *)
Pieces == [part : {"frame", "head", "tail"}, req : Requests]
Noise == [part |-> "noise"]

Entry == [req : Requests, sent_timestamp : Nat, retries_left : Nat,
          retry_attempt_index : Nat, next_retry_timestamp : Nat \cup {None}]
Result == {"success", "ModbusException", "ParseError", "SendFailed",
           "NoRetriesLeft", "ConnectionLost"}
Verdict == {"new", "Ok", "SendFailed", "TooManyRequests", "BroadcastNotAllowed"}

(* heapless Vec::swap_remove: the last entry takes the place of the k-th.   *)
SwapRemove(s, k) == [j \in 1..(Len(s) - 1) |-> IF j = k THEN s[Len(s)] ELSE s[j]]

Queued(r) == \E k \in DOMAIN expected_responses : expected_responses[k].req = r

(* The instant at which an entry wants the attention of handle_timeouts.    *)
Due(e) == IF e.next_retry_timestamp # None THEN e.next_retry_timestamp
          ELSE e.sent_timestamp + ResponseTimeout

Init ==
  /\ expected_responses = <<>>
  /\ next_timeout_check = None
  /\ rxed_frame = <<>>
  /\ connected = FALSE
  /\ now = 0
  /\ pc = "idle"
  /\ current_millis = 0
  /\ i = 1
  /\ new_next_check = None
  /\ peer = {}
  /\ cut = None
  /\ verdict = [r \in Requests |-> "new"]
  /\ notified = [r \in Requests |-> <<>>]
  /\ transmissions = [r \in Requests |-> 0]

-----------------------------------------------------------------------------
(* The transport.                                                           *)

(* transport.send succeeded: the frame of r is on its way to the peer.      *)
SendOk(r) ==
  /\ connected
  /\ peer' = peer \cup {r}
  /\ transmissions' = [transmissions EXCEPT ![r] = @ + 1]
  /\ UNCHANGED <<connected, cut>>

(* transport.send failed; the transport may have closed the link over it.   *)
SendErr ==
  /\ connected' \in {connected, FALSE}
  /\ UNCHANGED <<peer, cut, transmissions>>

(* A TCP connection takes what was in flight with it; a serial line keeps   *)
(* delivering what its devices still send.                                  *)
FreshLink(up) ==
  /\ connected' = up
  /\ peer' = IF IsTcp THEN {} ELSE peer
  /\ cut' = IF IsTcp THEN None ELSE cut

-----------------------------------------------------------------------------
(* Request submission (the *_apis functions).                               *)

Refused(r) ==
  /\ r.unit = BROADCAST
  /\ r.op = "read" \/ IsTcp

(* Broadcast reads, and any broadcast over TCP, are refused outright.       *)
RefuseBroadcast(r) ==
  /\ pc = "idle" /\ verdict[r] = "new"
  /\ Refused(r)
  /\ verdict' = [verdict EXCEPT ![r] = "BroadcastNotAllowed"]
  /\ UNCHANGED <<queueVars, linkVars, pollVars, notified, transmissions, now>>

(* A serial broadcast write is sent; no response is expected.               *)
SendBroadcast(r) ==
  /\ pc = "idle" /\ verdict[r] = "new"
  /\ r.unit = BROADCAST /\ ~Refused(r)
  /\ \/ /\ connected
        /\ transmissions' = [transmissions EXCEPT ![r] = @ + 1]
        /\ verdict' = [verdict EXCEPT ![r] = "Ok"]
        /\ UNCHANGED <<connected, peer, cut>>
     \/ /\ SendErr
        /\ verdict' = [verdict EXCEPT ![r] = "SendFailed"]
  /\ UNCHANGED <<queueVars, rxed_frame, pollVars, notified, now>>

(* add_an_expectation: push fails when the table is full.                   *)
TooManyRequests(r) ==
  /\ pc = "idle" /\ verdict[r] = "new"
  /\ r.unit # BROADCAST
  /\ Len(expected_responses) = N
  /\ verdict' = [verdict EXCEPT ![r] = "TooManyRequests"]
  /\ UNCHANGED <<queueVars, linkVars, pollVars, notified, transmissions, now>>

QueueHasRoomUnchecked == TRUE
QueueHasRoom == Len(expected_responses) < N

NewEntry(r) ==
  [req |-> r, sent_timestamp |-> now, retries_left |-> RetryAttempts,
   retry_attempt_index |-> 0, next_retry_timestamp |-> None]

(* add_an_expectation, then dispatch_request_frame.  When the send fails    *)
(* the error is returned but the entry stays in the table.                  *)
Submit(r) ==
  /\ pc = "idle" /\ verdict[r] = "new"
  /\ r.unit # BROADCAST
  /\ QueueHasRoom
  /\ expected_responses' = Append(expected_responses, NewEntry(r))
  /\ \/ SendOk(r) /\ verdict' = [verdict EXCEPT ![r] = "Ok"]
     \/ SendErr /\ verdict' = [verdict EXCEPT ![r] = "SendFailed"]
  /\ UNCHANGED <<next_timeout_check, rxed_frame, pollVars, notified, now>>

-----------------------------------------------------------------------------
(* Notifying the application.                                               *)

Notify(r, result, from) ==
  notified' = [notified EXCEPT ![r] = Append(@, [result |-> result, from |-> from])]

FailAllPending ==
  /\ notified' = [r \in Requests |->
       IF Queued(r) THEN Append(notified[r], [result |-> "ConnectionLost", from |-> r])
                    ELSE notified[r]]
  /\ expected_responses' = <<>>
  /\ next_timeout_check' = None

(* connect(): to be called before requests are sent.                        *)
Connect ==
  /\ pc = "idle" /\ expected_responses = <<>>
  /\ FreshLink(TRUE)
  /\ UNCHANGED <<queueVars, rxed_frame, pollVars, appVars, now>>

(* disconnect()                                                             *)
Disconnect ==
  /\ pc = "idle"
  /\ FailAllPending
  /\ rxed_frame' = <<>>
  /\ FreshLink(FALSE)
  /\ UNCHANGED <<pollVars, verdict, transmissions, now>>

(* reconnect(): transport.disconnect() and then connect(), which may fail.  *)
Reconnect ==
  /\ pc = "idle"
  /\ FailAllPending
  /\ rxed_frame' = <<>>
  /\ \E up \in BOOLEAN : FreshLink(up)
  /\ UNCHANGED <<pollVars, verdict, transmissions, now>>

-----------------------------------------------------------------------------
(* poll(), first half: receive and ingest.                                  *)

Whole(f, p) == [f EXCEPT !.part = p]

(* What recv() may return: the rest of a cut frame, then perhaps a further  *)
(* response, whole or cut.  A request may be answered late, twice or never. *)
(* A serial line may lose the rest of a cut frame and may carry noise.      *)
Rests == (IF cut = None THEN {<<>>} ELSE {<<Whole(cut, "tail")>>})
         \cup (IF IsTcp THEN {} ELSE {<<>>})
Answers == {<<>>} \cup {<<p>> : p \in {q \in Pieces : q.part # "tail" /\ q.req \in peer}}
Chunks == {x \o y : x \in Rests, y \in Answers} \ {<<>>}
Interference == IF IsTcp THEN {} ELSE {<<Noise>>}

(* append_to_rxed_frame: on overflow everything received is thrown away.    *)
AppendToRxedFrame(chunk) ==
  rxed_frame' = IF Len(rxed_frame) + Len(chunk) <= RxCapacity
                THEN rxed_frame \o chunk ELSE <<>>

RecvOk(chunk) ==
  /\ pc = "idle" /\ connected
  /\ AppendToRxedFrame(chunk)
  /\ LET last == chunk[Len(chunk)] IN
       cut' = IF last.part = "head" THEN last
              ELSE IF last.part = "noise" THEN cut ELSE None
  /\ pc' = "ingest"
  /\ UNCHANGED <<queueVars, connected, peer, appVars, current_millis, i, new_next_check, now>>

(* recv() found nothing (TransportError::Timeout) or met a transient error. *)
RecvNothing ==
  /\ pc = "idle" /\ connected
  /\ pc' = "timeouts"
  /\ UNCHANGED <<queueVars, linkVars, appVars, current_millis, i, new_next_check, now>>

(* handle_recv_error on connection loss.                                    *)
RecvLost ==
  /\ pc = "idle"
  /\ FailAllPending
  /\ rxed_frame' = <<>>
  /\ FreshLink(FALSE)
  /\ pc' = "timeouts"
  /\ UNCHANGED <<verdict, transmissions, current_millis, i, new_next_check, now>>

(* The number of leading pieces that form a complete, valid frame, or 0.    *)
(* RTU and ASCII frames carry a checksum; MBAP only a length, so that a     *)
(* head is completed by whatever follows it.                                *)
Complete ==
  CASE rxed_frame = <<>> -> 0
    [] rxed_frame # <<>> /\ rxed_frame[1].part = "frame" -> 1
    [] Len(rxed_frame) >= 2 /\ rxed_frame[1].part = "head"
         /\ (IsTcp \/ rxed_frame[2] = Whole(rxed_frame[1], "tail")) -> 2
    [] OTHER -> 0

Spliced == Complete = 2 /\ rxed_frame[2] # Whole(rxed_frame[1], "tail")

(* process_rxed_frame stops: the buffer is empty, or the length derived from *)
(* its first bytes, genuine or not, exceeds what is there (BufferTooSmall).  *)
IngestStop ==
  /\ pc = "ingest"
  /\ Complete = 0 \/ Spliced
  /\ pc' = "timeouts"
  /\ UNCHANGED <<queueVars, linkVars, appVars, current_millis, i, new_next_check, now>>

MatchesUnitOnly(e, req) == e.req.unit = req.unit

(* dispatch_response's match of a response to an entry.                     *)
Matches(e, req) ==
  /\ e.req.unit = req.unit
  /\ IsTcp => e.req.txn_id = req.txn_id

(* The application's callback for a matched response: it is an exception,   *)
(* or the operation's handler accepts it, or finds fault with it.           *)
Outcomes(e, f) ==
  {"ModbusException"}
    \cup (IF Spliced \/ f.req.op = e.req.op THEN {"success"} ELSE {})
    \cup (IF Spliced \/ f.req.op # e.req.op THEN {"ParseError"} ELSE {})

Position(k, req) ==
  /\ k \in DOMAIN expected_responses
  /\ Matches(expected_responses[k], req)
  /\ \A j \in 1..(k - 1) : ~Matches(expected_responses[j], req)

Drain(n) == rxed_frame' = SubSeq(rxed_frame, n + 1, Len(rxed_frame))

(* ingest_frame + dispatch_response for a response that matches entry k.    *)
DispatchResponse(k) ==
  /\ pc = "ingest" /\ Complete > 0
  /\ LET f == rxed_frame[1]
         e == expected_responses[k]
     IN  /\ Position(k, f.req)
         /\ expected_responses' = SwapRemove(expected_responses, k)
         /\ \E result \in Outcomes(e, f) : Notify(e.req, result, f.req)
  /\ Drain(Complete)
  /\ UNCHANGED <<next_timeout_check, connected, peer, cut, pollVars, verdict, transmissions, now>>

(* A response nobody waits for is consumed and dropped.                     *)
DropUnmatched ==
  /\ pc = "ingest" /\ Complete > 0
  /\ \A k \in DOMAIN expected_responses : ~Position(k, rxed_frame[1].req)
  /\ Drain(Complete)
  /\ UNCHANGED <<queueVars, connected, peer, cut, pollVars, appVars, now>>

(* handle_parse_error: drop one byte and look for a frame again.            *)
Resync ==
  /\ pc = "ingest" /\ rxed_frame # <<>>
  /\ \/ Complete = 0 /\ ~(Len(rxed_frame) = 1 /\ rxed_frame[1].part = "head")
     \/ Spliced
  /\ Drain(1)
  /\ UNCHANGED <<queueVars, connected, peer, cut, pollVars, appVars, now>>

-----------------------------------------------------------------------------
(* poll(), second half: handle_timeouts.                                    *)

TimeoutsNothingPending ==
  /\ pc = "timeouts" /\ expected_responses = <<>>
  /\ next_timeout_check' = None
  /\ pc' = "idle"
  /\ UNCHANGED <<expected_responses, linkVars, appVars, current_millis, i, new_next_check, now>>

(* The earliest due time, as cached, is still ahead.                        *)
CacheAhead == IF next_timeout_check = None THEN FALSE ELSE now < next_timeout_check

TimeoutsFastPath ==
  /\ pc = "timeouts" /\ expected_responses # <<>>
  /\ CacheAhead
  /\ current_millis' = now
  /\ pc' = "idle"
  /\ UNCHANGED <<queueVars, linkVars, appVars, i, new_next_check, now>>

TimeoutsScan ==
  /\ pc = "timeouts" /\ expected_responses # <<>>
  /\ ~CacheAhead
  /\ current_millis' = now
  /\ pc' = "scan"
  /\ UNCHANGED <<queueVars, linkVars, appVars, i, new_next_check, now>>

Scanning == pc = "scan" /\ i <= Len(expected_responses)
Here == expected_responses[i]

LowerOverwrites(t) == new_next_check' = t

Lower(t) == new_next_check' = IF new_next_check = None \/ t < new_next_check
                              THEN t ELSE new_next_check

(* try_process_scheduled_retry: the retry is not due yet.                   *)
RetryNotDue ==
  /\ Scanning /\ Here.next_retry_timestamp # None
  /\ current_millis < Here.next_retry_timestamp
  /\ Lower(Here.next_retry_timestamp)
  /\ i' = i + 1
  /\ UNCHANGED <<queueVars, linkVars, appVars, pc, current_millis, now>>

RetryIsDue ==
  /\ Scanning /\ Here.next_retry_timestamp # None
  /\ current_millis >= Here.next_retry_timestamp

RetriedForFree(e) ==
  [e EXCEPT !.retry_attempt_index = @ + 1,
            !.sent_timestamp = current_millis,
            !.next_retry_timestamp = None]

(* update_retries                                                           *)
Retried(e) ==
  [req |-> e.req,
   sent_timestamp |-> current_millis,
   retries_left |-> IF e.retries_left = 0 THEN 0 ELSE e.retries_left - 1,
   retry_attempt_index |-> e.retry_attempt_index + 1,
   next_retry_timestamp |-> None]

(* send_due_retry, the send succeeded.                                      *)
SendDueRetry ==
  /\ RetryIsDue
  /\ SendOk(Here.req)
  /\ expected_responses' = [expected_responses EXCEPT ![i] = Retried(@)]
  /\ Lower(current_millis + ResponseTimeout)
  /\ i' = i + 1
  /\ UNCHANGED <<next_timeout_check, rxed_frame, pc, current_millis, verdict, notified, now>>

RetrySendFailedSilently ==
  /\ RetryIsDue
  /\ SendErr
  /\ expected_responses' = SwapRemove(expected_responses, i)
  /\ UNCHANGED <<next_timeout_check, rxed_frame, pollVars, verdict, notified, now>>

(* send_due_retry, the send failed: the request is dropped.                 *)
RetrySendFailed ==
  /\ RetryIsDue
  /\ SendErr
  /\ expected_responses' = SwapRemove(expected_responses, i)
  /\ Notify(Here.req, "SendFailed", Here.req)
  /\ UNCHANGED <<next_timeout_check, rxed_frame, pollVars, verdict, now>>

ExpiresAt(e) == e.sent_timestamp + ResponseTimeout

Awaiting == Scanning /\ Here.next_retry_timestamp = None

(* try_handle_request_timeout: still within the window.                     *)
WithinTimeout ==
  /\ Awaiting /\ current_millis <= ExpiresAt(Here)
  /\ Lower(ExpiresAt(Here))
  /\ i' = i + 1
  /\ UNCHANGED <<queueVars, linkVars, appVars, pc, current_millis, now>>

FailExhaustedSkipsNext ==
  /\ Awaiting /\ current_millis > ExpiresAt(Here)
  /\ Here.retries_left = 0
  /\ expected_responses' = SwapRemove(expected_responses, i)
  /\ Notify(Here.req, "NoRetriesLeft", Here.req)
  /\ i' = i + 1
  /\ UNCHANGED <<next_timeout_check, linkVars, pc, current_millis, new_next_check,
                 verdict, transmissions, now>>

(* fail_exhausted_request: the entry that takes the place is looked at next. *)
FailExhausted ==
  /\ Awaiting /\ current_millis > ExpiresAt(Here)
  /\ Here.retries_left = 0
  /\ expected_responses' = SwapRemove(expected_responses, i)
  /\ Notify(Here.req, "NoRetriesLeft", Here.req)
  /\ UNCHANGED <<next_timeout_check, linkVars, pollVars, verdict, transmissions, now>>

Scheduled(e, t) == [e EXCEPT !.next_retry_timestamp = t]

DelaysForFirst(e) == RetryDelays[1]

(* The delays the strategy and its jitter may give for the next attempt.    *)
DelaysFor(e) == RetryDelays[e.retry_attempt_index + 1]

(* schedule_next_retry; with no delay the same index is visited again.      *)
ScheduleNextRetry ==
  /\ Awaiting /\ current_millis > ExpiresAt(Here)
  /\ Here.retries_left > 0
  /\ \E d \in DelaysFor(Here) :
       /\ expected_responses' =
            [expected_responses EXCEPT ![i] = Scheduled(@, current_millis + d)]
       /\ IF d = 0 THEN UNCHANGED <<i, new_next_check>>
                   ELSE Lower(current_millis + d) /\ i' = i + 1
  /\ UNCHANGED <<next_timeout_check, linkVars, appVars, pc, current_millis, now>>

ScanEnd ==
  /\ pc = "scan" /\ i > Len(expected_responses)
  /\ next_timeout_check' = new_next_check
  /\ pc' = "idle"
  /\ i' = 1 /\ new_next_check' = None
  /\ UNCHANGED <<expected_responses, linkVars, appVars, current_millis, now>>

-----------------------------------------------------------------------------
Submission ==
  \E r \in Requests :
    RefuseBroadcast(r) \/ SendBroadcast(r) \/ TooManyRequests(r) \/ Submit(r)
StartPoll == (\E chunk \in Chunks \cup Interference : RecvOk(chunk)) \/ RecvNothing \/ RecvLost
Ingest == (\E k \in 1..N : DispatchResponse(k)) \/ DropUnmatched \/ Resync \/ IngestStop
HandleTimeouts ==
  \/ TimeoutsNothingPending \/ TimeoutsFastPath \/ TimeoutsScan
  \/ RetryNotDue \/ SendDueRetry \/ RetrySendFailed
  \/ WithinTimeout \/ FailExhausted \/ ScheduleNextRetry \/ ScanEnd

Step == Submission \/ Connect \/ Disconnect \/ Reconnect \/ StartPoll \/ Ingest \/ HandleTimeouts

(* The clock is read when a request is submitted and when handle_timeouts   *)
(* starts; time that passes inside poll() is time that passed around it.    *)
Tick ==
  /\ pc = "idle"
  /\ now' = now + 1
  /\ UNCHANGED <<queueVars, linkVars, pollVars, appVars>>

Next == Step \/ Tick
Spec == Init /\ [][Next]_vars

(* A call of poll() runs to its end, and the application keeps calling it   *)
(* (the phases of poll() exclude each other).                               *)
PollFairness == WF_vars(StartPoll \/ Ingest \/ HandleTimeouts)

-----------------------------------------------------------------------------
(* Types.                                                                   *)
QueueOK ==
  /\ expected_responses \in Seq(Entry)
  /\ Len(expected_responses) <= N
  /\ next_timeout_check \in Nat \cup {None}
LinkOK ==
  /\ rxed_frame \in Seq(Pieces \cup {Noise})
  /\ connected \in BOOLEAN
  /\ peer \in SUBSET Requests
  /\ cut \in Pieces \cup {None}
PollOK ==
  /\ pc \in {"idle", "ingest", "timeouts", "scan"}
  /\ current_millis \in Nat /\ now \in Nat
  /\ i \in Nat \ {0}
  /\ new_next_check \in Nat \cup {None}
AppOK ==
  /\ verdict \in [Requests -> Verdict]
  /\ notified \in [Requests -> Seq([result : Result, from : Requests])]
  /\ transmissions \in [Requests -> Nat]

(* Every variable keeps its type; the table never exceeds its capacity N.   *)
TypeOK == QueueOK /\ LinkOK /\ PollOK /\ AppOK

(* A request the client entered in its table, whatever the call returned.   *)
Registered(r) == r.unit # BROADCAST /\ verdict[r] \in {"Ok", "SendFailed"}

(* Every request entered in the table is reported to the application exactly *)
(* once: it is either pending, in one slot, and was not reported, or it has  *)
(* left the table and was reported once.  Nothing else is ever reported.     *)
(* Over swap_remove during the scan, duplicate responses and fail_all.       *)
ExactlyOneOutcome ==
  /\ \A r \in Requests :
       IF Registered(r) THEN Queued(r) <=> notified[r] = <<>>
                        ELSE ~Queued(r) /\ notified[r] = <<>>
  /\ \A r \in Requests : Len(notified[r]) <= 1
  /\ \A j, k \in DOMAIN expected_responses :
       expected_responses[j].req = expected_responses[k].req => j = k

(* A request poll() has not yet looked at since it was submitted, or looked  *)
(* at while its window was open: add_an_expectation does not lower           *)
(* next_timeout_check, so it may wait behind a back-off set before it came.  *)
BehindBackoff(t, e) ==
  /\ e.next_retry_timestamp = None /\ e.retry_attempt_index = 0
  /\ \E a \in 1..RetryAttempts : \E d \in RetryDelays[a] : t <= e.sent_timestamp + d

(* The cache of handle_timeouts lies in the future of an entry's due time    *)
(* only for a request on its first try, and then by no more than a back-off  *)
(* counted from its submission: whatever the delays of the policy, a retry   *)
(* that is due is never hidden by the fast path (next_timeout_check is not   *)
(* touched by add_an_expectation nor by dispatch_response).                  *)
CacheCovers ==
  next_timeout_check # None =>
    \A k \in DOMAIN expected_responses :
      LET e == expected_responses[k] IN
        next_timeout_check <= Due(e) \/ BehindBackoff(next_timeout_check, e)

(* When poll() returns, no request is overdue at the time poll() looked      *)
(* (timed-out requests were failed or scheduled, due retries were sent), but *)
(* for a request on its first try, submitted less than a back-off ago.       *)
OverdueBounded ==
  pc = "idle" =>
    \A k \in DOMAIN expected_responses :
      LET e == expected_responses[k] IN
        current_millis <= Due(e) \/ BehindBackoff(current_millis + 1, e)

(* When poll() returns, no request at all is overdue at the time it looked,  *)
(* as the comment on poll() has it: "For every poll", it checks              *)
(* whether the current time exceeds sent_timestamp plus response_timeout_ms, *)
(* and skips the scan only "if the earliest possible timeout is in the       *)
(* future".  A back-off longer than the time-out breaks it.                  *)
NothingOverdueAfterPoll ==
  pc = "idle" =>
    \A k \in DOMAIN expected_responses : current_millis <= Due(expected_responses[k])

(* A request was put on the wire once per retry, and once more unless its    *)
(* first send failed; NoRetriesLeft is reported only when the configured     *)
(* number of retries has been spent, and never more are sent.                *)
FirstSend(r) == IF verdict[r] = "Ok" THEN 1 ELSE 0
AttemptsAddUp ==
  \A k \in DOMAIN expected_responses :
    LET e == expected_responses[k] IN
      /\ e.retries_left + e.retry_attempt_index = RetryAttempts
      /\ e.next_retry_timestamp # None => e.retries_left > 0
RetryBudget ==
  /\ AttemptsAddUp
  /\ \A k \in DOMAIN expected_responses :
       LET e == expected_responses[k] IN
         transmissions[e.req] = FirstSend(e.req) + e.retry_attempt_index
  /\ \A r \in Requests : transmissions[r] <= FirstSend(r) + RetryAttempts
  /\ \A r \in Requests : \A k \in DOMAIN notified[r] :
       notified[r][k].result = "NoRetriesLeft"
         => transmissions[r] = FirstSend(r) + RetryAttempts

(* A request is retransmitted only after the response window of its previous *)
(* transmission has closed and, after that, a delay has passed that the      *)
(* retry policy gives for this attempt: the index of schedule_next_retry and *)
(* the time it counts from survive polls, swap_remove and other retries.     *)
NoEarlyRetry ==
  [][\A k \in DOMAIN expected_responses :
       LET e == expected_responses[k] IN
         transmissions'[e.req] > transmissions[e.req]
           => \E d \in RetryDelays[e.retry_attempt_index + 1] :
                now > e.sent_timestamp + ResponseTimeout + d]_vars

(* With transaction identifiers that are not reused, a response is reported  *)
(* as the success of the request it answers, over late and duplicate         *)
(* responses, retries and broken connections.                                *)
ResponseMatchesRequest ==
  \A r \in Requests : \A k \in DOMAIN notified[r] :
    notified[r][k].result = "success" => notified[r][k].from = r

(* Every request entered in the table is eventually reported to the          *)
(* application: the set of those still to be reported becomes empty in the   *)
(* end, as the application submits finitely many.                            *)
Unreported == {r \in Requests : Registered(r) /\ notified[r] = <<>>}
EventuallyReported == Unreported # {} ~> Unreported = {}

(* The client keeps the promise of RequestLedger.                           *)
LedgerStatus ==
  [r \in Requests |-> IF Queued(r) THEN "pending"
                      ELSE IF notified[r] # <<>> THEN "answered"
                      ELSE IF verdict[r] = "new" THEN "new" ELSE "declined"]
Ledger == INSTANCE RequestLedger WITH status <- LedgerStatus
ImplementsLedger == Ledger!Spec
=============================================================================
