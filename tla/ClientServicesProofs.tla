------------------------ MODULE ClientServicesProofs ------------------------
(***************************************************************************)
(* Theorems about ClientServices, for every table size, every set of       *)
(* requests, every time-out and every retry policy; and, in the last       *)
(* section, about the delays that RetryPolicy computes, for every width of *)
(* the integers.                                                           *)
(***************************************************************************)
EXTENDS ClientServices, RetryPolicy, SequenceTheorems, TLAPS

(* swap_remove yields a sequence that is one shorter, in which the last     *)
(* entry has taken the place of the removed one.                            *)
LEMMA SwapRemoveFacts ==
  ASSUME NEW S, NEW s \in Seq(S), NEW k \in 1..Len(s)
  PROVE  /\ SwapRemove(s, k) \in Seq(S)
         /\ Len(SwapRemove(s, k)) = Len(s) - 1
         /\ DOMAIN SwapRemove(s, k) = 1..(Len(s) - 1)
         /\ \A j \in 1..(Len(s) - 1) :
              SwapRemove(s, k)[j] = IF j = k THEN s[Len(s)] ELSE s[j]
<1> DEFINE n == Len(s) - 1
           t == SwapRemove(s, k)
<1>1. Len(s) \in Nat /\ n \in Nat /\ \A j \in 1..Len(s) : s[j] \in S
  BY LenProperties, ElementOfSeq
<1>2. t \in [1..n -> S]
  BY <1>1 DEF SwapRemove
<1>3. t \in Seq(S)
  BY <1>1, <1>2, SeqDef
<1>4. DOMAIN t = 1..n /\ Len(t) = n
  BY <1>1, <1>2, <1>3, LenProperties
<1> QED
  BY <1>1, <1>3, <1>4 DEF SwapRemove

(* The first piece of a non-empty buffer, and what is left when the buffer  *)
(* is drained.                                                              *)
LEMMA DrainFacts ==
  ASSUME LinkOK, NEW n \in Nat, Drain(n)
  PROVE  rxed_frame' \in Seq(Pieces \cup {Noise})
<1>1. Len(rxed_frame) \in Nat
      /\ \A j \in 1..Len(rxed_frame) : rxed_frame[j] \in Pieces \cup {Noise}
  BY LenProperties, ElementOfSeq DEF LinkOK
<1>2. \A j \in (n + 1)..Len(rxed_frame) : rxed_frame[j] \in Pieces \cup {Noise}
  BY <1>1
<1> QED
  BY <1>1, <1>2, SubSeqProperties DEF Drain

LEMMA NewEntryType ==
  ASSUME PollOK, NEW r \in Requests
  PROVE  NewEntry(r) \in Entry
BY TimeAssumption DEF NewEntry, Entry, PollOK

-----------------------------------------------------------------------------
(* Type correctness, one lemma per group of variables.                      *)

LEMMA HereType ==
  ASSUME QueueOK, PollOK, Scanning
  PROVE  i \in 1..Len(expected_responses) /\ Here \in Entry
<1>1. Len(expected_responses) \in Nat
  BY LenProperties DEF QueueOK
<1>2. i \in 1..Len(expected_responses)
  BY <1>1 DEF PollOK, Scanning
<1> QED
  BY <1>2, ElementOfSeq DEF QueueOK, Here

LEMMA RetriedType ==
  ASSUME PollOK, NEW e \in Entry
  PROVE  Retried(e) \in Entry
BY DEF Retried, Entry, PollOK

LEMMA ScheduledType ==
  ASSUME NEW e \in Entry, NEW t \in Nat
  PROVE  Scheduled(e, t) \in Entry
BY DEF Scheduled, Entry

(* A retry is only scheduled for an attempt the retry policy knows.         *)
LEMMA DelayType ==
  ASSUME QueueOK, PollOK, AttemptsAddUp, Awaiting, Here.retries_left > 0
  PROVE  DelaysFor(Here) \subseteq Nat
<1>1. i \in 1..Len(expected_responses) /\ Here \in Entry
  BY HereType DEF Awaiting
<1>2. /\ Here.retries_left \in Nat /\ Here.retry_attempt_index \in Nat
      /\ Here.retries_left + Here.retry_attempt_index = RetryAttempts
  BY <1>1, LenProperties DEF AttemptsAddUp, Here, Entry, QueueOK
<1>3. Here.retry_attempt_index + 1 \in 1..RetryAttempts
  BY <1>2, TimeAssumption
<1> QED
  BY <1>3, TimeAssumption DEF DelaysFor

LEMMA QueueTypeStep ==
  ASSUME TypeOK, AttemptsAddUp, [Next]_vars
  PROVE  QueueOK'
<1> USE DEF TypeOK
<1>len. Len(expected_responses) \in Nat
  BY LenProperties DEF QueueOK
<1>empty. <<>> \in Seq(Entry) /\ Len(<<>>) = 0
  BY EmptySeq
<1>remove. ASSUME NEW k \in 1..Len(expected_responses),
                  expected_responses' = SwapRemove(expected_responses, k),
                  UNCHANGED next_timeout_check
           PROVE  QueueOK'
  <2>1. /\ SwapRemove(expected_responses, k) \in Seq(Entry)
        /\ Len(SwapRemove(expected_responses, k)) = Len(expected_responses) - 1
    BY SwapRemoveFacts, <1>remove DEF QueueOK
  <2> QED
    BY <1>remove, <2>1, <1>len, NAssumption DEF QueueOK
<1>replace. ASSUME NEW k \in 1..Len(expected_responses), NEW e \in Entry,
                   expected_responses' = [expected_responses EXCEPT ![k] = e],
                   UNCHANGED next_timeout_check
            PROVE  QueueOK'
  BY <1>replace, ExceptSeq DEF QueueOK
<1>1. ASSUME NEW r \in Requests, Submit(r) PROVE QueueOK'
  <2>1. NewEntry(r) \in Entry
    BY NewEntryType
  <2>2. /\ Append(expected_responses, NewEntry(r)) \in Seq(Entry)
        /\ Len(Append(expected_responses, NewEntry(r))) = Len(expected_responses) + 1
    BY <2>1, AppendProperties DEF QueueOK
  <2> QED
    BY <1>1, <2>2, <1>len, NAssumption DEF Submit, QueueHasRoom, QueueOK
<1>2. CASE Disconnect \/ Reconnect \/ RecvLost
  <2>1. expected_responses' = <<>> /\ next_timeout_check' = None
    BY <1>2 DEF Disconnect, Reconnect, RecvLost, FailAllPending
  <2> QED
    BY <2>1, <1>empty, NAssumption DEF QueueOK
<1>3. ASSUME NEW k \in 1..N, DispatchResponse(k) PROVE QueueOK'
  <2>1. k \in 1..Len(expected_responses)
    BY <1>3, LenProperties DEF DispatchResponse, Position, QueueOK
  <2> QED
    BY <1>3, <2>1, <1>remove DEF DispatchResponse
<1>4. CASE RetrySendFailed \/ FailExhausted
  <2>1. i \in 1..Len(expected_responses)
    BY <1>4, HereType DEF RetrySendFailed, FailExhausted, RetryIsDue, Awaiting
  <2> QED
    BY <1>4, <2>1, <1>remove DEF RetrySendFailed, FailExhausted
<1>5. CASE SendDueRetry
  <2>1. i \in 1..Len(expected_responses) /\ Retried(Here) \in Entry
    BY <1>5, HereType, RetriedType DEF SendDueRetry, RetryIsDue
  <2>2. expected_responses' = [expected_responses EXCEPT ![i] = Retried(Here)]
    BY <1>5 DEF SendDueRetry, Here
  <2> QED
    BY <1>5, <2>1, <2>2, <1>replace DEF SendDueRetry
<1>6. CASE ScheduleNextRetry
  <2>1. i \in 1..Len(expected_responses) /\ Here \in Entry
    BY <1>6, HereType DEF ScheduleNextRetry, Awaiting
  <2>3. DelaysFor(Here) \subseteq Nat
    BY <1>6, DelayType DEF ScheduleNextRetry
  <2>4. PICK d \in DelaysFor(Here) :
          expected_responses' =
            [expected_responses EXCEPT ![i] = Scheduled(Here, current_millis + d)]
    BY <1>6 DEF ScheduleNextRetry, Here
  <2>5. current_millis + d \in Nat
    BY <2>3, <2>4 DEF PollOK
  <2> QED
    BY <1>6, <2>1, <2>4, <2>5, ScheduledType, <1>replace DEF ScheduleNextRetry
<1>7. CASE TimeoutsNothingPending \/ ScanEnd
  BY <1>7 DEF TimeoutsNothingPending, ScanEnd, QueueOK, PollOK
<1>8. CASE UNCHANGED queueVars
  BY <1>8 DEF queueVars, QueueOK
<1> QED
  BY <1>1, <1>2, <1>3, <1>4, <1>5, <1>6, <1>7, <1>8
     DEF Next, Step, Submission, StartPoll, Ingest, HandleTimeouts, Tick, vars, RefuseBroadcast,
         SendBroadcast, TooManyRequests, Connect, RecvOk, RecvNothing, IngestStop, DropUnmatched,
         Resync, TimeoutsFastPath, TimeoutsScan, RetryNotDue, WithinTimeout

LEMMA ShortSeq ==
  ASSUME NEW S
  PROVE  <<>> \in Seq(S) /\ \A e \in S : <<e>> \in Seq(S)
OBVIOUS

LEMMA ChunkType ==
  ASSUME LinkOK, NEW chunk \in Chunks \cup Interference
  PROVE  /\ chunk \in Seq(Pieces \cup {Noise})
         /\ Len(chunk) \in Nat \ {0}
         /\ chunk[Len(chunk)] \in Pieces \cup {Noise}
<1> DEFINE T == Pieces \cup {Noise}
<1>0. <<>> \in Seq(T) /\ \A e \in T : <<e>> \in Seq(T)
  BY ShortSeq
<1>1. cut # None => Whole(cut, "tail") \in T
  BY DEF LinkOK, Whole, Pieces
<1> HIDE DEF T
<1>2. \A x \in Rests : x \in Seq(T)
  BY <1>0, <1>1 DEF Rests
<1>3. \A y \in Answers : y \in Seq(T)
  BY <1>0 DEF T, Answers
<1>4. chunk \in Seq(T) /\ chunk # <<>>
  <2>1. CASE chunk \in Chunks
    <3>1. PICK x \in Rests, y \in Answers : chunk = x \o y
      BY <2>1 DEF Chunks
    <3>2. chunk # <<>>
      BY <2>1 DEF Chunks
    <3>3. x \in Seq(T) /\ y \in Seq(T)
      BY <1>2, <1>3
    <3> QED
      BY <3>1, <3>2, <3>3, ConcatProperties
  <2>2. CASE chunk \in Interference
    <3>1. chunk = <<Noise>>
      BY <2>2, Zenon DEF Interference
    <3>2. Noise \in T
      BY DEF T
    <3>3. chunk \in Seq(T)
      BY <3>1, <3>2, <1>0
    <3>4. Len(chunk) = 1
      BY <3>1
    <3> QED
      BY <3>3, <3>4, EmptySeq
  <2> QED
    BY <2>1, <2>2
<1>5. Len(chunk) \in Nat \ {0}
  BY <1>4, EmptySeq
<1> QED
  BY <1>4, <1>5, ElementOfSeq DEF T

LEMMA CompleteType ==
  ASSUME LinkOK
  PROVE  Complete \in 0..2
BY DEF Complete

(* A complete frame starts with a piece that carries a request.             *)
LEMMA FrontType ==
  ASSUME LinkOK, Complete > 0
  PROVE  rxed_frame[1] \in Pieces /\ rxed_frame[1].req \in Requests
<1>1. rxed_frame # <<>> /\ rxed_frame[1].part \in {"frame", "head"}
  BY DEF Complete
<1>2. Len(rxed_frame) \in Nat \ {0}
  BY <1>1, EmptySeq DEF LinkOK
<1>3. rxed_frame[1] \in Pieces \cup {Noise}
  BY <1>2, ElementOfSeq DEF LinkOK
<1> QED
  BY <1>1, <1>3 DEF Pieces, Noise

LEMMA LinkTypeStep ==
  ASSUME TypeOK, [Next]_vars
  PROVE  LinkOK'
<1> USE DEF TypeOK
<1>empty. <<>> \in Seq(Pieces \cup {Noise})
  BY EmptySeq
<1>1. ASSUME NEW r \in Requests, Submit(r) \/ SendBroadcast(r) PROVE LinkOK'
  BY <1>1 DEF Submit, SendBroadcast, SendOk, SendErr, LinkOK
<1>2. CASE Connect \/ Disconnect \/ Reconnect \/ RecvLost
  <2>1. rxed_frame' \in Seq(Pieces \cup {Noise})
    BY <1>2, <1>empty DEF Connect, Disconnect, Reconnect, RecvLost, LinkOK
  <2>2. PICK up \in BOOLEAN : FreshLink(up)
    BY <1>2 DEF Connect, Disconnect, Reconnect, RecvLost
  <2> QED
    BY <2>1, <2>2 DEF FreshLink, LinkOK
<1>3. ASSUME NEW chunk \in Chunks \cup Interference, RecvOk(chunk) PROVE LinkOK'
  <2>1. /\ chunk \in Seq(Pieces \cup {Noise})
        /\ chunk[Len(chunk)] \in Pieces \cup {Noise}
    BY <1>3, ChunkType
  <2>2. rxed_frame' \in Seq(Pieces \cup {Noise})
    BY <1>3, <2>1, <1>empty, ConcatProperties DEF RecvOk, AppendToRxedFrame, LinkOK
  <2>3. cut' \in Pieces \cup {None}
    BY <1>3, <2>1 DEF RecvOk, LinkOK, Noise
  <2> QED
    BY <1>3, <2>2, <2>3 DEF RecvOk, LinkOK
<1>4. ASSUME NEW k \in 1..N, DispatchResponse(k) PROVE LinkOK'
  <2>1. rxed_frame' \in Seq(Pieces \cup {Noise})
    BY <1>4, CompleteType, DrainFacts DEF DispatchResponse
  <2> QED
    BY <1>4, <2>1 DEF DispatchResponse, LinkOK
<1>5. CASE DropUnmatched \/ Resync
  <2>1. rxed_frame' \in Seq(Pieces \cup {Noise})
    BY <1>5, CompleteType, DrainFacts DEF DropUnmatched, Resync
  <2> QED
    BY <1>5, <2>1 DEF DropUnmatched, Resync, LinkOK
<1>6. CASE SendDueRetry \/ RetrySendFailed
  <2>1. CASE SendDueRetry
    <3>1. Here.req \in Requests
      BY <2>1, HereType DEF SendDueRetry, RetryIsDue, Entry
    <3> QED
      BY <2>1, <3>1 DEF SendDueRetry, SendOk, LinkOK
  <2>2. CASE RetrySendFailed
    BY <2>2 DEF RetrySendFailed, SendErr, LinkOK
  <2> QED
    BY <1>6, <2>1, <2>2
<1>7. CASE UNCHANGED linkVars
  BY <1>7 DEF linkVars, LinkOK
<1> QED
  BY <1>1, <1>2, <1>3, <1>4, <1>5, <1>6, <1>7
     DEF Next, Step, Submission, StartPoll, Ingest, HandleTimeouts, Tick, vars, RefuseBroadcast,
         TooManyRequests, RecvNothing, IngestStop, TimeoutsNothingPending, TimeoutsFastPath,
         TimeoutsScan, RetryNotDue, WithinTimeout, FailExhausted, ScheduleNextRetry, ScanEnd

LEMMA LowerType ==
  ASSUME PollOK, NEW t \in Nat, Lower(t)
  PROVE  new_next_check' \in Nat \cup {None}
BY DEF Lower, PollOK
LEMMA PollTypeStep ==
  ASSUME TypeOK, AttemptsAddUp, [Next]_vars
  PROVE  PollOK'
<1> USE DEF TypeOK
<1>low. ASSUME NEW t \in Nat, Lower(t), i' = i + 1, UNCHANGED <<pc, current_millis, now>>
        PROVE  PollOK'
  BY <1>low, LowerType DEF PollOK
<1>1. CASE RetryNotDue
  <2>1. Here.next_retry_timestamp \in Nat
    BY <1>1, HereType DEF RetryNotDue, Entry
  <2> QED
    BY <1>1, <2>1, <1>low DEF RetryNotDue
<1>2. CASE SendDueRetry
  <2>1. current_millis + ResponseTimeout \in Nat
    BY TimeAssumption DEF PollOK
  <2> QED
    BY <1>2, <2>1, <1>low DEF SendDueRetry
<1>3. CASE WithinTimeout
  <2>1. ExpiresAt(Here) \in Nat
    BY <1>3, HereType, TimeAssumption DEF WithinTimeout, Awaiting, Entry, ExpiresAt
  <2> QED
    BY <1>3, <2>1, <1>low DEF WithinTimeout
<1>4. CASE ScheduleNextRetry
  <2>1. DelaysFor(Here) \subseteq Nat
    BY <1>4, DelayType DEF ScheduleNextRetry
  <2>2. PICK d \in DelaysFor(Here) :
          IF d = 0 THEN UNCHANGED <<i, new_next_check>>
                   ELSE Lower(current_millis + d) /\ i' = i + 1
    BY <1>4 DEF ScheduleNextRetry
  <2>3. current_millis + d \in Nat
    BY <2>1, <2>2 DEF PollOK
  <2> QED
    BY <1>4, <2>2, <2>3, <1>low DEF ScheduleNextRetry, PollOK
<1>5. CASE TimeoutsNothingPending \/ TimeoutsFastPath \/ TimeoutsScan \/ ScanEnd
  BY <1>5 DEF TimeoutsNothingPending, TimeoutsFastPath, TimeoutsScan, ScanEnd, PollOK
<1>6. CASE RecvNothing \/ RecvLost \/ IngestStop \/ \E chunk \in Chunks \cup Interference : RecvOk(chunk)
  BY <1>6 DEF RecvNothing, RecvLost, IngestStop, RecvOk, PollOK
<1>7. CASE Tick
  BY <1>7 DEF Tick, PollOK, pollVars
<1>8. CASE UNCHANGED <<pollVars, now>>
  BY <1>8 DEF pollVars, PollOK
<1> QED
  BY <1>1, <1>2, <1>3, <1>4, <1>5, <1>6, <1>7, <1>8
     DEF Next, Step, Submission, StartPoll, Ingest, HandleTimeouts, vars, RefuseBroadcast,
         SendBroadcast, TooManyRequests, Submit, Connect, Disconnect, Reconnect, DispatchResponse,
         DropUnmatched, Resync, RetrySendFailed, FailExhausted

LEMMA NotifyType ==
  ASSUME AppOK, NEW r \in Requests, NEW result \in Result, NEW from \in Requests,
         Notify(r, result, from)
  PROVE  notified' \in [Requests -> Seq([result : Result, from : Requests])]
<1>1. [result |-> result, from |-> from] \in [result : Result, from : Requests]
  OBVIOUS
<1>2. Append(notified[r], [result |-> result, from |-> from])
        \in Seq([result : Result, from : Requests])
  BY <1>1, AppendProperties DEF AppOK
<1> QED
  BY <1>2 DEF Notify, AppOK

LEMMA AppTypeStep ==
  ASSUME TypeOK, [Next]_vars
  PROVE  AppOK'
<1> USE DEF TypeOK
<1>1. ASSUME NEW r \in Requests,
             RefuseBroadcast(r) \/ SendBroadcast(r) \/ TooManyRequests(r) \/ Submit(r)
      PROVE  AppOK'
  <2>1. notified' = notified
    BY <1>1 DEF RefuseBroadcast, SendBroadcast, TooManyRequests, Submit
  <2>2. PICK v \in Verdict : verdict' = [verdict EXCEPT ![r] = v]
    BY <1>1 DEF RefuseBroadcast, SendBroadcast, TooManyRequests, Submit, Verdict
  <2>3. transmissions' = [transmissions EXCEPT ![r] = @ + 1] \/ transmissions' = transmissions
    BY <1>1 DEF RefuseBroadcast, SendBroadcast, TooManyRequests, Submit, SendOk, SendErr
  <2>4. transmissions' \in [Requests -> Nat]
    <3>1. transmissions \in [Requests -> Nat]
      BY DEF AppOK
    <3>2. [transmissions EXCEPT ![r] = @ + 1] \in [Requests -> Nat]
      BY <3>1
    <3> QED
      BY <2>3, <3>1, <3>2
  <2> QED
    BY <2>1, <2>2, <2>4 DEF AppOK
<1>2. CASE Disconnect \/ Reconnect \/ RecvLost
  <2>1. \A r \in Requests :
          Append(notified[r], [result |-> "ConnectionLost", from |-> r])
            \in Seq([result : Result, from : Requests])
    <3> TAKE r \in Requests
    <3>1. [result |-> "ConnectionLost", from |-> r] \in [result : Result, from : Requests]
      BY DEF Result
    <3> QED
      BY <3>1, AppendProperties DEF AppOK
  <2>2. notified' \in [Requests -> Seq([result : Result, from : Requests])]
    BY <1>2, <2>1 DEF Disconnect, Reconnect, RecvLost, FailAllPending, AppOK
  <2> QED
    BY <1>2, <2>2 DEF Disconnect, Reconnect, RecvLost, AppOK
<1>3. ASSUME NEW k \in 1..N, DispatchResponse(k) PROVE AppOK'
  <2>1. k \in 1..Len(expected_responses)
    BY <1>3, LenProperties DEF DispatchResponse, Position, QueueOK
  <2>2. expected_responses[k].req \in Requests
    <3>1. expected_responses[k] \in Entry
      BY <2>1, ElementOfSeq DEF QueueOK
    <3> QED
      BY <3>1 DEF Entry
  <2>3. rxed_frame[1].req \in Requests
    BY <1>3, FrontType DEF DispatchResponse
  <2>4. PICK result \in Outcomes(expected_responses[k], rxed_frame[1]) :
          Notify(expected_responses[k].req, result, rxed_frame[1].req)
    BY <1>3 DEF DispatchResponse
  <2>5. result \in Result
    BY <2>4 DEF Outcomes, Result
  <2>6. notified' \in [Requests -> Seq([result : Result, from : Requests])]
    BY <2>2, <2>3, <2>4, <2>5, NotifyType
  <2> QED
    BY <1>3, <2>6 DEF DispatchResponse, AppOK
<1>4. CASE RetrySendFailed \/ FailExhausted
  <2>1. Here.req \in Requests
    BY <1>4, HereType DEF RetrySendFailed, FailExhausted, RetryIsDue, Awaiting, Entry
  <2>2. notified' \in [Requests -> Seq([result : Result, from : Requests])]
    BY <1>4, <2>1, NotifyType DEF RetrySendFailed, FailExhausted, Result
  <2> QED
    BY <1>4, <2>2 DEF RetrySendFailed, FailExhausted, SendErr, AppOK
<1>5. CASE SendDueRetry
  <2>1. Here.req \in Requests
    BY <1>5, HereType DEF SendDueRetry, RetryIsDue, Entry
  <2>2. transmissions' = [transmissions EXCEPT ![Here.req] = @ + 1]
    BY <1>5 DEF SendDueRetry, SendOk
  <2>3. transmissions' \in [Requests -> Nat]
    BY <2>1, <2>2 DEF AppOK
  <2> QED
    BY <1>5, <2>3 DEF SendDueRetry, AppOK
<1>6. CASE UNCHANGED appVars
  BY <1>6 DEF appVars, AppOK
<1> QED
  BY <1>1, <1>2, <1>3, <1>4, <1>5, <1>6
     DEF Next, Step, Submission, StartPoll, Ingest, HandleTimeouts, Tick, vars, Connect, RecvOk,
         RecvNothing, DropUnmatched, Resync, IngestStop, TimeoutsNothingPending, TimeoutsFastPath,
         TimeoutsScan, RetryNotDue, WithinTimeout, ScheduleNextRetry, ScanEnd

-----------------------------------------------------------------------------
(* The retry counters.                                                      *)

LEMMA AttemptsStep ==
  ASSUME TypeOK, AttemptsAddUp, [Next]_vars
  PROVE  AttemptsAddUp'
<1> USE DEF TypeOK
<1> DEFINE Fine(e) == /\ e.retries_left + e.retry_attempt_index = RetryAttempts
                      /\ e.next_retry_timestamp # None => e.retries_left > 0
<1>len. /\ Len(expected_responses) \in Nat
        /\ DOMAIN expected_responses = 1..Len(expected_responses)
  BY LenProperties DEF QueueOK
<1>fine. \A k \in 1..Len(expected_responses) : Fine(expected_responses[k])
  BY <1>len DEF AttemptsAddUp
<1>remove. ASSUME NEW k \in 1..Len(expected_responses),
                  expected_responses' = SwapRemove(expected_responses, k)
           PROVE  AttemptsAddUp'
  <2>1. /\ DOMAIN expected_responses' = 1..(Len(expected_responses) - 1)
        /\ \A j \in 1..(Len(expected_responses) - 1) :
             expected_responses'[j] = IF j = k THEN expected_responses[Len(expected_responses)]
                                              ELSE expected_responses[j]
    BY <1>remove, SwapRemoveFacts DEF QueueOK
  <2>2. \A j \in DOMAIN expected_responses' : Fine(expected_responses'[j])
    BY <2>1, <1>fine, <1>len
  <2> QED
    BY <2>2 DEF AttemptsAddUp
<1>replace. ASSUME NEW k \in 1..Len(expected_responses), NEW e, Fine(e),
                   expected_responses' = [expected_responses EXCEPT ![k] = e]
            PROVE  AttemptsAddUp'
  <2>1. \A j \in DOMAIN expected_responses' : Fine(expected_responses'[j])
    BY <1>replace, <1>fine, <1>len
  <2> QED
    BY <2>1 DEF AttemptsAddUp
<1>1. ASSUME NEW r \in Requests, Submit(r) PROVE AttemptsAddUp'
  <2>1. NewEntry(r) \in Entry /\ Fine(NewEntry(r))
    BY NewEntryType, TimeAssumption DEF NewEntry
  <2>2. /\ DOMAIN expected_responses' = 1..(Len(expected_responses) + 1)
        /\ \A j \in 1..Len(expected_responses) : expected_responses'[j] = expected_responses[j]
        /\ expected_responses'[Len(expected_responses) + 1] = NewEntry(r)
    BY <1>1, <2>1, <1>len, AppendProperties, LenProperties DEF Submit, QueueOK
  <2>3. \A j \in DOMAIN expected_responses' : Fine(expected_responses'[j])
    BY <2>1, <2>2, <1>fine, <1>len
  <2> QED
    BY <2>3 DEF AttemptsAddUp
<1>2. CASE Disconnect \/ Reconnect \/ RecvLost
  <2>1. expected_responses' = <<>>
    BY <1>2 DEF Disconnect, Reconnect, RecvLost, FailAllPending
  <2> QED
    BY <2>1 DEF AttemptsAddUp
<1>3. ASSUME NEW k \in 1..N, DispatchResponse(k) PROVE AttemptsAddUp'
  BY <1>3, <1>len, <1>remove DEF DispatchResponse, Position
<1>4. CASE RetrySendFailed \/ FailExhausted
  <2>1. i \in 1..Len(expected_responses)
    BY <1>4, HereType DEF RetrySendFailed, FailExhausted, RetryIsDue, Awaiting
  <2> QED
    BY <1>4, <2>1, <1>remove DEF RetrySendFailed, FailExhausted
<1>5. CASE SendDueRetry
  <2>1. i \in 1..Len(expected_responses) /\ Here \in Entry
    BY <1>5, HereType DEF SendDueRetry, RetryIsDue
  <2>2. Fine(Here) /\ Here.next_retry_timestamp # None
    BY <1>5, <2>1, <1>fine DEF Here, SendDueRetry, RetryIsDue
  <2>3. Fine(Retried(Here))
    BY <2>1, <2>2, TimeAssumption DEF Retried, Entry
  <2>4. expected_responses' = [expected_responses EXCEPT ![i] = Retried(Here)]
    BY <1>5 DEF SendDueRetry, Here
  <2> QED
    BY <2>1, <2>3, <2>4, <1>replace
<1>6. CASE ScheduleNextRetry
  <2>1. i \in 1..Len(expected_responses) /\ Here \in Entry
    BY <1>6, HereType DEF ScheduleNextRetry, Awaiting
  <2>2. Fine(Here) /\ Here.retries_left > 0
    BY <1>6, <2>1, <1>fine DEF Here, ScheduleNextRetry
  <2>3. PICK d : expected_responses' =
            [expected_responses EXCEPT ![i] = Scheduled(Here, current_millis + d)]
    BY <1>6 DEF ScheduleNextRetry, Here
  <2>4. Fine(Scheduled(Here, current_millis + d))
    BY <2>1, <2>2 DEF Scheduled, Entry
  <2> QED
    BY <2>1, <2>3, <2>4, <1>replace
<1>7. CASE UNCHANGED expected_responses
  BY <1>7 DEF AttemptsAddUp
<1> QED
  BY <1>1, <1>2, <1>3, <1>4, <1>5, <1>6, <1>7
     DEF Next, Step, Submission, StartPoll, Ingest, HandleTimeouts, Tick, vars, queueVars,
         RefuseBroadcast, SendBroadcast, TooManyRequests, Connect, RecvOk, RecvNothing, IngestStop,
         DropUnmatched, Resync, TimeoutsNothingPending, TimeoutsFastPath, TimeoutsScan,
         RetryNotDue, WithinTimeout, ScanEnd

LEMMA InitType == Init => TypeOK /\ AttemptsAddUp
<1> SUFFICES ASSUME Init PROVE TypeOK /\ AttemptsAddUp
  OBVIOUS
<1>1. QueueOK /\ AttemptsAddUp
  BY EmptySeq, NAssumption DEF Init, QueueOK, AttemptsAddUp
<1>2. LinkOK
  BY EmptySeq DEF Init, LinkOK
<1>3. PollOK
  BY DEF Init, PollOK
<1>4. AppOK
  BY EmptySeq DEF Init, AppOK, Verdict
<1> QED
  BY <1>1, <1>2, <1>3, <1>4 DEF TypeOK

(* Types hold in every reachable state, and the retries left and the        *)
(* retries made of a pending request always add up to retry_attempts: so a  *)
(* delay is only ever asked for attempts 1..retry_attempts.                 *)
THEOREM TypeCorrect == Spec => [](TypeOK /\ AttemptsAddUp)
<1>1. Init => TypeOK /\ AttemptsAddUp
  BY InitType
<1>2. TypeOK /\ AttemptsAddUp /\ [Next]_vars => TypeOK' /\ AttemptsAddUp'
  BY QueueTypeStep, LinkTypeStep, PollTypeStep, AppTypeStep, AttemptsStep DEF TypeOK
<1> QED
  BY <1>1, <1>2, PTL DEF Spec

-----------------------------------------------------------------------------
(* Exactly one outcome per request.                                         *)

(* Removing slot k and reporting its request once keeps the accounts.       *)
LEMMA RemoveAndNotify ==
  ASSUME TypeOK, ExactlyOneOutcome, NEW k \in 1..Len(expected_responses),
         expected_responses' = SwapRemove(expected_responses, k),
         NEW result, NEW from, Notify(expected_responses[k].req, result, from),
         UNCHANGED verdict
  PROVE  ExactlyOneOutcome'
<1> DEFINE q == expected_responses
           n == Len(expected_responses)
           x == expected_responses[k].req
<1>len. n \in Nat /\ DOMAIN q = 1..n /\ \A j \in 1..n : q[j] \in Entry /\ q[j].req \in Requests
  <2>1. n \in Nat /\ DOMAIN q = 1..n
    BY LenProperties DEF TypeOK, QueueOK
  <2>2. \A j \in 1..n : q[j] \in Entry
    BY ElementOfSeq DEF TypeOK, QueueOK
  <2> QED
    BY <2>1, <2>2 DEF Entry
<1>new. /\ DOMAIN q' = 1..(n - 1)
        /\ \A j \in 1..(n - 1) : q'[j] = IF j = k THEN q[n] ELSE q[j]
  BY SwapRemoveFacts DEF TypeOK, QueueOK
<1>uniq. \A j, l \in 1..n : q[j].req = q[l].req => j = l
  BY <1>len DEF ExactlyOneOutcome
<1>1. \A r \in Requests : Queued(r)' <=> Queued(r) /\ r # x
  <2> TAKE r \in Requests
  <2>1. ASSUME Queued(r)' PROVE Queued(r) /\ r # x
    <3>1. PICK j \in 1..(n - 1) : q'[j].req = r
      BY <2>1, <1>new DEF Queued
    <3>2. CASE j = k
      BY <3>1, <3>2, <1>new, <1>len, <1>uniq DEF Queued
    <3>3. CASE j # k
      BY <3>1, <3>3, <1>new, <1>len, <1>uniq DEF Queued
    <3> QED
      BY <3>2, <3>3
  <2>2. ASSUME Queued(r), r # x PROVE Queued(r)'
    <3>1. PICK j \in 1..n : q[j].req = r
      BY <2>2, <1>len DEF Queued
    <3>2. j # k
      BY <3>1, <2>2
    <3>3. CASE j = n
      <4>1. k \in 1..(n - 1) /\ q'[k] = q[n]
        BY <3>2, <3>3, <1>len, <1>new
      <4> QED
        BY <4>1, <3>1, <3>3, <1>new DEF Queued
    <3>4. CASE j # n
      <4>1. j \in 1..(n - 1)
        <5> HIDE DEF n
        <5> QED
          BY <3>1, <3>4, <1>len
      <4>2. q'[j] = q[j]
        BY <4>1, <3>2, <1>new
      <4> QED
        BY <4>1, <4>2, <3>1, <1>new DEF Queued
    <3> QED
      BY <3>3, <3>4
  <2> QED
    BY <2>1, <2>2
<1>2. \A j, l \in DOMAIN q' : q'[j].req = q'[l].req => j = l
  BY <1>new, <1>len, <1>uniq
<1>3. Queued(x) /\ Registered(x) /\ notified[x] = <<>> /\ x \in Requests
  BY <1>len DEF Queued, ExactlyOneOutcome
<1>4. /\ \A r \in Requests : r # x => notified'[r] = notified[r]
      /\ notified'[x] = Append(<<>>, [result |-> result, from |-> from])
  BY <1>3 DEF Notify, TypeOK, AppOK
<1>5. notified'[x] # <<>> /\ Len(notified'[x]) = 1
  BY <1>4
<1>6. \A r \in Requests : Registered(r)' <=> Registered(r)
  BY DEF Registered
<1>7. \A r \in Requests : Len(notified'[r]) <= 1
  <2> TAKE r \in Requests
  <2>1. CASE r = x
    BY <2>1, <1>5
  <2>2. CASE r # x
    <3>1. notified'[r] = notified[r] /\ Len(notified[r]) <= 1
      BY <2>2, <1>4 DEF ExactlyOneOutcome
    <3> QED
      BY <3>1
  <2> QED
    BY <2>1, <2>2
<1>8. \A r \in Requests : IF Registered(r)' THEN Queued(r)' <=> notified'[r] = <<>>
                                            ELSE ~Queued(r)' /\ notified'[r] = <<>>
  <2> TAKE r \in Requests
  <2>1. CASE r = x
    <3>1. Registered(r)' /\ ~Queued(r)' /\ notified'[r] # <<>>
      BY <2>1, <1>1, <1>3, <1>5, <1>6
    <3> QED
      BY <3>1
  <2>2. CASE r # x
    <3>1. (Queued(r)' <=> Queued(r)) /\ (Registered(r)' <=> Registered(r))
      BY <2>2, <1>1, <1>6
    <3>2. notified'[r] = notified[r]
      BY <2>2, <1>4
    <3> QED
      BY <3>1, <3>2 DEF ExactlyOneOutcome
  <2> QED
    BY <2>1, <2>2
<1> QED
  BY <1>2, <1>7, <1>8 DEF ExactlyOneOutcome

LEMMA ReplaceKeepsOutcome ==
  ASSUME TypeOK, ExactlyOneOutcome, NEW k \in 1..Len(expected_responses), NEW e,
         e.req = expected_responses[k].req,
         expected_responses' = [expected_responses EXCEPT ![k] = e],
         UNCHANGED <<verdict, notified>>
  PROVE  ExactlyOneOutcome'
<1>1. DOMAIN expected_responses' = DOMAIN expected_responses
  OBVIOUS
<1>2. \A j \in DOMAIN expected_responses' :
        expected_responses'[j].req = expected_responses[j].req
  OBVIOUS
<1>3. \A r \in Requests : Queued(r)' <=> Queued(r)
  BY <1>1, <1>2 DEF Queued
<1> QED
  BY <1>1, <1>2, <1>3 DEF ExactlyOneOutcome, Registered

LEMMA OutcomeStep ==
  ASSUME TypeOK, AttemptsAddUp, ExactlyOneOutcome, [Next]_vars
  PROVE  ExactlyOneOutcome'
<1>len. /\ Len(expected_responses) \in Nat
        /\ DOMAIN expected_responses = 1..Len(expected_responses)
  BY LenProperties DEF TypeOK, QueueOK
<1>1. ASSUME NEW r \in Requests, RefuseBroadcast(r) \/ SendBroadcast(r) \/ TooManyRequests(r)
      PROVE  ExactlyOneOutcome'
  <2>1. UNCHANGED <<expected_responses, notified>> /\ verdict[r] = "new"
    BY <1>1 DEF RefuseBroadcast, SendBroadcast, TooManyRequests, queueVars
  <2>2. PICK v \in Verdict : verdict' = [verdict EXCEPT ![r] = v]
    BY <1>1 DEF RefuseBroadcast, SendBroadcast, TooManyRequests, Verdict
  <2>3. r.unit = BROADCAST \/ v \notin {"Ok", "SendFailed"}
    BY <1>1, <2>2 DEF RefuseBroadcast, SendBroadcast, TooManyRequests, TypeOK, AppOK
  <2>4. \A s \in Requests : Registered(s)' <=> Registered(s)
    BY <2>1, <2>2, <2>3 DEF Registered, TypeOK, AppOK
  <2> QED
    BY <2>1, <2>4 DEF ExactlyOneOutcome, Queued
<1>2. ASSUME NEW r \in Requests, Submit(r) PROVE ExactlyOneOutcome'
  <2> DEFINE q == expected_responses
             n == Len(expected_responses)
  <2>1. NewEntry(r) \in Entry /\ NewEntry(r).req = r
    BY NewEntryType DEF NewEntry, TypeOK
  <2>2. /\ DOMAIN q' = 1..(n + 1)
        /\ \A j \in 1..n : q'[j] = q[j]
        /\ q'[n + 1] = NewEntry(r)
    BY <1>2, <2>1, <1>len, AppendProperties, LenProperties DEF Submit, TypeOK, QueueOK
  <2>3. verdict[r] = "new" /\ ~Registered(r) /\ ~Queued(r) /\ notified[r] = <<>>
    BY <1>2 DEF Submit, Registered, ExactlyOneOutcome
  <2>4. PICK v \in {"Ok", "SendFailed"} : verdict' = [verdict EXCEPT ![r] = v]
    BY <1>2 DEF Submit
  <2>5. Registered(r)' /\ \A s \in Requests : s # r => (Registered(s)' <=> Registered(s))
    BY <1>2, <2>4 DEF Registered, Submit, TypeOK, AppOK
  <2>6. Queued(r)' /\ \A s \in Requests : s # r => (Queued(s)' <=> Queued(s))
    BY <2>1, <2>2, <1>len DEF Queued
  <2>7. \A j, l \in DOMAIN q' : q'[j].req = q'[l].req => j = l
    BY <2>1, <2>2, <2>3, <1>len DEF Queued, ExactlyOneOutcome
  <2>8. notified' = notified
    BY <1>2 DEF Submit
  <2> QED
    BY <2>3, <2>5, <2>6, <2>7, <2>8 DEF ExactlyOneOutcome
<1>3. CASE Disconnect \/ Reconnect \/ RecvLost
  <2>1. /\ expected_responses' = <<>> /\ verdict' = verdict
        /\ notified' = [r \in Requests |->
             IF Queued(r) THEN Append(notified[r], [result |-> "ConnectionLost", from |-> r])
                          ELSE notified[r]]
    BY <1>3 DEF Disconnect, Reconnect, RecvLost, FailAllPending
  <2>2. \A r \in Requests : ~Queued(r)'
    BY <2>1 DEF Queued
  <2>3. \A r \in Requests : Queued(r) => notified[r] = <<>> /\ Registered(r)
    BY DEF ExactlyOneOutcome
  <2>4. \A r \in Requests : Len(notified'[r]) <= 1
    BY <2>1, <2>3 DEF ExactlyOneOutcome
  <2>5. \A r \in Requests : IF Registered(r) THEN notified'[r] # <<>> ELSE notified'[r] = <<>>
    <3> TAKE r \in Requests
    <3>1. CASE Queued(r)
      <4>1. notified'[r] = Append(<<>>, [result |-> "ConnectionLost", from |-> r])
        BY <2>1, <2>3, <3>1
      <4>2. notified'[r] # <<>>
        BY <4>1
      <4>3. Registered(r)
        BY <2>3, <3>1
      <4> QED
        BY <4>2, <4>3
    <3>2. CASE ~Queued(r)
      BY <2>1, <3>2 DEF ExactlyOneOutcome
    <3> QED
      BY <3>1, <3>2
  <2> QED
    BY <2>1, <2>2, <2>4, <2>5 DEF ExactlyOneOutcome, Registered
<1>4. ASSUME NEW k \in 1..N, DispatchResponse(k) PROVE ExactlyOneOutcome'
  <2>1. k \in 1..Len(expected_responses)
    BY <1>4, <1>len DEF DispatchResponse, Position
  <2>2. PICK result : Notify(expected_responses[k].req, result, rxed_frame[1].req)
    BY <1>4 DEF DispatchResponse
  <2> QED
    BY <1>4, <2>1, <2>2, RemoveAndNotify DEF DispatchResponse
<1>5. CASE RetrySendFailed \/ FailExhausted
  <2>1. i \in 1..Len(expected_responses)
    BY <1>5, HereType DEF RetrySendFailed, FailExhausted, RetryIsDue, Awaiting, TypeOK
  <2>2. /\ expected_responses' = SwapRemove(expected_responses, i)
        /\ UNCHANGED verdict
    BY <1>5 DEF RetrySendFailed, FailExhausted
  <2>3. CASE RetrySendFailed
    <3>1. Notify(expected_responses[i].req, "SendFailed", expected_responses[i].req)
      BY <2>3 DEF RetrySendFailed, Here
    <3> QED
      BY <2>1, <2>2, <3>1, RemoveAndNotify
  <2>4. CASE FailExhausted
    <3>1. Notify(expected_responses[i].req, "NoRetriesLeft", expected_responses[i].req)
      BY <2>4 DEF FailExhausted, Here
    <3> QED
      BY <2>1, <2>2, <3>1, RemoveAndNotify
  <2> QED
    BY <1>5, <2>3, <2>4
<1>6. CASE SendDueRetry
  <2>1. i \in 1..Len(expected_responses)
    BY <1>6, HereType DEF SendDueRetry, RetryIsDue, TypeOK
  <2>2. /\ expected_responses' = [expected_responses EXCEPT ![i] = Retried(Here)]
        /\ Retried(Here).req = expected_responses[i].req
    BY <1>6 DEF SendDueRetry, Here, Retried
  <2> QED
    BY <1>6, <2>1, <2>2, ReplaceKeepsOutcome DEF SendDueRetry
<1>7. CASE ScheduleNextRetry
  <2>1. i \in 1..Len(expected_responses) /\ Here \in Entry
    BY <1>7, HereType DEF ScheduleNextRetry, Awaiting, TypeOK
  <2>2. PICK d : expected_responses' =
            [expected_responses EXCEPT ![i] = Scheduled(Here, current_millis + d)]
    BY <1>7 DEF ScheduleNextRetry, Here
  <2>3. Scheduled(Here, current_millis + d).req = expected_responses[i].req
    BY <2>1 DEF Scheduled, Entry, Here
  <2> QED
    BY <1>7, <2>1, <2>2, <2>3, ReplaceKeepsOutcome DEF ScheduleNextRetry, appVars
<1>8. CASE UNCHANGED <<expected_responses, verdict, notified>>
  BY <1>8 DEF ExactlyOneOutcome, Registered, Queued
<1> QED
  BY <1>1, <1>2, <1>3, <1>4, <1>5, <1>6, <1>7, <1>8
     DEF Next, Step, Submission, StartPoll, Ingest, HandleTimeouts, Tick, vars, queueVars, appVars,
         Connect, RecvOk, RecvNothing, IngestStop, DropUnmatched, Resync, TimeoutsNothingPending,
         TimeoutsFastPath, TimeoutsScan, RetryNotDue, WithinTimeout, ScanEnd

(* Every request the client takes on is reported to the application exactly *)
(* once, and a request that is still pending has not been reported.         *)
THEOREM OutcomeOnce == Spec => []ExactlyOneOutcome
<1>1. Init => ExactlyOneOutcome
  BY DEF Init, ExactlyOneOutcome, Registered, Queued
<1>2. TypeOK /\ AttemptsAddUp /\ ExactlyOneOutcome /\ [Next]_vars => ExactlyOneOutcome'
  BY OutcomeStep
<1> QED
  BY <1>1, <1>2, TypeCorrect, PTL DEF Spec

-----------------------------------------------------------------------------
(* The retry budget.                                                        *)

(* The pending requests, and what is known of the slots of the table.       *)
LEMMA TableFacts ==
  ASSUME TypeOK
  PROVE  /\ Len(expected_responses) \in Nat
         /\ DOMAIN expected_responses = 1..Len(expected_responses)
         /\ \A k \in 1..Len(expected_responses) :
              expected_responses[k] \in Entry /\ expected_responses[k].req \in Requests
<1>1. \A k \in 1..Len(expected_responses) : expected_responses[k] \in Entry
  BY ElementOfSeq DEF TypeOK, QueueOK
<1> QED
  BY <1>1, LenProperties DEF TypeOK, QueueOK, Entry

(* What is left in the table after a removal was there before.              *)
LEMMA RemovedFrom ==
  ASSUME TypeOK, NEW k \in 1..Len(expected_responses),
         expected_responses' = SwapRemove(expected_responses, k)
  PROVE  \A j \in DOMAIN expected_responses' :
           \E l \in DOMAIN expected_responses : expected_responses'[j] = expected_responses[l]
<1>1. /\ DOMAIN expected_responses' = 1..(Len(expected_responses) - 1)
      /\ \A j \in 1..(Len(expected_responses) - 1) :
           expected_responses'[j] = IF j = k THEN expected_responses[Len(expected_responses)]
                                             ELSE expected_responses[j]
  BY SwapRemoveFacts DEF TypeOK, QueueOK
<1> QED
  BY <1>1, TableFacts

(* A request is put on the wire only once it is submitted.                  *)
NewUnsent == \A r \in Requests : verdict[r] = "new" => transmissions[r] = 0

LEMMA BudgetStep ==
  ASSUME TypeOK, AttemptsAddUp, ExactlyOneOutcome, NewUnsent, RetryBudget, [Next]_vars
  PROVE  NewUnsent' /\ RetryBudget'
<1> DEFINE q == expected_responses
           Fair(e) == transmissions[e.req] = FirstSend(e.req) + e.retry_attempt_index
           Within == \A r \in Requests : transmissions[r] <= FirstSend(r) + RetryAttempts
           Spent == \A r \in Requests : \A k \in DOMAIN notified[r] :
                      notified[r][k].result = "NoRetriesLeft"
                        => transmissions[r] = FirstSend(r) + RetryAttempts
<1>att. AttemptsAddUp'
  BY AttemptsStep
<1>tbl. /\ Len(q) \in Nat /\ DOMAIN q = 1..Len(q)
        /\ \A k \in 1..Len(q) : q[k] \in Entry /\ q[k].req \in Requests
  BY TableFacts
<1>old. (\A k \in DOMAIN q : Fair(q[k])) /\ Within /\ Spent
  BY DEF RetryBudget
<1>suf. ASSUME \A k \in DOMAIN q' : Fair(q[k])', Within', Spent'
        PROVE  RetryBudget'
  BY <1>suf, <1>att DEF RetryBudget
<1>app. /\ transmissions \in [Requests -> Nat] /\ verdict \in [Requests -> Verdict]
        /\ DOMAIN notified = Requests
  BY DEF TypeOK, AppOK
<1>new. \A r \in Requests : verdict[r] = "new" =>
          transmissions[r] = 0 /\ notified[r] = <<>> /\ \A k \in DOMAIN q : q[k].req # r
  BY DEF NewUnsent, ExactlyOneOutcome, Registered, Queued
<1>1. ASSUME NEW r \in Requests, RefuseBroadcast(r) \/ SendBroadcast(r) \/ TooManyRequests(r)
      PROVE  NewUnsent' /\ RetryBudget'
  <2>1. UNCHANGED <<expected_responses, notified>> /\ verdict[r] = "new"
    BY <1>1 DEF RefuseBroadcast, SendBroadcast, TooManyRequests, queueVars
  <2>2. PICK v \in Verdict \ {"new"} : verdict' = [verdict EXCEPT ![r] = v]
    BY <1>1 DEF RefuseBroadcast, SendBroadcast, TooManyRequests, Verdict
  <2>3. \/ transmissions' = transmissions
        \/ transmissions' = [transmissions EXCEPT ![r] = @ + 1] /\ v = "Ok"
    BY <1>1, <2>2, <1>app DEF RefuseBroadcast, SendBroadcast, TooManyRequests, SendErr
  <2>4. /\ \A s \in Requests \ {r} : transmissions'[s] = transmissions[s] /\ verdict'[s] = verdict[s]
        /\ verdict'[r] = v /\ transmissions'[r] = (IF transmissions' = transmissions THEN 0 ELSE 1)
        /\ v = "Ok" \/ transmissions' = transmissions
    BY <2>1, <2>2, <2>3, <1>app, <1>new
  <2>5. NewUnsent'
    BY <2>2, <2>4 DEF NewUnsent
  <2>6. \A k \in DOMAIN q' : Fair(q[k])'
    BY <2>1, <2>4, <1>old, <1>tbl, <1>new DEF FirstSend
  <2>7. Within' /\ Spent'
    BY <2>1, <2>4, <1>old, <1>new, TimeAssumption DEF FirstSend
  <2> QED
    BY <2>5, <2>6, <2>7, <1>suf
<1>2. ASSUME NEW r \in Requests, Submit(r) PROVE NewUnsent' /\ RetryBudget'
  <2>1. verdict[r] = "new" /\ notified' = notified
    BY <1>2 DEF Submit
  <2>2. NewEntry(r) \in Entry /\ NewEntry(r).req = r /\ NewEntry(r).retry_attempt_index = 0
    BY NewEntryType DEF NewEntry, TypeOK
  <2>3. /\ DOMAIN q' = 1..(Len(q) + 1)
        /\ \A j \in 1..Len(q) : q'[j] = q[j]
        /\ q'[Len(q) + 1] = NewEntry(r)
    BY <1>2, <2>2, <1>tbl, AppendProperties, LenProperties DEF Submit, TypeOK, QueueOK
  <2>4. \/ /\ verdict' = [verdict EXCEPT ![r] = "Ok"]
           /\ transmissions' = [transmissions EXCEPT ![r] = @ + 1]
        \/ verdict' = [verdict EXCEPT ![r] = "SendFailed"] /\ transmissions' = transmissions
    BY <1>2 DEF Submit, SendOk, SendErr
  <2>5. /\ \A s \in Requests \ {r} : transmissions'[s] = transmissions[s] /\ verdict'[s] = verdict[s]
        /\ verdict'[r] # "new" /\ transmissions'[r] = FirstSend(r)'
        /\ FirstSend(r)' \in {0, 1}
    BY <2>1, <2>4, <1>app, <1>new DEF FirstSend
  <2>6. NewUnsent'
    BY <2>5 DEF NewUnsent
  <2>7. \A k \in DOMAIN q' : Fair(q[k])'
    BY <2>1, <2>2, <2>3, <2>5, <1>old, <1>tbl, <1>new DEF FirstSend
  <2>8. Within' /\ Spent'
    BY <2>1, <2>5, <1>old, <1>new, TimeAssumption DEF FirstSend
  <2> QED
    BY <2>6, <2>7, <2>8, <1>suf
<1>3. CASE Disconnect \/ Reconnect \/ RecvLost
  <2>1. /\ expected_responses' = <<>> /\ UNCHANGED <<verdict, transmissions>>
        /\ \A r \in Requests : notified'[r] =
             IF Queued(r) THEN Append(notified[r], [result |-> "ConnectionLost", from |-> r])
                          ELSE notified[r]
    BY <1>3 DEF Disconnect, Reconnect, RecvLost, FailAllPending
  <2>2. \A r \in Requests : Queued(r) => notified[r] = <<>>
    BY DEF ExactlyOneOutcome
  <2>3. Spent'
    <3>1. ASSUME NEW r \in Requests, NEW k \in DOMAIN notified'[r],
                 notified'[r][k].result = "NoRetriesLeft"
          PROVE  ~Queued(r)
      <4>1. SUFFICES ASSUME Queued(r) PROVE FALSE
        OBVIOUS
      <4>2. notified'[r] = Append(<<>>, [result |-> "ConnectionLost", from |-> r])
        BY <2>1, <2>2, <4>1
      <4> QED
        BY <4>2, <3>1
    <3> QED
      BY <2>1, <3>1, <1>old DEF FirstSend
  <2>4. NewUnsent' /\ Within' /\ \A k \in DOMAIN q' : Fair(q[k])'
    BY <2>1, <1>old DEF NewUnsent, FirstSend
  <2> QED
    BY <2>3, <2>4, <1>suf
<1>rem. ASSUME NEW k \in 1..Len(q), q' = SwapRemove(q, k), UNCHANGED <<verdict, transmissions>>,
               NEW result, NEW from, Notify(q[k].req, result, from),
               result = "NoRetriesLeft" => q[k].retry_attempt_index = RetryAttempts
        PROVE  NewUnsent' /\ RetryBudget'
  <2>1. \A j \in DOMAIN q' : Fair(q[j])'
    BY <1>rem, <1>old, RemovedFrom DEF FirstSend
  <2>2. q[k].req \in Requests /\ notified[q[k].req] = <<>>
    BY <1>rem, <1>tbl DEF ExactlyOneOutcome, Queued
  <2>3. /\ \A r \in Requests \ {q[k].req} : notified'[r] = notified[r]
        /\ notified'[q[k].req] = <<[result |-> result, from |-> from]>>
    BY <1>rem, <2>2, <1>app DEF Notify
  <2>4. result = "NoRetriesLeft" =>
          transmissions[q[k].req] = FirstSend(q[k].req) + RetryAttempts
    BY <1>rem, <1>old, <1>tbl
  <2>5. Spent'
    <3>1. ASSUME NEW r \in Requests, NEW j \in DOMAIN notified'[r],
                 notified'[r][j].result = "NoRetriesLeft"
          PROVE  transmissions[r] = FirstSend(r) + RetryAttempts
      <4>1. CASE r = q[k].req
        BY <4>1, <3>1, <2>3, <2>4
      <4>2. CASE r # q[k].req
        BY <4>2, <3>1, <2>3, <1>old
      <4> QED
        BY <4>1, <4>2
    <3> QED
      BY <3>1, <1>rem DEF FirstSend
  <2>6. NewUnsent' /\ Within'
    BY <1>rem, <1>old DEF NewUnsent, FirstSend
  <2> QED
    BY <2>1, <2>5, <2>6, <1>suf
<1>4. ASSUME NEW k \in 1..N, DispatchResponse(k) PROVE NewUnsent' /\ RetryBudget'
  <2>1. k \in 1..Len(q) /\ q' = SwapRemove(q, k) /\ UNCHANGED <<verdict, transmissions>>
    BY <1>4, <1>tbl DEF DispatchResponse, Position
  <2>2. PICK result \in Outcomes(q[k], rxed_frame[1]) : Notify(q[k].req, result, rxed_frame[1].req)
    BY <1>4 DEF DispatchResponse
  <2>3. result # "NoRetriesLeft"
    BY <2>2 DEF Outcomes
  <2>4. result = "NoRetriesLeft" => q[k].retry_attempt_index = RetryAttempts
    BY <2>3
  <2> HIDE DEF q
  <2> QED
    BY <2>1, <2>2, <2>4, <1>rem, Zenon
<1>5. CASE RetrySendFailed
  <2>1. i \in 1..Len(q)
    BY <1>5, HereType DEF RetrySendFailed, RetryIsDue, TypeOK
  <2>2. /\ q' = SwapRemove(q, i) /\ UNCHANGED <<verdict, transmissions>>
        /\ Notify(q[i].req, "SendFailed", q[i].req)
    BY <1>5 DEF RetrySendFailed, SendErr, Here
  <2> QED
    BY <2>1, <2>2, <1>rem
<1>6. CASE FailExhausted
  <2>1. i \in 1..Len(q)
    BY <1>6, HereType DEF FailExhausted, Awaiting, TypeOK
  <2>2. /\ q' = SwapRemove(q, i) /\ UNCHANGED <<verdict, transmissions>>
        /\ Notify(q[i].req, "NoRetriesLeft", q[i].req) /\ q[i].retries_left = 0
    BY <1>6 DEF FailExhausted, Here
  <2>3. q[i].retry_attempt_index = RetryAttempts
    BY <2>1, <2>2, <1>tbl, TimeAssumption DEF AttemptsAddUp, Entry
  <2> QED
    BY <2>1, <2>2, <2>3, <1>rem
<1>7. CASE SendDueRetry
  <2>1. i \in 1..Len(q) /\ Here \in Entry
    BY <1>7, HereType DEF SendDueRetry, RetryIsDue, TypeOK
  <2>2. /\ q' = [q EXCEPT ![i] = Retried(q[i])] /\ UNCHANGED <<verdict, notified>>
        /\ transmissions' = [transmissions EXCEPT ![q[i].req] = @ + 1]
        /\ q[i].next_retry_timestamp # None
    BY <1>7 DEF SendDueRetry, RetryIsDue, SendOk, Here
  <2>3. /\ q[i].req \in Requests /\ notified[q[i].req] = <<>> /\ verdict[q[i].req] # "new"
        /\ q[i].retry_attempt_index + 1 <= RetryAttempts
    <3>1. q[i].req \in Requests /\ Queued(q[i].req)
      BY <2>1, <1>tbl DEF Queued
    <3>2. notified[q[i].req] = <<>> /\ verdict[q[i].req] # "new"
      BY <3>1 DEF ExactlyOneOutcome, Registered
    <3>3. /\ q[i].retries_left \in Nat /\ q[i].retry_attempt_index \in Nat
          /\ q[i].retries_left > 0 /\ q[i].retries_left + q[i].retry_attempt_index = RetryAttempts
      BY <2>1, <2>2, <1>tbl DEF AttemptsAddUp, Entry
    <3>4. q[i].retry_attempt_index + 1 <= RetryAttempts
      BY <3>3, TimeAssumption
    <3> QED
      BY <3>1, <3>2, <3>4
  <2>4. \A j \in 1..Len(q) : j # i => q[j].req # q[i].req
    BY <2>1, <1>tbl DEF ExactlyOneOutcome
  <2>5. /\ Retried(q[i]).req = q[i].req
        /\ Retried(q[i]).retry_attempt_index = q[i].retry_attempt_index + 1
    BY DEF Retried
  <2>6. \A j \in DOMAIN q' : Fair(q[j])'
    <3>1. DOMAIN q' = 1..Len(q) /\ \A j \in 1..Len(q) : q'[j] = IF j = i THEN Retried(q[i]) ELSE q[j]
      BY <2>1, <2>2, <1>tbl
    <3>2. ASSUME NEW j \in 1..Len(q), j # i PROVE Fair(q[j])'
      BY <3>1, <3>2, <2>2, <2>4, <1>tbl, <1>old, <1>app DEF FirstSend
    <3>3. ASSUME NEW j \in 1..Len(q), j = i PROVE Fair(q[j])'
      <4>1. transmissions'[q[i].req] = transmissions[q[i].req] + 1
        BY <2>2, <2>3, <1>app
      <4>2. transmissions[q[i].req] = FirstSend(q[i].req) + q[i].retry_attempt_index
        BY <2>1, <1>tbl, <1>old
      <4>3. q'[j] = Retried(q[i])
        BY <3>1, <3>3
      <4>4. FirstSend(q[i].req) \in Nat /\ q[i].retry_attempt_index \in Nat
        BY <2>1, <1>tbl DEF FirstSend, Entry
      <4>5. FirstSend(q[j].req)' = FirstSend(q[i].req)
        BY <2>2, <2>5, <4>3 DEF FirstSend
      <4> QED
        BY <4>1, <4>2, <4>3, <4>4, <4>5, <2>5
    <3> QED
      BY <3>1, <3>2, <3>3, <2>1
  <2>7. Within'
    <3>1. transmissions[q[i].req] = FirstSend(q[i].req) + q[i].retry_attempt_index
      BY <2>1, <1>tbl, <1>old
    <3>2. FirstSend(q[i].req) \in Nat /\ q[i].retry_attempt_index \in Nat
      BY <2>1, <1>tbl DEF FirstSend, Entry
    <3>3. transmissions'[q[i].req] <= FirstSend(q[i].req) + RetryAttempts
      BY <3>1, <3>2, <2>2, <2>3, <1>app, TimeAssumption
    <3> QED
      BY <3>3, <2>2, <1>old, <1>app DEF FirstSend
  <2>8. Spent'
    BY <2>2, <2>3, <1>old, <1>app DEF FirstSend
  <2>9. NewUnsent'
    BY <2>2, <2>3, <1>app DEF NewUnsent
  <2> QED
    BY <2>6, <2>7, <2>8, <2>9, <1>suf
<1>8. CASE ScheduleNextRetry
  <2>1. i \in 1..Len(q) /\ Here \in Entry
    BY <1>8, HereType DEF ScheduleNextRetry, Awaiting, TypeOK
  <2>2. PICK d : q' = [q EXCEPT ![i] = Scheduled(Here, current_millis + d)]
    BY <1>8 DEF ScheduleNextRetry, Here
  <2>3. /\ Scheduled(Here, current_millis + d).req = q[i].req
        /\ Scheduled(Here, current_millis + d).retry_attempt_index = q[i].retry_attempt_index
    BY <2>1 DEF Scheduled, Entry, Here
  <2>4. UNCHANGED <<verdict, notified, transmissions>>
    BY <1>8 DEF ScheduleNextRetry, appVars
  <2>5. \A j \in DOMAIN q' : Fair(q[j])'
    BY <2>1, <2>2, <2>3, <2>4, <1>tbl, <1>old DEF FirstSend
  <2>6. NewUnsent' /\ Within' /\ Spent'
    BY <2>4, <1>old DEF NewUnsent, FirstSend
  <2> QED
    BY <2>5, <2>6, <1>suf
<1>9. CASE UNCHANGED <<expected_responses, verdict, notified, transmissions>>
  BY <1>9, <1>old, <1>suf DEF FirstSend, NewUnsent
<1> HIDE DEF q, Fair, Within, Spent
<1> QED
  BY <1>1, <1>2, <1>3, <1>4, <1>5, <1>6, <1>7, <1>8, <1>9
     DEF Next, Step, Submission, StartPoll, Ingest, HandleTimeouts, Tick, vars, queueVars, appVars,
         Connect, RecvOk, RecvNothing, IngestStop, DropUnmatched, Resync, TimeoutsNothingPending,
         TimeoutsFastPath, TimeoutsScan, RetryNotDue, WithinTimeout, ScanEnd

(* No request is sent more often than retry_attempts allows, and one that   *)
(* is reported with NoRetriesLeft was sent exactly that often.              *)
THEOREM BudgetKept == Spec => []RetryBudget
<1>1. Init => NewUnsent /\ RetryBudget
  BY TimeAssumption DEF Init, NewUnsent, RetryBudget, AttemptsAddUp, FirstSend
<1>2. TypeOK /\ AttemptsAddUp /\ ExactlyOneOutcome /\ NewUnsent /\ RetryBudget /\ [Next]_vars
        => NewUnsent' /\ RetryBudget'
  BY BudgetStep
<1> QED
  BY <1>1, <1>2, TypeCorrect, OutcomeOnce, PTL DEF Spec

-----------------------------------------------------------------------------
(* Retries and the response window.                                         *)

(* A scan looks at the present, and a retry is scheduled for an instant     *)
(* after the response window of the transmission before it and one of the   *)
(* delays of this attempt.                                                  *)
RetryAfterWindow ==
  /\ pc = "scan" => current_millis = now
  /\ \A k \in DOMAIN expected_responses :
       LET e == expected_responses[k] IN
         e.next_retry_timestamp # None =>
           \E d \in DelaysFor(e) :
             d \in Nat /\ e.next_retry_timestamp > e.sent_timestamp + ResponseTimeout + d

LEMMA WindowStep ==
  ASSUME TypeOK, AttemptsAddUp, RetryAfterWindow, [Next]_vars
  PROVE  RetryAfterWindow'
<1> DEFINE q == expected_responses
           Apart(e) == e.next_retry_timestamp # None =>
                         \E d \in DelaysFor(e) :
                           d \in Nat /\ e.next_retry_timestamp > e.sent_timestamp + ResponseTimeout + d
<1>tbl. /\ Len(q) \in Nat /\ DOMAIN q = 1..Len(q)
        /\ \A k \in 1..Len(q) : q[k] \in Entry /\ q[k].req \in Requests
  BY TableFacts
<1>old. \A k \in DOMAIN q : Apart(q[k])
  BY DEF RetryAfterWindow
<1>now. pc' = "scan" => current_millis' = now'
  <2>1. CASE UNCHANGED <<pc, current_millis, now>>
    BY <2>1 DEF RetryAfterWindow
  <2>2. CASE pc' # "scan"
    BY <2>2
  <2>3. CASE TimeoutsScan
    BY <2>3 DEF TimeoutsScan
  <2> QED
    BY <2>1, <2>2, <2>3
       DEF Next, Step, Submission, StartPoll, Ingest, HandleTimeouts, Tick, vars, pollVars,
           RefuseBroadcast, SendBroadcast, TooManyRequests, Submit, Connect, Disconnect, Reconnect,
           RecvOk, RecvNothing, RecvLost, IngestStop, DropUnmatched, Resync, DispatchResponse,
           TimeoutsNothingPending, TimeoutsFastPath, RetryNotDue, SendDueRetry, RetrySendFailed,
           WithinTimeout, FailExhausted, ScheduleNextRetry, ScanEnd
<1>suf. ASSUME \A k \in DOMAIN q' : Apart(q'[k]) PROVE RetryAfterWindow'
  BY <1>suf, <1>now DEF RetryAfterWindow
<1>1. ASSUME NEW r \in Requests, Submit(r) PROVE RetryAfterWindow'
  <2>1. NewEntry(r) \in Entry /\ Apart(NewEntry(r))
    BY NewEntryType DEF NewEntry, TypeOK
  <2>2. /\ DOMAIN q' = 1..(Len(q) + 1)
        /\ \A j \in 1..Len(q) : q'[j] = q[j]
        /\ q'[Len(q) + 1] = NewEntry(r)
    BY <1>1, <2>1, <1>tbl, AppendProperties, LenProperties DEF Submit, TypeOK, QueueOK
  <2> QED
    BY <2>1, <2>2, <1>old, <1>tbl, <1>suf
<1>2. CASE Disconnect \/ Reconnect \/ RecvLost
  <2>1. q' = <<>>
    BY <1>2 DEF Disconnect, Reconnect, RecvLost, FailAllPending
  <2>2. \A k \in DOMAIN q' : Apart(q'[k])
    BY <2>1
  <2> QED
    BY <2>2, <1>suf
<1>rem. ASSUME NEW k \in 1..Len(q), q' = SwapRemove(q, k) PROVE RetryAfterWindow'
  BY <1>rem, RemovedFrom, <1>old, <1>suf
<1>3. ASSUME NEW k \in 1..N, DispatchResponse(k) PROVE RetryAfterWindow'
  BY <1>3, <1>tbl, <1>rem DEF DispatchResponse, Position
<1>4. CASE RetrySendFailed \/ FailExhausted
  <2>1. i \in 1..Len(q)
    BY <1>4, HereType DEF RetrySendFailed, FailExhausted, RetryIsDue, Awaiting, TypeOK
  <2> QED
    BY <1>4, <2>1, <1>rem DEF RetrySendFailed, FailExhausted
<1>rpl. ASSUME NEW k \in 1..Len(q), NEW e, Apart(e), q' = [q EXCEPT ![k] = e] PROVE RetryAfterWindow'
  <2>1. \A j \in DOMAIN q' : Apart(q'[j])
    BY <1>rpl, <1>old, <1>tbl
  <2> QED
    BY <2>1, <1>suf
<1>5. CASE SendDueRetry
  <2>1. i \in 1..Len(q) /\ q' = [q EXCEPT ![i] = Retried(q[i])]
    BY <1>5, HereType DEF SendDueRetry, RetryIsDue, TypeOK
  <2>2. Apart(Retried(q[i]))
    BY DEF Retried
  <2> QED
    BY <2>1, <2>2, <1>rpl
<1>6. CASE ScheduleNextRetry
  <2>1. i \in 1..Len(q) /\ Here \in Entry
    BY <1>6, HereType DEF ScheduleNextRetry, Awaiting, TypeOK
  <2>2. DelaysFor(Here) \subseteq Nat
    BY <1>6, DelayType DEF ScheduleNextRetry, TypeOK
  <2>3. PICK d \in DelaysFor(Here) :
          q' = [q EXCEPT ![i] = Scheduled(Here, current_millis + d)]
    BY <1>6 DEF ScheduleNextRetry, Here
  <2>4. /\ current_millis > Here.sent_timestamp + ResponseTimeout
        /\ current_millis \in Nat /\ d \in Nat /\ Here.sent_timestamp \in Nat
    BY <1>6, <2>1, <2>2, <2>3 DEF ScheduleNextRetry, ExpiresAt, TypeOK, PollOK, Entry
  <2>5. /\ Scheduled(Here, current_millis + d).sent_timestamp = Here.sent_timestamp
        /\ Scheduled(Here, current_millis + d).next_retry_timestamp = current_millis + d
        /\ DelaysFor(Scheduled(Here, current_millis + d)) = DelaysFor(Here)
    BY <2>1 DEF Scheduled, Entry, DelaysFor
  <2>6. current_millis + d > Here.sent_timestamp + ResponseTimeout + d
    BY <2>4, TimeAssumption
  <2>7. Apart(Scheduled(Here, current_millis + d))
    BY <2>3, <2>4, <2>5, <2>6
  <2> QED
    BY <2>1, <2>3, <2>7, <1>rpl
<1>7. CASE UNCHANGED expected_responses
  BY <1>7, <1>old, <1>suf
<1> HIDE DEF q, Apart
<1> QED
  BY <1>1, <1>2, <1>3, <1>4, <1>5, <1>6, <1>7
     DEF Next, Step, Submission, StartPoll, Ingest, HandleTimeouts, Tick, vars, queueVars,
         RefuseBroadcast, SendBroadcast, TooManyRequests, Connect, RecvOk, RecvNothing, IngestStop,
         DropUnmatched, Resync, TimeoutsNothingPending, TimeoutsFastPath, TimeoutsScan,
         RetryNotDue, WithinTimeout, ScanEnd

(* Only a due retry puts a pending request on the wire again.               *)
LEMMA RetransmitStep ==
  ASSUME TypeOK, AttemptsAddUp, ExactlyOneOutcome, RetryAfterWindow, [Next]_vars,
         NEW k \in DOMAIN expected_responses,
         transmissions'[expected_responses[k].req] > transmissions[expected_responses[k].req]
  PROVE  \E d \in DelaysFor(expected_responses[k]) :
           now > expected_responses[k].sent_timestamp + ResponseTimeout + d
<1> DEFINE q == expected_responses
<1>tbl. /\ Len(q) \in Nat /\ DOMAIN q = 1..Len(q)
        /\ \A j \in 1..Len(q) : q[j] \in Entry /\ q[j].req \in Requests
  BY TableFacts
<1>app. transmissions \in [Requests -> Nat]
  BY DEF TypeOK, AppOK
<1>reg. Registered(q[k].req) /\ q[k].req \in Requests
  BY <1>tbl DEF ExactlyOneOutcome, Queued
<1>1. ASSUME NEW r \in Requests, SendBroadcast(r) \/ Submit(r) PROVE FALSE
  <2>1. verdict[r] = "new"
    BY <1>1 DEF SendBroadcast, Submit
  <2>2. r # q[k].req
    BY <2>1, <1>reg DEF Registered
  <2>3. transmissions' = transmissions \/ transmissions' = [transmissions EXCEPT ![r] = @ + 1]
    BY <1>1 DEF SendBroadcast, Submit, SendErr, SendOk
  <2> QED
    BY <2>2, <2>3, <1>reg, <1>app
<1>2. CASE SendDueRetry
  <2>1. i \in 1..Len(q) /\ Here \in Entry
    BY <1>2, HereType DEF SendDueRetry, RetryIsDue, TypeOK
  <2>2. /\ transmissions' = [transmissions EXCEPT ![q[i].req] = @ + 1]
        /\ q[i].next_retry_timestamp # None /\ current_millis >= q[i].next_retry_timestamp
        /\ pc = "scan"
    BY <1>2 DEF SendDueRetry, RetryIsDue, Scanning, SendOk, Here
  <2>3. q[k].req = q[i].req
    BY <2>2, <1>reg, <1>app
  <2>4. k = i
    BY <2>1, <2>3, <1>tbl DEF ExactlyOneOutcome
  <2>5. current_millis = now
    BY <2>2 DEF RetryAfterWindow
  <2>7. PICK d \in DelaysFor(q[i]) :
          d \in Nat /\ q[i].next_retry_timestamp > q[i].sent_timestamp + ResponseTimeout + d
    BY <2>1, <2>2, <1>tbl DEF RetryAfterWindow
  <2>6. /\ q[i].next_retry_timestamp \in Nat /\ q[i].sent_timestamp \in Nat
        /\ now \in Nat /\ current_millis \in Nat
    BY <2>1, <2>2 DEF Here, Entry, TypeOK, PollOK
  <2>8. now > q[i].sent_timestamp + ResponseTimeout + d
    BY <2>2, <2>5, <2>6, <2>7, TimeAssumption
  <2> QED
    BY <2>4, <2>7, <2>8
<1>3. CASE UNCHANGED transmissions
  <2>1. transmissions[q[k].req] \in Nat
    BY <1>reg, <1>app
  <2> QED
    BY <1>3, <2>1
<1> HIDE DEF q
<1> QED
  BY <1>1, <1>2, <1>3
     DEF Next, Step, Submission, StartPoll, Ingest, HandleTimeouts, Tick, vars, appVars,
         RefuseBroadcast, TooManyRequests, Connect, Disconnect, Reconnect, RecvOk, RecvNothing,
         RecvLost, IngestStop, DropUnmatched, Resync, DispatchResponse, TimeoutsNothingPending,
         TimeoutsFastPath, TimeoutsScan, RetryNotDue, RetrySendFailed, WithinTimeout,
         FailExhausted, ScheduleNextRetry, ScanEnd, SendErr

(* A request is put on the wire again only after the response window of its *)
(* previous transmission has closed and a delay of the retry policy for     *)
(* this attempt has passed: the time-out, the back-off and the retry itself *)
(* may be handled in different calls of poll(), and entries move between    *)
(* them.                                                                    *)
THEOREM RetriesNotEarly == Spec => NoEarlyRetry
<1>1. Init => RetryAfterWindow
  BY DEF Init, RetryAfterWindow
<1>2. TypeOK /\ AttemptsAddUp /\ RetryAfterWindow /\ [Next]_vars => RetryAfterWindow'
  BY WindowStep
<1>3. TypeOK /\ AttemptsAddUp /\ ExactlyOneOutcome /\ RetryAfterWindow /\ [Next]_vars
        => [\A k \in DOMAIN expected_responses :
              LET e == expected_responses[k] IN
                transmissions'[e.req] > transmissions[e.req]
                  => \E d \in RetryDelays[e.retry_attempt_index + 1] :
                       now > e.sent_timestamp + ResponseTimeout + d]_vars
  BY RetransmitStep DEF DelaysFor
<1> QED
  BY <1>1, <1>2, <1>3, TypeCorrect, OutcomeOnce, PTL DEF Spec, NoEarlyRetry

-----------------------------------------------------------------------------
(* Whose response a success is.                                             *)

(* Over TCP a response is handed to the entry with its transaction id, so   *)
(* with ids that are not shared every notification comes of the request it  *)
(* is given to.                                                             *)
OwnResponse ==
  \A r \in Requests : \A k \in DOMAIN notified[r] : notified[r][k].from = r

LEMMA NotifyOwn ==
  ASSUME TypeOK, OwnResponse, NEW r \in Requests, NEW result, Notify(r, result, r)
  PROVE  OwnResponse'
<1> DEFINE Got == [result : Result, from : Requests]
           x == [result |-> result, from |-> r]
<1>1. \A s \in Requests : notified[s] \in Seq(Got)
  BY DEF TypeOK, AppOK
<1>2. /\ \A s \in Requests : s # r => notified'[s] = notified[s]
      /\ notified'[r] = Append(notified[r], x)
  BY DEF Notify, TypeOK, AppOK
<1>3. notified[r] \in Seq(Got \cup {x}) /\ x \in Got \cup {x}
  <2>1. Len(notified[r]) \in Nat /\ notified[r] \in [1..Len(notified[r]) -> Got]
    BY <1>1, LenProperties
  <2>2. notified[r] \in [1..Len(notified[r]) -> Got \cup {x}]
    BY <2>1
  <2> QED
    BY <2>1, <2>2, SeqDef
<1>4. /\ DOMAIN notified'[r] = 1..(Len(notified[r]) + 1)
      /\ DOMAIN notified[r] = 1..Len(notified[r]) /\ Len(notified[r]) \in Nat
      /\ \A k \in 1..Len(notified[r]) : notified'[r][k] = notified[r][k]
      /\ notified'[r][Len(notified[r]) + 1] = x
  BY <1>2, <1>3, AppendProperties, LenProperties
<1>5. \A k \in DOMAIN notified'[r] : notified'[r][k].from = r
  BY <1>4 DEF OwnResponse
<1>6. \A s \in Requests : \A k \in DOMAIN notified'[s] : notified'[s][k].from = s
  BY <1>2, <1>5 DEF OwnResponse
<1> QED
  BY <1>6 DEF OwnResponse

LEMMA OwnResponseStep ==
  ASSUME IsTcp, \A r, s \in Requests : r.txn_id = s.txn_id => r = s,
         TypeOK, OwnResponse, [Next]_vars
  PROVE  OwnResponse'
<1>1. ASSUME NEW k \in 1..N, DispatchResponse(k) PROVE OwnResponse'
  <2> DEFINE e == expected_responses[k]
             f == rxed_frame[1]
  <2>1. e.req \in Requests /\ Matches(e, f.req)
    BY <1>1, TableFacts DEF DispatchResponse, Position
  <2>2. f.req \in Requests
    BY <1>1, FrontType DEF DispatchResponse, TypeOK
  <2>3. f.req = e.req
    BY <2>1, <2>2 DEF Matches
  <2>4. PICK result : Notify(e.req, result, f.req)
    BY <1>1 DEF DispatchResponse
  <2> QED
    BY <2>1, <2>3, <2>4, NotifyOwn
<1>2. CASE RetrySendFailed \/ FailExhausted
  <2>1. Here.req \in Requests
    BY <1>2, HereType DEF RetrySendFailed, FailExhausted, RetryIsDue, Awaiting, Entry, TypeOK
  <2>2. Notify(Here.req, "SendFailed", Here.req) \/ Notify(Here.req, "NoRetriesLeft", Here.req)
    BY <1>2 DEF RetrySendFailed, FailExhausted
  <2> QED
    BY <2>1, <2>2, NotifyOwn
<1>3. CASE Disconnect \/ Reconnect \/ RecvLost
  <2>1. \A r \in Requests :
          notified'[r] \in {Append(notified[r], [result |-> "ConnectionLost", from |-> r]),
                            notified[r]}
    BY <1>3 DEF Disconnect, Reconnect, RecvLost, FailAllPending
  <2>2. ASSUME NEW r \in Requests, NEW k \in DOMAIN notified'[r] PROVE notified'[r][k].from = r
    <3> DEFINE x == [result |-> "ConnectionLost", from |-> r]
    <3>1. notified[r] \in Seq([result : Result, from : Requests])
          /\ x \in [result : Result, from : Requests]
      BY DEF TypeOK, AppOK, Result
    <3>2. CASE notified'[r] = notified[r]
      BY <2>2, <3>2 DEF OwnResponse
    <3>3. CASE notified'[r] = Append(notified[r], x)
      <4>1. /\ DOMAIN notified'[r] = 1..(Len(notified[r]) + 1)
            /\ DOMAIN notified[r] = 1..Len(notified[r]) /\ Len(notified[r]) \in Nat
            /\ \A j \in 1..Len(notified[r]) : notified'[r][j] = notified[r][j]
            /\ notified'[r][Len(notified[r]) + 1] = x
        BY <3>1, <3>3, AppendProperties, LenProperties
      <4> QED
        BY <2>2, <4>1 DEF OwnResponse
    <3> QED
      BY <2>1, <3>2, <3>3
  <2> QED
    BY <2>2 DEF OwnResponse
<1>4. CASE UNCHANGED notified
  BY <1>4 DEF OwnResponse
<1> QED
  BY <1>1, <1>2, <1>3, <1>4
     DEF Next, Step, Submission, StartPoll, Ingest, HandleTimeouts, Tick, vars, appVars,
         RefuseBroadcast, SendBroadcast, TooManyRequests, Submit, Connect, RecvOk, RecvNothing,
         IngestStop, DropUnmatched, Resync, TimeoutsNothingPending, TimeoutsFastPath,
         TimeoutsScan, RetryNotDue, SendDueRetry, WithinTimeout, ScheduleNextRetry, ScanEnd

(* Over TCP, and as long as the application gives no transaction id to two  *)
(* requests, a success is reported only with the response to that request:  *)
(* dispatch_response never hands a late, duplicate or spliced frame to      *)
(* another entry, whatever order swap_remove has left the table in.         *)
THEOREM ResponsesMatch ==
  ASSUME IsTcp, \A r, s \in Requests : r.txn_id = s.txn_id => r = s
  PROVE  Spec => []ResponseMatchesRequest
<1>1. Init => OwnResponse
  BY DEF Init, OwnResponse
<1>2. TypeOK /\ OwnResponse /\ [Next]_vars => OwnResponse'
  BY OwnResponseStep
<1>3. OwnResponse => ResponseMatchesRequest
  BY DEF OwnResponse, ResponseMatchesRequest
<1> QED
  BY <1>1, <1>2, <1>3, TypeCorrect, PTL DEF Spec

-----------------------------------------------------------------------------
(* The ledger: ClientServices implements RequestLedger.                     *)

(* With one outcome per request, the status of a request follows from what  *)
(* its call returned and from whether it was reported.                      *)
LEMMA StatusFacts ==
  ASSUME ExactlyOneOutcome
  PROVE  /\ LedgerStatus = [r \in Requests |-> LedgerStatus[r]]
         /\ \A r \in Requests :
              LedgerStatus[r] = IF Registered(r)
                                THEN IF notified[r] = <<>> THEN "pending" ELSE "answered"
                                ELSE IF verdict[r] = "new" THEN "new" ELSE "declined"
BY DEF LedgerStatus, ExactlyOneOutcome, Registered

LEMMA LedgerStep ==
  ASSUME TypeOK, ExactlyOneOutcome, ExactlyOneOutcome', [Next]_vars
  PROVE  [Ledger!Next]_LedgerStatus
<1> DEFINE Status(r) == IF Registered(r)
                        THEN IF notified[r] = <<>> THEN "pending" ELSE "answered"
                        ELSE IF verdict[r] = "new" THEN "new" ELSE "declined"
<1>st. /\ LedgerStatus = [r \in Requests |-> LedgerStatus[r]]
       /\ LedgerStatus' = [r \in Requests |-> LedgerStatus'[r]]
       /\ \A r \in Requests : LedgerStatus[r] = Status(r)
       /\ \A r \in Requests : LedgerStatus'[r] = Status(r)'
  <2>1. LedgerStatus' = [r \in Requests |-> LedgerStatus'[r]]
        /\ \A r \in Requests : LedgerStatus'[r] = Status(r)'
    BY DEF LedgerStatus, ExactlyOneOutcome, Registered
  <2> QED
    BY <2>1, StatusFacts
<1>same. (\A r \in Requests : LedgerStatus'[r] = LedgerStatus[r]) => LedgerStatus' = LedgerStatus
  BY <1>st
<1>1. ASSUME NEW r \in Requests,
             RefuseBroadcast(r) \/ SendBroadcast(r) \/ TooManyRequests(r) \/ Submit(r)
      PROVE  [Ledger!Next]_LedgerStatus
  <2>1. verdict[r] = "new" /\ UNCHANGED notified
    BY <1>1 DEF RefuseBroadcast, SendBroadcast, TooManyRequests, Submit
  <2>2. PICK v \in Verdict \ {"new"} : verdict' = [verdict EXCEPT ![r] = v]
    BY <1>1 DEF RefuseBroadcast, SendBroadcast, TooManyRequests, Submit, Verdict
  <2>3. \A s \in Requests : s # r => LedgerStatus'[s] = LedgerStatus[s]
    BY <2>1, <2>2, <1>st DEF Registered, TypeOK, AppOK
  <2>4. LedgerStatus[r] = "new" /\ notified[r] = <<>>
    BY <2>1, <1>st DEF Registered, ExactlyOneOutcome
  <2>5. LedgerStatus'[r] \in {"declined", "pending"}
    BY <2>1, <2>2, <2>4, <1>st DEF Registered, TypeOK, AppOK
  <2>6. LedgerStatus' = [LedgerStatus EXCEPT ![r] = "declined"]
        \/ LedgerStatus' = [LedgerStatus EXCEPT ![r] = "pending"]
    BY <2>3, <2>5, <1>st
  <2> QED
    BY <2>4, <2>6, <1>same DEF Ledger!Next, Ledger!Decline, Ledger!Accept
<1>ans. ASSUME UNCHANGED verdict, NEW R \in SUBSET Requests, \A r \in R : notified[r] = <<>>,
               \A r \in R : Registered(r),
               \A r \in Requests \ R : notified'[r] = notified[r],
               \A r \in R : notified'[r] # <<>>
        PROVE  [Ledger!Next]_LedgerStatus
  <2>1. \A r \in Requests : Registered(r)' <=> Registered(r)
    BY <1>ans DEF Registered
  <2>2. \A r \in Requests : LedgerStatus'[r] = IF r \in R THEN "answered" ELSE LedgerStatus[r]
    BY <1>ans, <2>1, <1>st
  <2>3. \A r \in R : LedgerStatus[r] = "pending"
    BY <1>ans, <1>st
  <2>4. LedgerStatus' = [r \in Requests |-> IF r \in R THEN "answered" ELSE LedgerStatus[r]]
    BY <2>2, <1>st
  <2>5. CASE R = {}
    BY <2>5, <2>4, <1>st
  <2>6. CASE R # {}
    BY <2>3, <2>4, <2>6, <1>same DEF Ledger!Next, Ledger!Answer
  <2> QED
    BY <2>5, <2>6
<1>not. ASSUME NEW k \in 1..Len(expected_responses), UNCHANGED verdict,
               NEW result, NEW from, Notify(expected_responses[k].req, result, from)
        PROVE  [Ledger!Next]_LedgerStatus
  <2> DEFINE x == expected_responses[k].req
  <2>1. x \in Requests /\ Queued(x)
    BY TableFacts DEF Queued
  <2>2. Registered(x) /\ notified[x] = <<>>
    BY <2>1 DEF ExactlyOneOutcome
  <2>3. /\ notified'[x] = Append(<<>>, [result |-> result, from |-> from])
        /\ \A r \in Requests \ {x} : notified'[r] = notified[r]
    BY <2>1, <2>2, <1>not DEF Notify, TypeOK, AppOK
  <2>4. notified'[x] # <<>>
    BY <2>3
  <2> HIDE DEF x
  <2> QED
    BY <2>1, <2>2, <2>3, <2>4, <1>not, <1>ans
<1>2. ASSUME NEW k \in 1..N, DispatchResponse(k) PROVE [Ledger!Next]_LedgerStatus
  <2>1. k \in 1..Len(expected_responses)
    BY <1>2, TableFacts DEF DispatchResponse, Position
  <2>2. PICK result : Notify(expected_responses[k].req, result, rxed_frame[1].req)
    BY <1>2 DEF DispatchResponse
  <2> QED
    BY <1>2, <2>1, <2>2, <1>not DEF DispatchResponse
<1>3. CASE RetrySendFailed \/ FailExhausted
  <2>1. i \in 1..Len(expected_responses) /\ UNCHANGED verdict
    BY <1>3, HereType DEF RetrySendFailed, FailExhausted, RetryIsDue, Awaiting, TypeOK
  <2>2. PICK result : Notify(expected_responses[i].req, result, expected_responses[i].req)
    BY <1>3 DEF RetrySendFailed, FailExhausted, Here
  <2> QED
    BY <2>1, <2>2, <1>not
<1>4. CASE Disconnect \/ Reconnect \/ RecvLost
  <2> DEFINE R == {r \in Requests : Queued(r)}
  <2>1. /\ UNCHANGED verdict
        /\ notified' = [r \in Requests |->
             IF Queued(r) THEN Append(notified[r], [result |-> "ConnectionLost", from |-> r])
                          ELSE notified[r]]
    BY <1>4 DEF Disconnect, Reconnect, RecvLost, FailAllPending
  <2>2. \A r \in R : Registered(r) /\ notified[r] = <<>>
    BY DEF ExactlyOneOutcome
  <2>3. \A r \in R : notified'[r] # <<>>
    <3> TAKE r \in R
    <3>1. notified'[r] = Append(<<>>, [result |-> "ConnectionLost", from |-> r])
      BY <2>1, <2>2
    <3> QED
      BY <3>1
  <2>4. \A r \in Requests \ R : notified'[r] = notified[r]
    BY <2>1
  <2>5. R \in SUBSET Requests
    OBVIOUS
  <2> HIDE DEF R
  <2> QED
    BY <2>1, <2>2, <2>3, <2>4, <2>5, <1>ans
<1>5. CASE UNCHANGED <<verdict, notified>>
  <2>1. \A r \in Requests : LedgerStatus'[r] = LedgerStatus[r]
    BY <1>5, <1>st DEF Registered
  <2> QED
    BY <2>1, <1>st
<1> HIDE DEF Status
<1> QED
  BY <1>1, <1>2, <1>3, <1>4, <1>5
     DEF Next, Step, Submission, StartPoll, Ingest, HandleTimeouts, Tick, vars, appVars,
         Connect, RecvOk, RecvNothing, IngestStop, DropUnmatched, Resync, TimeoutsNothingPending,
         TimeoutsFastPath, TimeoutsScan, RetryNotDue, SendDueRetry, WithinTimeout,
         ScheduleNextRetry, ScanEnd

(* The client is an implementation of RequestLedger: every step of it       *)
(* declines or accepts one new request, answers pending ones for good, or   *)
(* leaves the ledger alone.                                                 *)
THEOREM LedgerImplemented == Spec => ImplementsLedger
<1>1. Init => Ledger!Init
  <2> SUFFICES ASSUME Init PROVE LedgerStatus = [r \in Requests |-> "new"]
    BY DEF Ledger!Init
  <2>1. \A r \in Requests : ~Queued(r) /\ notified[r] = <<>> /\ verdict[r] = "new"
    BY DEF Init, Queued
  <2> QED
    BY <2>1 DEF LedgerStatus
<1>2. TypeOK /\ ExactlyOneOutcome /\ ExactlyOneOutcome' /\ [Next]_vars
        => [Ledger!Next]_LedgerStatus
  BY LedgerStep
<1> QED
  BY <1>1, <1>2, TypeCorrect, OutcomeOnce, PTL DEF Spec, ImplementsLedger, Ledger!Spec

-----------------------------------------------------------------------------
(* The cached time of the next check.                                       *)

(* The spans of time the client waits for: the response time-out and every  *)
(* delay of the retry policy.  Nothing orders them.                         *)
Waits == {ResponseTimeout} \cup UNION {RetryDelays[a] : a \in 1..RetryAttempts}

(* The instant t is no further from m than one of these spans.              *)
InReach(t, m) == \E w \in Waits : t <= m + w

(* Nothing was sent in the future, and no retry is further away than a wait. *)
Timely(e) ==
  /\ e.sent_timestamp <= now
  /\ e.next_retry_timestamp # None => InReach(e.next_retry_timestamp, now)
TimesOK ==
  /\ current_millis <= now
  /\ pc = "scan" => current_millis = now
  /\ \A k \in DOMAIN expected_responses : Timely(expected_responses[k])

(* The locals of the scan are reset outside it; neither watermark is        *)
(* further away than a wait, and a scan runs only when the cached time has  *)
(* come.                                                                    *)
MarksOK ==
  /\ pc # "scan" => i = 1 /\ new_next_check = None
  /\ new_next_check # None => InReach(new_next_check, now)
  /\ next_timeout_check # None => InReach(next_timeout_check, now)
  /\ pc = "scan" /\ next_timeout_check # None => next_timeout_check <= current_millis

LEMMA WaitsType == Waits \subseteq Nat
BY TimeAssumption DEF Waits

LEMMA ReachLater ==
  ASSUME NEW s \in Nat, NEW t \in Nat, NEW m \in Nat, NEW n \in Nat,
         s <= t, m <= n, InReach(t, m)
  PROVE  InReach(s, n)
<1>1. PICK w \in Waits : t <= m + w
  BY DEF InReach
<1>2. w \in Nat
  BY WaitsType
<1>3. s <= n + w
  BY <1>1, <1>2
<1> QED
  BY <1>3 DEF InReach

LEMMA ReachSum ==
  ASSUME NEW d \in Waits, NEW s \in Nat, NEW n \in Nat, s <= n
  PROVE  InReach(s + d, n)
<1>1. d \in Nat
  BY WaitsType
<1>2. s + d <= n + d
  BY <1>1
<1> QED
  BY <1>2 DEF InReach

(* What lies within a wait of the submission of a request is not after its  *)
(* due time, or the request is behind a back-off.                           *)
LEMMA ReachNew ==
  ASSUME NEW r \in Requests, NEW t, InReach(t, now)
  PROVE  t <= Due(NewEntry(r)) \/ BehindBackoff(t, NewEntry(r))
<1>1. PICK w \in Waits : t <= now + w
  BY DEF InReach
<1>2. CASE w = ResponseTimeout
  <2>1. Due(NewEntry(r)) = now + ResponseTimeout
    BY DEF Due, NewEntry
  <2> QED
    BY <1>1, <1>2, <2>1
<1>3. CASE w \in UNION {RetryDelays[a] : a \in 1..RetryAttempts}
  <2>1. PICK a \in 1..RetryAttempts : w \in RetryDelays[a]
    BY <1>3
  <2>2. /\ NewEntry(r).sent_timestamp = now /\ NewEntry(r).next_retry_timestamp = None
        /\ NewEntry(r).retry_attempt_index = 0
    BY DEF NewEntry
  <2>3. BehindBackoff(t, NewEntry(r))
    BY <1>1, <2>1, <2>2 DEF BehindBackoff
  <2> QED
    BY <2>3
<1> QED
  BY <1>2, <1>3 DEF Waits

(* The entries the scan has passed are not overdue, and its watermark       *)
(* covers them.                                                             *)
VisitedOK ==
  pc = "scan" =>
    \A k \in DOMAIN expected_responses : k < i =>
      /\ current_millis <= Due(expected_responses[k])
      /\ new_next_check # None /\ new_next_check <= Due(expected_responses[k])

LEMMA DueType ==
  ASSUME NEW e \in Entry
  PROVE  /\ Due(e) \in Nat /\ e.sent_timestamp \in Nat
         /\ e.next_retry_timestamp # None => e.next_retry_timestamp \in Nat
BY TimeAssumption DEF Due, Entry

(* What a step leaves in the table: entries that were there, one that was   *)
(* just submitted, the entry under the scan sent again or scheduled.        *)
LEMMA EntryOrigin ==
  ASSUME TypeOK, AttemptsAddUp, [Next]_vars, NEW k \in DOMAIN expected_responses'
  PROVE  \/ \E j \in DOMAIN expected_responses : expected_responses'[k] = expected_responses[j]
         \/ \E r \in Requests : Submit(r) /\ expected_responses'[k] = NewEntry(r)
         \/ SendDueRetry /\ expected_responses'[k] = Retried(Here)
         \/ /\ ScheduleNextRetry
            /\ \E d \in DelaysFor(Here) :
                 expected_responses'[k] = Scheduled(Here, current_millis + d)
<1> DEFINE q == expected_responses
           Goal == \/ \E j \in DOMAIN q : q'[k] = q[j]
                   \/ \E r \in Requests : Submit(r) /\ q'[k] = NewEntry(r)
                   \/ SendDueRetry /\ q'[k] = Retried(Here)
                   \/ /\ ScheduleNextRetry
                      /\ \E d \in DelaysFor(Here) :
                           q'[k] = Scheduled(Here, current_millis + d)
<1>tbl. /\ Len(q) \in Nat /\ DOMAIN q = 1..Len(q)
        /\ \A j \in 1..Len(q) : q[j] \in Entry /\ q[j].req \in Requests
  BY TableFacts
<1>1. ASSUME NEW r \in Requests, Submit(r) PROVE Goal
  <2>1. NewEntry(r) \in Entry
    BY NewEntryType DEF TypeOK
  <2>2. /\ DOMAIN q' = 1..(Len(q) + 1)
        /\ \A j \in 1..Len(q) : q'[j] = q[j]
        /\ q'[Len(q) + 1] = NewEntry(r)
    BY <1>1, <2>1, <1>tbl, AppendProperties, LenProperties DEF Submit, TypeOK, QueueOK
  <2>3. CASE k = Len(q) + 1
    BY <2>2, <2>3, <1>1
  <2>4. CASE k # Len(q) + 1
    <3>1. k \in DOMAIN q
      BY <2>2, <2>4, <1>tbl
    <3> QED
      BY <2>2, <3>1, <1>tbl
  <2> QED
    BY <2>3, <2>4
<1>2. ASSUME Disconnect \/ Reconnect \/ RecvLost PROVE Goal
  <2>1. q' = <<>>
    BY <1>2 DEF Disconnect, Reconnect, RecvLost, FailAllPending
  <2> QED
    BY <2>1
<1>3. ASSUME NEW l \in 1..N, DispatchResponse(l) PROVE Goal
  <2>1. l \in 1..Len(q) /\ q' = SwapRemove(q, l)
    BY <1>3, <1>tbl DEF DispatchResponse, Position
  <2> QED
    BY <2>1, RemovedFrom
<1>4. ASSUME RetrySendFailed \/ FailExhausted PROVE Goal
  <2>1. i \in 1..Len(q)
    BY <1>4, HereType DEF RetrySendFailed, FailExhausted, RetryIsDue, Awaiting, TypeOK
  <2>2. q' = SwapRemove(q, i)
    BY <1>4 DEF RetrySendFailed, FailExhausted
  <2> QED
    BY <2>1, <2>2, RemovedFrom
<1>5. ASSUME SendDueRetry PROVE Goal
  <2>1. i \in 1..Len(q)
    BY <1>5, HereType DEF SendDueRetry, RetryIsDue, TypeOK
  <2>2. q' = [q EXCEPT ![i] = Retried(Here)]
    BY <1>5 DEF SendDueRetry, Here
  <2> QED
    BY <2>1, <2>2, <1>5
<1>6. ASSUME ScheduleNextRetry PROVE Goal
  <2>1. i \in 1..Len(q)
    BY <1>6, HereType DEF ScheduleNextRetry, Awaiting, TypeOK
  <2>2. PICK d \in DelaysFor(Here) :
          q' = [q EXCEPT ![i] = Scheduled(Here, current_millis + d)]
    BY <1>6 DEF ScheduleNextRetry, Here
  <2> QED
    BY <2>1, <2>2, <1>6
<1>7. ASSUME UNCHANGED expected_responses PROVE Goal
  BY <1>7
<1>8. \/ \E r \in Requests : Submit(r)
      \/ Disconnect \/ Reconnect \/ RecvLost
      \/ \E l \in 1..N : DispatchResponse(l)
      \/ RetrySendFailed \/ FailExhausted \/ SendDueRetry \/ ScheduleNextRetry
      \/ UNCHANGED expected_responses
  BY DEF Next, Step, Submission, StartPoll, Ingest, HandleTimeouts, Tick, vars, queueVars,
         RefuseBroadcast, SendBroadcast, TooManyRequests, Connect, RecvOk, RecvNothing,
         IngestStop, DropUnmatched, Resync, TimeoutsNothingPending, TimeoutsFastPath,
         TimeoutsScan, RetryNotDue, WithinTimeout, ScanEnd
<1> HIDE DEF Goal, q
<1>9. Goal
  BY <1>1, <1>2, <1>3, <1>4, <1>5, <1>6, <1>7, <1>8
<1> QED
  BY <1>9 DEF Goal, q

(* The four outcomes of a visit in terms of due times.                      *)
LEMMA VisitDue ==
  ASSUME TypeOK, AttemptsAddUp, TimesOK
  PROVE  /\ SendDueRetry =>
              /\ Due(Retried(Here)) = current_millis + ResponseTimeout
              /\ Retried(Here).sent_timestamp = current_millis
              /\ Retried(Here).next_retry_timestamp = None
         /\ ScheduleNextRetry =>
              \A d \in DelaysFor(Here) :
                /\ d \in Nat /\ d \in Waits
                /\ Due(Scheduled(Here, current_millis + d)) = current_millis + d
                /\ Scheduled(Here, current_millis + d).next_retry_timestamp = current_millis + d
                /\ Scheduled(Here, current_millis + d).sent_timestamp = Here.sent_timestamp
<1>1. SendDueRetry => /\ Due(Retried(Here)) = current_millis + ResponseTimeout
                      /\ Retried(Here).sent_timestamp = current_millis
                      /\ Retried(Here).next_retry_timestamp = None
  BY DEF Due, Retried
<1>2. ASSUME ScheduleNextRetry, NEW d \in DelaysFor(Here)
      PROVE  /\ d \in Nat /\ d \in Waits
             /\ Due(Scheduled(Here, current_millis + d)) = current_millis + d
             /\ Scheduled(Here, current_millis + d).next_retry_timestamp = current_millis + d
             /\ Scheduled(Here, current_millis + d).sent_timestamp = Here.sent_timestamp
  <2>1. i \in 1..Len(expected_responses) /\ Here \in Entry
    BY <1>2, HereType DEF ScheduleNextRetry, Awaiting, TypeOK
  <2>2. d \in Nat
    BY <1>2, DelayType DEF ScheduleNextRetry, TypeOK
  <2>3. Here.retry_attempt_index + 1 \in 1..RetryAttempts
    <3>1. /\ Here.retries_left \in Nat /\ Here.retry_attempt_index \in Nat
          /\ Here.retries_left + Here.retry_attempt_index = RetryAttempts
      BY <2>1, TableFacts DEF AttemptsAddUp, Here, Entry
    <3> QED
      BY <1>2, <3>1, TimeAssumption DEF ScheduleNextRetry
  <2>4. d \in Waits
    BY <1>2, <2>3 DEF DelaysFor, Waits
  <2>5. current_millis + d \in Nat
    BY <2>2 DEF TypeOK, PollOK
  <2>6. /\ Scheduled(Here, current_millis + d).next_retry_timestamp = current_millis + d
        /\ Scheduled(Here, current_millis + d).sent_timestamp = Here.sent_timestamp
    BY <2>1 DEF Scheduled, Entry
  <2>7. Due(Scheduled(Here, current_millis + d)) = current_millis + d
    BY <2>5, <2>6, NoneAssumption DEF Due
  <2> QED
    BY <2>2, <2>4, <2>6, <2>7
<1> QED
  BY <1>1, <1>2

(* Nothing is stamped or scheduled later than the clock allows.             *)
LEMMA TimesStep ==
  ASSUME TypeOK, AttemptsAddUp, TimesOK, [Next]_vars
  PROVE  TimesOK'
<1>nat. /\ now \in Nat /\ current_millis \in Nat /\ ResponseTimeout \in Nat
        /\ now' \in {now, now + 1}
  <2>1. now' \in {now, now + 1}
    BY DEF Next, Step, Submission, StartPoll, Ingest, HandleTimeouts, Tick, vars,
           RefuseBroadcast, SendBroadcast, TooManyRequests, Submit, Connect, Disconnect, Reconnect,
           RecvOk, RecvNothing, RecvLost, IngestStop, DropUnmatched, Resync, DispatchResponse,
           TimeoutsNothingPending, TimeoutsFastPath, TimeoutsScan, RetryNotDue, SendDueRetry,
           RetrySendFailed, WithinTimeout, FailExhausted, ScheduleNextRetry, ScanEnd
  <2> QED
    BY <2>1, TimeAssumption DEF TypeOK, PollOK
<1>later. now \in Nat /\ now' \in Nat /\ now <= now'
  BY <1>nat
<1>1. current_millis' <= now' /\ (pc' = "scan" => current_millis' = now')
  <2>1. CASE UNCHANGED <<pc, current_millis, now>>
    BY <2>1 DEF TimesOK
  <2>2. CASE pc' # "scan" /\ UNCHANGED current_millis
    BY <2>2, <1>nat DEF TimesOK
  <2>3. CASE TimeoutsScan \/ TimeoutsFastPath
    BY <2>3, <1>nat DEF TimeoutsScan, TimeoutsFastPath
  <2> QED
    BY <2>1, <2>2, <2>3
       DEF Next, Step, Submission, StartPoll, Ingest, HandleTimeouts, Tick, vars, pollVars,
           RefuseBroadcast, SendBroadcast, TooManyRequests, Submit, Connect, Disconnect, Reconnect,
           RecvOk, RecvNothing, RecvLost, IngestStop, DropUnmatched, Resync, DispatchResponse,
           TimeoutsNothingPending, RetryNotDue, SendDueRetry, RetrySendFailed,
           WithinTimeout, FailExhausted, ScheduleNextRetry, ScanEnd
<1>2. ASSUME NEW k \in DOMAIN expected_responses'
      PROVE  /\ expected_responses'[k].sent_timestamp <= now'
             /\ expected_responses'[k].next_retry_timestamp # None =>
                  InReach(expected_responses'[k].next_retry_timestamp, now')
  <2> DEFINE e == expected_responses'[k]
             Good == /\ e.sent_timestamp <= now'
                     /\ e.next_retry_timestamp # None =>
                          InReach(e.next_retry_timestamp, now')
  <2>1. ASSUME NEW j \in DOMAIN expected_responses, e = expected_responses[j] PROVE Good
    <3>1. Timely(expected_responses[j]) /\ expected_responses[j] \in Entry
      BY <2>1, TableFacts DEF TimesOK
    <3>2. /\ e.sent_timestamp \in Nat /\ e.sent_timestamp <= now
          /\ e.next_retry_timestamp # None =>
               e.next_retry_timestamp \in Nat /\ InReach(e.next_retry_timestamp, now)
      BY <2>1, <3>1, DueType DEF Timely
    <3>3. e.sent_timestamp <= now'
      BY <3>2, <1>nat, <1>later
    <3> HIDE DEF e
    <3>4. ASSUME e.next_retry_timestamp # None PROVE InReach(e.next_retry_timestamp, now')
      <4>1. e.next_retry_timestamp \in Nat /\ InReach(e.next_retry_timestamp, now)
            /\ e.next_retry_timestamp <= e.next_retry_timestamp
        BY <3>2, <3>4
      <4> QED
        BY <4>1, <1>later, ReachLater, Zenon
    <3> QED
      BY <3>3, <3>4
  <2>2. ASSUME NEW r \in Requests, e = NewEntry(r) PROVE Good
    BY <2>2, <1>nat DEF NewEntry
  <2>3. ASSUME SendDueRetry, e = Retried(Here) PROVE Good
    BY <2>3, VisitDue, <1>nat DEF TimesOK
  <2>4. ASSUME ScheduleNextRetry, NEW d \in DelaysFor(Here),
               e = Scheduled(Here, current_millis + d)
        PROVE  Good
    <3>1. i \in DOMAIN expected_responses /\ Here \in Entry
      BY <2>4, HereType, TableFacts DEF ScheduleNextRetry, Awaiting, TypeOK
    <3>2. Here.sent_timestamp \in Nat /\ Here.sent_timestamp <= now
      BY <3>1, DueType DEF TimesOK, Timely, Here
    <3>3. /\ d \in Waits
          /\ e.next_retry_timestamp = current_millis + d
          /\ e.sent_timestamp = Here.sent_timestamp
      BY <2>4, VisitDue
    <3>4. current_millis <= now
      BY DEF TimesOK
    <3>5. e.sent_timestamp <= now'
      BY <3>2, <3>3, <1>nat
    <3>6. InReach(e.next_retry_timestamp, now')
      <4>1. current_millis \in Nat /\ now' \in Nat /\ current_millis <= now'
        BY <3>4, <1>nat, <1>later
      <4>2. InReach(current_millis + d, now')
        BY <3>3, <4>1, ReachSum, Zenon
      <4> HIDE DEF e
      <4> QED
        BY <3>3, <4>2
    <3> QED
      BY <3>5, <3>6
  <2>o. \/ \E j \in DOMAIN expected_responses : e = expected_responses[j]
        \/ \E r \in Requests : Submit(r) /\ e = NewEntry(r)
        \/ SendDueRetry /\ e = Retried(Here)
        \/ /\ ScheduleNextRetry
           /\ \E d \in DelaysFor(Here) :
                e = Scheduled(Here, current_millis + d)
    BY EntryOrigin
  <2> HIDE DEF Good, e
  <2>5. Good
    BY <2>1, <2>2, <2>3, <2>4, <2>o
  <2> QED
    BY <2>5 DEF Good, e
<1> QED
  BY <1>1, <1>2 DEF TimesOK, Timely

(* The scan passes an entry: its due time is not behind, and the watermark  *)
(* is lowered to it.                                                        *)
Pass ==
  /\ pc = "scan" /\ i \in DOMAIN expected_responses /\ i' = i + 1
  /\ \E t \in Nat : /\ Lower(t) /\ current_millis <= t /\ InReach(t, now)
                    /\ Due(expected_responses'[i]) = t
  /\ DOMAIN expected_responses' = DOMAIN expected_responses
  /\ \A k \in DOMAIN expected_responses :
       k # i => expected_responses'[k] = expected_responses[k]
  /\ UNCHANGED <<pc, current_millis, now, next_timeout_check>>

(* The scan stays where it is: the entry was removed, or is to be visited   *)
(* again at once.                                                           *)
Stay ==
  /\ pc = "scan" /\ i \in DOMAIN expected_responses
  /\ DOMAIN expected_responses' \subseteq DOMAIN expected_responses
  /\ \A k \in DOMAIN expected_responses' :
       k < i => expected_responses'[k] = expected_responses[k]
  /\ UNCHANGED <<pc, current_millis, i, new_next_check, now, next_timeout_check>>

LEMMA Passes ==
  ASSUME TypeOK, AttemptsAddUp, TimesOK,
         RetryNotDue \/ SendDueRetry \/ WithinTimeout \/ (ScheduleNextRetry /\ i' # i)
  PROVE  Pass
<1>nat. /\ now \in Nat /\ current_millis \in Nat /\ ResponseTimeout \in Nat
        /\ i \in Nat
  BY TimeAssumption DEF TypeOK, PollOK
<1>here. /\ pc = "scan" /\ i \in DOMAIN expected_responses /\ Here \in Entry /\ Timely(Here)
         /\ Here.sent_timestamp \in Nat
         /\ Here.next_retry_timestamp # None => Here.next_retry_timestamp \in Nat
  <2>1. Scanning
    BY DEF RetryNotDue, SendDueRetry, RetryIsDue, WithinTimeout, ScheduleNextRetry, Awaiting
  <2>2. i \in 1..Len(expected_responses) /\ Here \in Entry
    BY <2>1, HereType DEF TypeOK
  <2>3. i \in DOMAIN expected_responses
    BY <2>2, TableFacts
  <2>4. Timely(Here)
    BY <2>3 DEF TimesOK, Here
  <2> QED
    BY <2>1, <2>2, <2>3, <2>4, DueType DEF Scanning
<1>cm. current_millis = now
  BY <1>here DEF TimesOK
<1>rt. ResponseTimeout \in Waits
  BY DEF Waits
<1>1. CASE RetryNotDue
  <2>1. /\ expected_responses' = expected_responses /\ i' = i + 1
        /\ Lower(Here.next_retry_timestamp)
        /\ current_millis < Here.next_retry_timestamp
        /\ Here.next_retry_timestamp # None
        /\ UNCHANGED <<pc, current_millis, now, next_timeout_check>>
    BY <1>1 DEF RetryNotDue, queueVars
  <2>2. Due(expected_responses'[i]) = Here.next_retry_timestamp
    BY <2>1 DEF Due, Here
  <2>3. Here.next_retry_timestamp \in Nat /\ InReach(Here.next_retry_timestamp, now)
        /\ current_millis <= Here.next_retry_timestamp
    BY <2>1, <1>here, <1>nat DEF Timely
  <2> QED
    BY <2>1, <2>2, <2>3, <1>here DEF Pass
<1>2. CASE WithinTimeout
  <2>1. /\ expected_responses' = expected_responses /\ i' = i + 1
        /\ Lower(ExpiresAt(Here)) /\ current_millis <= ExpiresAt(Here)
        /\ Here.next_retry_timestamp = None
        /\ UNCHANGED <<pc, current_millis, now, next_timeout_check>>
    BY <1>2 DEF WithinTimeout, Awaiting, queueVars
  <2>2. Due(expected_responses'[i]) = ExpiresAt(Here)
    BY <2>1 DEF Due, Here, ExpiresAt
  <2>3. ExpiresAt(Here) \in Nat /\ InReach(ExpiresAt(Here), now)
    <3>1. ExpiresAt(Here) \in Nat /\ ExpiresAt(Here) = Here.sent_timestamp + ResponseTimeout
      BY <1>here, <1>nat DEF ExpiresAt
    <3>2. Here.sent_timestamp <= now
      BY <1>here DEF Timely
    <3> QED
      BY <3>1, <3>2, <1>here, <1>nat, <1>rt, ReachSum
  <2> QED
    BY <2>1, <2>2, <2>3, <1>here DEF Pass
<1>rpl. ASSUME NEW e, NEW t \in Nat, expected_responses' = [expected_responses EXCEPT ![i] = e],
               Due(e) = t, current_millis <= t, InReach(t, now), Lower(t), i' = i + 1,
               UNCHANGED <<pc, current_millis, now, next_timeout_check>>
        PROVE  Pass
  <2>1. /\ expected_responses'[i] = e /\ DOMAIN expected_responses' = DOMAIN expected_responses
        /\ \A k \in DOMAIN expected_responses :
             k # i => expected_responses'[k] = expected_responses[k]
    BY <1>rpl, <1>here
  <2> QED
    BY <1>rpl, <1>here, <2>1 DEF Pass
<1>3. CASE SendDueRetry
  <2>1. /\ expected_responses' = [expected_responses EXCEPT ![i] = Retried(Here)]
        /\ Lower(current_millis + ResponseTimeout) /\ i' = i + 1
        /\ UNCHANGED <<pc, current_millis, now, next_timeout_check>>
    BY <1>3 DEF SendDueRetry, Here
  <2>2. Due(Retried(Here)) = current_millis + ResponseTimeout
    BY <1>3, VisitDue
  <2>3. /\ current_millis + ResponseTimeout \in Nat
        /\ current_millis <= current_millis + ResponseTimeout
        /\ InReach(current_millis + ResponseTimeout, now)
    <3>1. current_millis + ResponseTimeout \in Nat
          /\ current_millis <= current_millis + ResponseTimeout /\ current_millis <= now
      BY <1>nat, <1>cm
    <3> QED
      BY <3>1, <1>nat, <1>rt, ReachSum
  <2> QED
    BY <2>1, <2>2, <2>3, <1>rpl
<1>4. CASE ScheduleNextRetry /\ i' # i
  <2>1. PICK d \in DelaysFor(Here) :
          /\ expected_responses' =
               [expected_responses EXCEPT ![i] = Scheduled(Here, current_millis + d)]
          /\ IF d = 0 THEN UNCHANGED <<i, new_next_check>>
                      ELSE Lower(current_millis + d) /\ i' = i + 1
    BY <1>4 DEF ScheduleNextRetry, Here
  <2>2. /\ d \in Nat /\ d \in Waits
        /\ Due(Scheduled(Here, current_millis + d)) = current_millis + d
    BY <1>4, VisitDue
  <2>3. Lower(current_millis + d) /\ i' = i + 1
    BY <1>4, <2>1
  <2>4. /\ current_millis + d \in Nat /\ current_millis <= current_millis + d
        /\ InReach(current_millis + d, now)
    <3>1. current_millis + d \in Nat /\ current_millis <= current_millis + d
          /\ current_millis <= now
      BY <2>2, <1>nat, <1>cm
    <3> QED
      BY <3>1, <2>2, <1>nat, ReachSum
  <2>5. UNCHANGED <<pc, current_millis, now, next_timeout_check>>
    BY <1>4 DEF ScheduleNextRetry
  <2> QED
    BY <2>1, <2>2, <2>3, <2>4, <2>5, <1>rpl
<1> QED
  BY <1>1, <1>2, <1>3, <1>4

LEMMA Stays ==
  ASSUME TypeOK, RetrySendFailed \/ FailExhausted \/ (ScheduleNextRetry /\ i' = i)
  PROVE  Stay
<1> DEFINE q == expected_responses
<1>here. pc = "scan" /\ i \in 1..Len(q)
  <2>1. Scanning
    BY DEF RetrySendFailed, RetryIsDue, FailExhausted, ScheduleNextRetry, Awaiting
  <2> QED
    BY <2>1, HereType DEF Scanning, TypeOK
<1>tbl. Len(q) \in Nat /\ DOMAIN q = 1..Len(q)
  BY TableFacts
<1>1. CASE RetrySendFailed \/ FailExhausted
  <2>1. q' = SwapRemove(q, i)
        /\ UNCHANGED <<pc, current_millis, i, new_next_check, now, next_timeout_check>>
    BY <1>1 DEF RetrySendFailed, FailExhausted, pollVars
  <2>2. /\ DOMAIN q' = 1..(Len(q) - 1)
        /\ \A j \in 1..(Len(q) - 1) : q'[j] = IF j = i THEN q[Len(q)] ELSE q[j]
    BY <2>1, <1>here, SwapRemoveFacts DEF TypeOK, QueueOK
  <2>3. /\ DOMAIN q' \subseteq DOMAIN q
        /\ \A k \in DOMAIN q' : k < i => q'[k] = q[k]
    BY <2>2, <1>tbl, <1>here
  <2> QED
    BY <2>1, <2>3, <1>here, <1>tbl DEF Stay
<1>2. CASE ScheduleNextRetry /\ i' = i
  <2>1. PICK d \in DelaysFor(Here) :
          /\ q' = [q EXCEPT ![i] = Scheduled(Here, current_millis + d)]
          /\ IF d = 0 THEN UNCHANGED <<i, new_next_check>>
                      ELSE Lower(current_millis + d) /\ i' = i + 1
    BY <1>2 DEF ScheduleNextRetry, Here
  <2>2. UNCHANGED <<i, new_next_check>>
    BY <1>2, <2>1, <1>here
  <2>3. UNCHANGED <<pc, current_millis, now, next_timeout_check>>
    BY <1>2 DEF ScheduleNextRetry
  <2>4. DOMAIN q' \subseteq DOMAIN q /\ \A k \in DOMAIN q' : k < i => q'[k] = q[k]
    BY <2>1, <1>here, <1>tbl
  <2> QED
    BY <2>2, <2>3, <2>4, <1>here, <1>tbl DEF Stay
<1> QED
  BY <1>1, <1>2

(* Every step, as far as the scan and its watermarks are concerned.         *)
LEMMA ScanCases ==
  ASSUME TypeOK, AttemptsAddUp, TimesOK, [Next]_vars
  PROVE  \/ Pass \/ Stay \/ ScanEnd \/ TimeoutsScan \/ TimeoutsFastPath \/ TimeoutsNothingPending
         \/ /\ expected_responses' = <<>> /\ next_timeout_check' = None
            /\ pc # "scan" /\ pc' # "scan" /\ UNCHANGED <<i, new_next_check, now, current_millis>>
         \/ /\ pc # "scan" /\ pc' # "scan" /\ (pc' = "idle" => pc = "idle")
            /\ UNCHANGED <<i, new_next_check, next_timeout_check, current_millis>>
         \/ UNCHANGED vars
<1>1. CASE RetryNotDue \/ SendDueRetry \/ WithinTimeout \/ (ScheduleNextRetry /\ i' # i)
  BY <1>1, Passes
<1>2. CASE RetrySendFailed \/ FailExhausted \/ (ScheduleNextRetry /\ i' = i)
  BY <1>2, Stays
<1>3. CASE Disconnect \/ Reconnect \/ RecvLost
  BY <1>3 DEF Disconnect, Reconnect, RecvLost, FailAllPending, pollVars
<1>4. CASE ScanEnd \/ TimeoutsScan \/ TimeoutsFastPath \/ TimeoutsNothingPending
  BY <1>4
<1>5. CASE Submission
  BY <1>5 DEF Submission, RefuseBroadcast, SendBroadcast, TooManyRequests, Submit, queueVars,
              pollVars
<1>6. CASE Connect \/ RecvNothing \/ IngestStop \/ DropUnmatched \/ Resync \/ Tick
           \/ (\E chunk \in Chunks \cup Interference : RecvOk(chunk))
           \/ (\E k \in 1..N : DispatchResponse(k))
  BY <1>6 DEF Connect, RecvNothing, IngestStop, DropUnmatched, Resync, Tick, RecvOk,
              DispatchResponse, queueVars, pollVars
<1>7. CASE UNCHANGED vars
  BY <1>7
<1> QED
  BY <1>1, <1>2, <1>3, <1>4, <1>5, <1>6, <1>7
     DEF Next, Step, StartPoll, Ingest, HandleTimeouts

LEMMA LowerFacts ==
  ASSUME TypeOK, NEW t \in Nat, Lower(t)
  PROVE  /\ new_next_check' \in Nat /\ new_next_check' <= t
         /\ new_next_check # None => new_next_check' <= new_next_check
         /\ new_next_check' = t \/ (new_next_check # None /\ new_next_check' = new_next_check)
BY DEF Lower, TypeOK, PollOK

LEMMA MarksStep ==
  ASSUME TypeOK, AttemptsAddUp, TimesOK, MarksOK, [Next]_vars
  PROVE  MarksOK'
<1>nat. /\ now \in Nat /\ current_millis \in Nat /\ ResponseTimeout \in Nat
        /\ new_next_check \in Nat \cup {None} /\ next_timeout_check \in Nat \cup {None}
        /\ now' \in {now, now + 1}
  <2>1. now' \in {now, now + 1}
    BY DEF Next, Step, Submission, StartPoll, Ingest, HandleTimeouts, Tick, vars,
           RefuseBroadcast, SendBroadcast, TooManyRequests, Submit, Connect, Disconnect, Reconnect,
           RecvOk, RecvNothing, RecvLost, IngestStop, DropUnmatched, Resync, DispatchResponse,
           TimeoutsNothingPending, TimeoutsFastPath, TimeoutsScan, RetryNotDue, SendDueRetry,
           RetrySendFailed, WithinTimeout, FailExhausted, ScheduleNextRetry, ScanEnd
  <2> QED
    BY <2>1, TimeAssumption DEF TypeOK, PollOK, QueueOK
<1>1. CASE Pass
  <2>1. PICK t \in Nat : Lower(t) /\ InReach(t, now)
    BY <1>1 DEF Pass
  <2>2. new_next_check' \in Nat /\ new_next_check' <= t
    BY <2>1, LowerFacts
  <2>3. now \in Nat /\ now <= now
    BY <1>nat
  <2>4. InReach(new_next_check', now)
    BY <2>1, <2>2, <2>3, ReachLater, Zenon
  <2> QED
    BY <1>1, <2>4 DEF Pass, MarksOK, InReach
<1>2. CASE Stay
  BY <1>2 DEF Stay, MarksOK
<1>3. CASE ScanEnd
  BY <1>3 DEF ScanEnd, MarksOK
<1>4. CASE TimeoutsScan
  BY <1>4, <1>nat DEF TimeoutsScan, CacheAhead, MarksOK, queueVars
<1>5. CASE TimeoutsFastPath
  BY <1>5 DEF TimeoutsFastPath, MarksOK, queueVars
<1>6. CASE TimeoutsNothingPending
  BY <1>6 DEF TimeoutsNothingPending, MarksOK
<1>7. CASE /\ expected_responses' = <<>> /\ next_timeout_check' = None
           /\ pc # "scan" /\ pc' # "scan" /\ UNCHANGED <<i, new_next_check, now, current_millis>>
  BY <1>7 DEF MarksOK
<1>8. CASE /\ pc # "scan" /\ pc' # "scan"
           /\ UNCHANGED <<i, new_next_check, next_timeout_check, current_millis>>
  <2>1. ASSUME next_timeout_check # None
        PROVE  InReach(next_timeout_check, now')
    <3>1. /\ next_timeout_check \in Nat /\ InReach(next_timeout_check, now)
          /\ next_timeout_check <= next_timeout_check
      BY <1>nat, <2>1 DEF MarksOK
    <3>2. now \in Nat /\ now' \in Nat /\ now <= now'
      <4>1. CASE now' = now
        BY <4>1, <1>nat
      <4>2. CASE now' = now + 1
        BY <4>2, <1>nat
      <4> QED
        BY <4>1, <4>2, <1>nat
    <3> QED
      BY <3>1, <3>2, ReachLater, Zenon
  <2>2. i' = 1 /\ new_next_check' = None
    BY <1>8 DEF MarksOK
  <2> QED
    BY <1>8, <2>1, <2>2 DEF MarksOK, InReach
<1>9. CASE UNCHANGED vars
  BY <1>9 DEF vars, queueVars, pollVars, MarksOK
<1> QED
  BY <1>1, <1>2, <1>3, <1>4, <1>5, <1>6, <1>7, <1>8, <1>9, ScanCases

LEMMA VisitedStep ==
  ASSUME TypeOK, AttemptsAddUp, TimesOK, MarksOK, VisitedOK, [Next]_vars
  PROVE  VisitedOK'
<1> DEFINE q == expected_responses
<1>nat. /\ now \in Nat /\ current_millis \in Nat /\ ResponseTimeout \in Nat /\ i \in Nat
        /\ new_next_check \in Nat \cup {None}
        /\ \A k \in DOMAIN q : k \in Nat \ {0} /\ Due(q[k]) \in Nat
  <2>1. \A k \in DOMAIN q : k \in Nat \ {0} /\ Due(q[k]) \in Nat
    BY TableFacts, DueType
  <2> QED
    BY <2>1, TimeAssumption DEF TypeOK, PollOK
<1>1. CASE Pass
  <2>1. PICK t \in Nat : /\ Lower(t) /\ current_millis <= t /\ Due(q'[i]) = t
    BY <1>1 DEF Pass
  <2>2. /\ new_next_check' \in Nat /\ new_next_check' <= t
        /\ new_next_check # None => new_next_check' <= new_next_check
    BY <2>1, LowerFacts
  <2>3. /\ pc = "scan" /\ i' = i + 1 /\ DOMAIN q' = DOMAIN q /\ current_millis' = current_millis
        /\ \A k \in DOMAIN q : k # i => q'[k] = q[k]
    BY <1>1 DEF Pass
  <2>4. ASSUME NEW k \in DOMAIN q', k < i'
        PROVE  current_millis' <= Due(q'[k]) /\ new_next_check' <= Due(q'[k])
    <3>1. CASE k = i
      BY <3>1, <2>1, <2>2, <2>3
    <3>2. CASE k # i
      <4>1. k < i /\ k \in DOMAIN q /\ q'[k] = q[k]
        BY <3>2, <2>3, <2>4, <1>nat
      <4>2. /\ current_millis <= Due(q[k]) /\ new_next_check # None
            /\ new_next_check <= Due(q[k])
        BY <4>1, <2>3 DEF VisitedOK
      <4> QED
        BY <4>1, <4>2, <2>2, <2>3, <1>nat
    <3> QED
      BY <3>1, <3>2
  <2>5. new_next_check' # None
    BY <2>2, NoneAssumption
  <2>6. \A k \in DOMAIN q' : k < i' =>
          /\ current_millis' <= Due(q'[k])
          /\ new_next_check' # None /\ new_next_check' <= Due(q'[k])
    BY <2>4, <2>5
  <2> QED
    BY <2>6 DEF VisitedOK, Due
<1>2. CASE Stay
  BY <1>2 DEF Stay, VisitedOK, Due
<1>3. CASE TimeoutsScan
  <2>1. q' = q /\ i' = i /\ i = 1
    BY <1>3 DEF TimeoutsScan, queueVars, MarksOK
  <2>2. \A k \in DOMAIN q' : ~(k < i')
    BY <2>1, <1>nat
  <2> QED
    BY <2>2 DEF VisitedOK
<1>4. CASE pc' # "scan"
  BY <1>4 DEF VisitedOK
<1>5. CASE UNCHANGED vars
  BY <1>5 DEF vars, queueVars, pollVars, VisitedOK, Due
<1> QED
  BY <1>1, <1>2, <1>3, <1>4, <1>5, ScanCases DEF ScanEnd, TimeoutsFastPath, TimeoutsNothingPending

LEMMA CacheStep ==
  ASSUME TypeOK, AttemptsAddUp, TimesOK, MarksOK, VisitedOK, CacheCovers, [Next]_vars
  PROVE  CacheCovers'
<1> DEFINE q == expected_responses
           c == next_timeout_check
           Covered(e) == c <= Due(e) \/ BehindBackoff(c, e)
<1>nat. /\ now \in Nat /\ current_millis \in Nat /\ ResponseTimeout \in Nat /\ i \in Nat
        /\ c \in Nat \cup {None}
  BY TimeAssumption DEF TypeOK, PollOK, QueueOK
<1>tbl. Len(q) \in Nat /\ DOMAIN q = 1..Len(q)
  BY TableFacts
<1>1. CASE c' = None
  BY <1>1 DEF CacheCovers
<1>2. CASE UNCHANGED next_timeout_check
  <2>1. ASSUME c # None, NEW k \in DOMAIN q' PROVE Covered(q'[k])
    <3> DEFINE e == q'[k]
    <3>1. ASSUME NEW j \in DOMAIN q, e = q[j] PROVE Covered(e)
      BY <2>1, <3>1 DEF CacheCovers
    <3>2. ASSUME NEW r \in Requests, e = NewEntry(r) PROVE Covered(e)
      <4>1. InReach(c, now)
        BY <2>1 DEF MarksOK
      <4>2. Covered(NewEntry(r))
        BY <4>1, ReachNew
      <4> QED
        BY <3>2, <4>2
    <3>3. ASSUME SendDueRetry, e = Retried(Here) PROVE Covered(e)
      <4>1. pc = "scan" /\ Due(e) = current_millis + ResponseTimeout
        BY <3>3, VisitDue DEF SendDueRetry, RetryIsDue, Scanning
      <4>2. c <= current_millis
        BY <4>1, <2>1 DEF MarksOK
      <4> QED
        BY <4>1, <4>2, <2>1, <1>nat
    <3>4. ASSUME ScheduleNextRetry, NEW d \in DelaysFor(Here),
                 e = Scheduled(Here, current_millis + d)
          PROVE  Covered(e)
      <4>1. pc = "scan" /\ Due(e) = current_millis + d /\ d \in Nat
        BY <3>4, VisitDue DEF ScheduleNextRetry, Awaiting, Scanning
      <4>2. c <= current_millis
        BY <4>1, <2>1 DEF MarksOK
      <4> QED
        BY <4>1, <4>2, <2>1, <1>nat
    <3>o. \/ \E j \in DOMAIN q : e = q[j]
          \/ \E r \in Requests : Submit(r) /\ e = NewEntry(r)
          \/ SendDueRetry /\ e = Retried(Here)
          \/ /\ ScheduleNextRetry
             /\ \E d \in DelaysFor(Here) :
                  e = Scheduled(Here, current_millis + d)
      BY EntryOrigin
    <3> HIDE DEF e, Covered
    <3>5. Covered(e)
      BY <3>1, <3>2, <3>3, <3>4, <3>o
    <3> QED
      BY <3>5 DEF e
  <2> QED
    BY <1>2, <2>1 DEF CacheCovers, Due, BehindBackoff
<1>3. CASE ScanEnd
  <2>1. q' = q /\ c' = new_next_check /\ i > Len(q) /\ pc = "scan"
    BY <1>3 DEF ScanEnd
  <2>2. \A k \in DOMAIN q' : new_next_check <= Due(q'[k])
    BY <2>1, <1>nat, <1>tbl DEF VisitedOK
  <2>3. c' # None => \A k \in DOMAIN q' : c' <= Due(q'[k])
    BY <2>1, <2>2
  <2> QED
    BY <2>3 DEF CacheCovers, Due, BehindBackoff
<1> HIDE DEF q, Covered
<1> QED
  BY <1>1, <1>2, <1>3, ScanCases
     DEF Pass, Stay, TimeoutsScan, TimeoutsFastPath, TimeoutsNothingPending, vars, queueVars

LEMMA BehindEarlier ==
  ASSUME NEW e \in Entry, NEW s \in Nat, NEW t \in Nat, s <= t, BehindBackoff(t, e)
  PROVE  BehindBackoff(s, e)
<1>1. PICK a \in 1..RetryAttempts : \E d \in RetryDelays[a] : t <= e.sent_timestamp + d
  BY DEF BehindBackoff
<1>2. PICK d \in RetryDelays[a] : t <= e.sent_timestamp + d
  BY <1>1
<1>3. d \in Nat /\ e.sent_timestamp \in Nat
  BY TimeAssumption, DueType
<1>4. s <= e.sent_timestamp + d
  BY <1>2, <1>3
<1> QED
  BY <1>2, <1>4 DEF BehindBackoff

LEMMA OverdueStep ==
  ASSUME TypeOK, AttemptsAddUp, TimesOK, MarksOK, VisitedOK, CacheCovers,
         OverdueBounded, [Next]_vars
  PROVE  OverdueBounded'
<1> DEFINE q == expected_responses
           cm == current_millis
           Bounded(t, e) == t <= Due(e) \/ BehindBackoff(t + 1, e)
<1>nat. /\ now \in Nat /\ current_millis \in Nat /\ ResponseTimeout \in Nat /\ i \in Nat
        /\ next_timeout_check \in Nat \cup {None}
        /\ \A k \in DOMAIN q : q[k] \in Entry /\ Due(q[k]) \in Nat
  <2>1. \A k \in DOMAIN q : q[k] \in Entry /\ Due(q[k]) \in Nat
    BY TableFacts, DueType
  <2> QED
    BY <2>1, TimeAssumption DEF TypeOK, PollOK, QueueOK
<1>tbl. Len(q) \in Nat /\ DOMAIN q = 1..Len(q)
  BY TableFacts
<1>suf. ASSUME pc' = "idle" => \A k \in DOMAIN q' : Bounded(cm', q'[k])
        PROVE  OverdueBounded'
  BY <1>suf DEF OverdueBounded, Due, BehindBackoff
<1>1. CASE pc' # "idle"
  BY <1>1, <1>suf
<1>2. CASE ScanEnd
  <2>1. q' = q /\ cm' = cm /\ i > Len(q) /\ pc = "scan"
    BY <1>2 DEF ScanEnd
  <2>2. \A k \in DOMAIN q : cm <= Due(q[k])
    BY <2>1, <1>nat, <1>tbl DEF VisitedOK
  <2> QED
    BY <2>1, <2>2, <1>suf
<1>3. CASE TimeoutsFastPath
  <2>1. /\ q' = q /\ cm' = now /\ next_timeout_check # None /\ now < next_timeout_check
    BY <1>3 DEF TimeoutsFastPath, CacheAhead, queueVars
  <2>2. ASSUME NEW k \in DOMAIN q PROVE Bounded(now, q[k])
    <3>1. next_timeout_check <= Due(q[k]) \/ BehindBackoff(next_timeout_check, q[k])
      BY <2>1 DEF CacheCovers
    <3>2. /\ next_timeout_check \in Nat /\ now + 1 \in Nat /\ now + 1 <= next_timeout_check
          /\ q[k] \in Entry /\ Due(q[k]) \in Nat
      BY <2>1, <1>nat
    <3>3. CASE next_timeout_check <= Due(q[k])
      BY <3>2, <3>3, <1>nat
    <3>4. CASE BehindBackoff(next_timeout_check, q[k])
      BY <3>2, <3>4, BehindEarlier
    <3> QED
      BY <3>1, <3>3, <3>4
  <2> QED
    BY <2>1, <2>2, <1>suf
<1>4. CASE q' = <<>>
  <2>1. DOMAIN q' = {}
    BY <1>4
  <2> QED
    BY <2>1, <1>suf
<1>5. CASE pc = "idle" /\ UNCHANGED current_millis
  <2>1. ASSUME NEW k \in DOMAIN q' PROVE Bounded(cm, q'[k])
    <3> DEFINE e == q'[k]
    <3>1. ASSUME NEW j \in DOMAIN q, e = q[j] PROVE Bounded(cm, e)
      BY <1>5, <3>1 DEF OverdueBounded
    <3>2. ASSUME NEW r \in Requests, e = NewEntry(r) PROVE Bounded(cm, e)
      <4>1. Due(e) = now + ResponseTimeout
        BY <3>2 DEF NewEntry, Due
      <4> QED
        BY <4>1, <1>nat DEF TimesOK
    <3>3. \/ \E j \in DOMAIN q : e = q[j]
          \/ \E r \in Requests : e = NewEntry(r)
      BY <1>5, EntryOrigin DEF SendDueRetry, RetryIsDue, ScheduleNextRetry, Awaiting, Scanning
    <3> HIDE DEF e, Bounded
    <3>4. Bounded(cm, e)
      BY <3>1, <3>2, <3>3
    <3> QED
      BY <3>4 DEF e
  <2> QED
    BY <1>5, <2>1, <1>suf
<1>6. CASE UNCHANGED vars
  BY <1>6 DEF vars, queueVars, pollVars, OverdueBounded, Due, BehindBackoff
<1> HIDE DEF q, cm, Bounded
<1> QED
  BY <1>1, <1>2, <1>3, <1>4, <1>5, <1>6, ScanCases
     DEF Pass, Stay, TimeoutsScan, TimeoutsNothingPending, queueVars, q

(* Whatever the delays of the retry policy, the cached time of              *)
(* handle_timeouts is never later than the due time of an entry that was    *)
(* retried or waits for its retry, although add_an_expectation and          *)
(* dispatch_response leave the cache alone; it is later than the time-out   *)
(* of an entry on its first try by no more than a back-off counted from its *)
(* submission, and that is all that poll() may leave overdue when it        *)
(* returns.                                                                 *)
THEOREM NothingSkipped == Spec => [](CacheCovers /\ OverdueBounded)
<1> DEFINE Inv == TimesOK /\ MarksOK /\ VisitedOK /\ CacheCovers /\ OverdueBounded
<1>1. Init => Inv
  BY TimeAssumption DEF Init, TimesOK, MarksOK, VisitedOK, CacheCovers, OverdueBounded
<1>2. TypeOK /\ AttemptsAddUp /\ Inv /\ [Next]_vars => Inv'
  BY TimesStep, MarksStep, VisitedStep, CacheStep, OverdueStep
<1> QED
  BY <1>1, <1>2, TypeCorrect, PTL DEF Spec

-----------------------------------------------------------------------------
(* The retry policy, for every width of its integers, every strategy,       *)
(* attempt and random number: the delays of a strategy keep to its maximum; *)
(* jitter moves a delay by no more than its delta, unless the sum passes    *)
(* u32::MAX, and then it wraps to a delay shorter than delta.               *)

(* Least, the min of the code, is one of its arguments and below both.      *)
LEMMA LeastFact ==
  ASSUME NEW a \in Nat, NEW b \in Nat
  PROVE  Least(a, b) \in Nat /\ Least(a, b) <= a /\ Least(a, b) <= b
BY DEF Least

(* Products of what the code multiplies are no less than 0.                 *)
LEMMA ProductNat ==
  ASSUME NEW a \in Nat, NEW b \in Nat
  PROVE  a * b \in Nat
OBVIOUS

(* A number below a u32 is one.                                             *)
LEMMA WithinU32 ==
  ASSUME NEW x \in Nat, NEW m \in U32, x <= m
  PROVE  x \in U32
BY WidthAssumption DEF U32

(* A hundredth of no more than a hundred times a number.                    *)
LEMMA Hundredth ==
  ASSUME NEW x \in Nat, NEW b \in Nat, x <= b * 100
  PROVE  x \div 100 \in Nat /\ x \div 100 <= b
OBVIOUS

(* BackoffStrategy::delay_ms_for_retry returns a u32 for every attempt,     *)
(* number 0 included, through all its saturating operations, and            *)
(* exponential and linear growth never exceed max_delay_ms.                 *)
THEOREM BackoffBounded ==
  ASSUME NEW b \in BackoffStrategy, NEW n \in 0..255
  PROVE  /\ delay_ms_for_retry(b, n) \in U32
         /\ b.kind \in {"Exponential", "Linear"} => delay_ms_for_retry(b, n) <= b.max_delay_ms
<1>. DEFINE attempt == IF n = 0 THEN 1 ELSE n
<1>1. attempt - 1 \in Nat
  OBVIOUS
<1>2. CASE b \in [kind : {"Immediate"}]
  BY <1>2, WidthAssumption DEF delay_ms_for_retry, U32
<1>3. CASE b \in [kind : {"Fixed"}, delay_ms : U32]
  BY <1>3 DEF delay_ms_for_retry
<1>4. CASE b \in [kind : {"Exponential"}, base_delay_ms : U32, max_delay_ms : U32]
  <2>1. delay_ms_for_retry(b, n) = Exponential(b, attempt)
    BY <1>4 DEF delay_ms_for_retry
  <2>2. b.base_delay_ms \in Nat /\ b.max_delay_ms \in U32 /\ b.max_delay_ms \in Nat
    BY <1>4 DEF U32
  <2>3. Least(attempt - 1, MaxShift) \in 0..MaxShift
    BY <1>1, WidthAssumption, LeastFact
  <2>4. 2 ^ Least(attempt - 1, MaxShift) \in Nat
    BY <2>3, PowersAssumption
  <2>5. b.base_delay_ms * 2 ^ Least(attempt - 1, MaxShift) \in Nat
    BY <2>2, <2>4, ProductNat
  <2>6. Saturated(b.base_delay_ms * 2 ^ Least(attempt - 1, MaxShift)) \in Nat
    BY <2>5, WidthAssumption, LeastFact DEF Saturated
  <2>7. Exponential(b, attempt) \in Nat /\ Exponential(b, attempt) <= b.max_delay_ms
    BY <2>2, <2>6, LeastFact DEF Exponential
  <2>. QED BY <2>1, <2>2, <2>7, WithinU32
<1>5. CASE b \in [kind : {"Linear"}, initial_delay_ms : U32, increment_ms : U32, max_delay_ms : U32]
  <2>1. delay_ms_for_retry(b, n) = Linear(b, attempt)
    BY <1>5 DEF delay_ms_for_retry
  <2>2. /\ b.initial_delay_ms \in Nat /\ b.increment_ms \in Nat
        /\ b.max_delay_ms \in U32 /\ b.max_delay_ms \in Nat
    BY <1>5 DEF U32
  <2>3. b.increment_ms * (attempt - 1) \in Nat
    BY <1>1, <2>2, ProductNat
  <2>4. Saturated(b.increment_ms * (attempt - 1)) \in Nat
    BY <2>3, WidthAssumption, LeastFact DEF Saturated
  <2>5. Saturated(b.initial_delay_ms + Saturated(b.increment_ms * (attempt - 1))) \in Nat
    <3>1. b.initial_delay_ms + Saturated(b.increment_ms * (attempt - 1)) \in Nat
      BY <2>2, <2>4
    <3>. QED BY <3>1, WidthAssumption, LeastFact DEF Saturated
  <2>6. Linear(b, attempt) \in Nat /\ Linear(b, attempt) <= b.max_delay_ms
    BY <2>2, <2>5, LeastFact DEF Linear
  <2>. QED BY <2>1, <2>2, <2>6, WithinU32
<1>. QED BY <1>2, <1>3, <1>4, <1>5 DEF BackoffStrategy

(* The offset lies within delta of 0, the saturation of the span included.  *)
LEMMA OffsetFact ==
  ASSUME NEW d \in U32, NEW random \in U32
  PROVE  offset(d, random) \in -d..d
<1>. DEFINE span == Saturated(Saturated(d * 2) + 1)
<1>1. span \in Nat /\ span > 0 /\ span <= 2 * d + 1
  BY WidthAssumption DEF Saturated, Least, U32
<1>2. random % span \in 0..(span - 1)
  <2>. HIDE DEF span
  <2>. QED BY <1>1 DEF U32
<1>. QED BY <1>1, <1>2 DEF offset, U32

(* The delta of every jitter strategy is a u32, and that of a percentage is *)
(* no larger than the delay itself.                                         *)
LEMMA DeltaFact ==
  ASSUME NEW j \in JitterStrategy, NEW base \in U32
  PROVE  /\ delta(j, base) \in U32
         /\ j.kind = "Percentage" => delta(j, base) <= base
<1>1. CASE j \in [kind : {"None"}]
  BY <1>1, WidthAssumption DEF delta, U32
<1>2. CASE j \in [kind : {"Percentage"}, percent : 0..255]
  <2>. DEFINE p == Least(j.percent, 100)
  <2>1. p \in 0..100
    BY <1>2 DEF Least
  <2>2. base * p \in Nat /\ base * p <= base * 100
    <3>. HIDE DEF p
    <3>. QED BY <2>1 DEF U32
  <2>3. Saturated(base * p) \in 0..(base * 100) /\ Saturated(base * p) <= U32Max
    <3>. HIDE DEF p
    <3>. QED BY <2>2, WidthAssumption DEF Saturated, Least, U32
  <2>4. Saturated(base * p) \div 100 \in Nat /\ Saturated(base * p) \div 100 <= base
    <3>. HIDE DEF p
    <3>. QED BY <2>3, Hundredth DEF U32
  <2>5. delta(j, base) = Saturated(base * p) \div 100
    BY <1>2 DEF delta
  <2>. HIDE DEF p
  <2>. QED BY <2>4, <2>5, WithinU32
<1>3. CASE j \in [kind : {"BoundedMs"}, max_jitter_ms : U32]
  BY <1>3 DEF delta
<1>. QED BY <1>1, <1>2, <1>3 DEF JitterStrategy

(* Every delay handed to schedule_next_retry is a u32.                      *)
THEOREM DelayIsU32 ==
  ASSUME NEW j \in JitterStrategy, NEW base \in U32, NEW random \in Random
  PROVE  apply(j, base, random) \in U32
<1>1. CASE random = NoRandom
  BY <1>1, DeltaFact, WidthAssumption DEF apply, U32
<1>2. CASE random \in U32 /\ random # NoRandom
  <2>. DEFINE d == delta(j, base)
              o == offset(d, random)
              x == IF base + o < 0 THEN 0 ELSE base + o
  <2>1. d \in U32
    BY DeltaFact
  <2>2. o \in Int
    <3>. HIDE DEF d
    <3>. QED BY <1>2, <2>1, OffsetFact DEF U32
  <2>3. apply(j, base, random) = x % (U32Max + 1)
    BY <1>2 DEF apply, Jittered, AsU32
  <2>. HIDE DEF d, o
  <2>4. x \in Nat
    BY <2>2 DEF U32
  <2>. HIDE DEF x
  <2>. QED BY <2>3, <2>4, WidthAssumption DEF U32
<1>. QED BY <1>1, <1>2 DEF Random

(* "[80ms, 120ms]": a jittered delay stays within delta of the delay it     *)
(* started from and is never negative, as long as the largest one is a u32; *)
(* the doubling in the span may even saturate.                              *)
THEOREM JitterBounded ==
  ASSUME NEW j \in JitterStrategy, NEW base \in U32, NEW random \in Random,
         base + delta(j, base) <= U32Max
  PROVE  /\ apply(j, base, random) \in Nat
         /\ apply(j, base, random) >= base - delta(j, base)
         /\ apply(j, base, random) <= base + delta(j, base)
<1>1. CASE random = NoRandom
  BY <1>1, DeltaFact, WidthAssumption DEF apply, U32
<1>2. CASE random \in U32 /\ random # NoRandom
  <2>. DEFINE d == delta(j, base)
              o == offset(d, random)
              x == IF base + o < 0 THEN 0 ELSE base + o
  <2>1. d \in U32
    BY DeltaFact
  <2>2. o \in -d..d
    <3>. HIDE DEF d
    <3>. QED BY <1>2, <2>1, OffsetFact
  <2>3. apply(j, base, random) = x % (U32Max + 1)
    BY <1>2 DEF apply, Jittered, AsU32
  <2>. HIDE DEF d, o
  <2>4. x \in Nat /\ x >= base - d /\ x <= base + d
    BY <2>1, <2>2 DEF U32
  <2>5. base + d <= U32Max
    BY DEF d
  <2>. HIDE DEF x
  <2>6. x % (U32Max + 1) = x
    BY <2>1, <2>4, <2>5, WidthAssumption DEF U32
  <2>. QED BY <2>3, <2>4, <2>6 DEF d
<1>. QED BY <1>1, <1>2 DEF Random

(* A sum past u32::MAX, which the conversion to u32 cuts, becomes a delay   *)
(* shorter than delta instead of one longer than the base.                  *)
THEOREM JitterWraps ==
  ASSUME NEW j \in JitterStrategy, NEW base \in U32, NEW random \in U32,
         base + offset(delta(j, base), random) > U32Max
  PROVE  apply(j, base, random) < delta(j, base)
<1>. DEFINE d == delta(j, base)
            o == offset(d, random)
            x == base + o
<1>1. d \in U32
  BY DeltaFact
<1>2. o \in -d..d
  <2>. HIDE DEF d
  <2>. QED BY <1>1, OffsetFact
<1>3. x > U32Max /\ apply(j, base, random) = (IF x < 0 THEN 0 ELSE x) % (U32Max + 1)
  BY WidthAssumption DEF apply, Jittered, AsU32, NoRandom, U32
<1>. HIDE DEF d, o
<1>4. x \in Nat /\ x - (U32Max + 1) \in 0..U32Max /\ x - (U32Max + 1) < d
  BY <1>1, <1>2, <1>3, WidthAssumption DEF U32
<1>. HIDE DEF x
<1>5. x % (U32Max + 1) = x - (U32Max + 1)
  BY <1>4, WidthAssumption
<1>6. apply(j, base, random) = x - (U32Max + 1)
  BY <1>3, <1>4, <1>5, WidthAssumption
<1>. QED BY <1>4, <1>6 DEF d
=============================================================================
