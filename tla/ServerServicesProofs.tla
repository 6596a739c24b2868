------------------------- MODULE ServerServicesProofs -------------------------
(***************************************************************************)
(* Proofs about ServerServices, for any set of requests, any depth of the  *)
(* queues and every configuration of retries, delays and policies.         *)
(*                                                                         *)
(* IndInv begins with where requests are: receive buffer, request queue,   *)
(* the requests just expired and response queue hold none twice and none   *)
(* ends twice (Once), no two of these places hold the same one, and        *)
(* together they hold what was received (Apart).  HeldOnce follows by      *)
(* counting.  It also gives every step one of seven effects on requests    *)
(* (Effect), and the rest is shown of those instead of the actions: nothing*)
(* was done for a request that is open (Untouched), what is queued or sent *)
(* about one is true (Honest), clocks are in order (Timed), and a queued   *)
(* response carries the time and number of its attempts (Disciplined).     *)
(***************************************************************************)
EXTENDS ServerServices, FiniteSetTheorems, SequenceTheorems, TLAPS

(* While the queued responses are retried, there are as many left to look   *)
(* at as todo says.                                                         *)
Cursor == pc = "drain" => todo <= Len(response_queue)

(* The requests in a queue, and the ones that have ended.                   *)
Held(s) == {s[k].req : k \in DOMAIN s}
Over == {r \in Requests : fates[r] # <<>>}

(* Received, and neither answered nor ended.                                *)
Open == Buffered \cup Held(request_queue) \cup Held(expired)

(* No part of the server holds a request twice.                             *)
FramesOnce(s) == \A j, k \in DOMAIN s : s[j] = s[k] /\ s[j] # Garbage => j = k
QueueOnce(s) == \A j, k \in DOMAIN s : s[j].req = s[k].req => j = k
OverOnce == \A r \in Requests : Len(fates[r]) <= 1
Once ==
  /\ FramesOnce(rxed_frame)
  /\ QueueOnce(request_queue) /\ QueueOnce(expired) /\ QueueOnce(response_queue)
  /\ OverOnce

(* No two parts hold the same, and together they hold what was received.    *)
Apart ==
  /\ Buffered \cap (Held(request_queue) \cup Held(expired) \cup Held(response_queue) \cup Over) = {}
  /\ Held(request_queue) \cap (Held(expired) \cup Held(response_queue) \cup Over) = {}
  /\ Held(expired) \cap (Held(response_queue) \cup Over) = {}
  /\ Held(response_queue) \cap Over = {}
  /\ Requests \ Unheard = Open \cup Held(response_queue) \cup Over

(* What has passed ingest_frame is addressed to this server.                *)
Ours == \A r \in Held(request_queue) \cup Held(expired) \cup Held(response_queue) : r.unit = Own

Kept == Once /\ Apart /\ Ours

(* A request whose response is not queued and that has not ended was not    *)
(* given to a handler and nothing was sent for it.                          *)
Untouched ==
  \A r \in Requests : r \notin Held(response_queue) \cup Over => executed[r] = 0 /\ attempts[r] = <<>>

(* What a queued response says is true, and so is what was sent.            *)
Honest ==
  /\ \A r \in Requests : executed[r] <= 1
  /\ \A p \in Elements(response_queue) : executed[p.req] = IF p.what = "answer" THEN 1 ELSE 0
  /\ \A r \in Requests : \A fate \in Elements(fates[r]) :
       (fate = "answer" => executed[r] = 1) /\ (fate = "refusal" => executed[r] = 0)

(* No request is newer than the last recv(), nor that than the clock.       *)
Timed == last_recv_us <= now /\ \A r \in Requests : heard[r] <= last_recv_us

(* A response waits for the turnaround delay before its first attempt, and  *)
(* after an attempt it carries the time of that; it counts all but one.     *)
Waits(p, s, t) ==
  /\ p.queued_at_us <= t
  /\ p.is_turnaround_delay => s = <<>>
  /\ ~p.is_turnaround_delay => s # <<>> /\ s[Len(s)] = p.queued_at_us
  /\ Len(s) <= p.retry_count + 1
Disciplined == \A p \in Elements(response_queue) : Waits(p, attempts[p.req], now)

-----------------------------------------------------------------------------
(* What a step does, seen from the requests: nothing, but time may pass and *)
(* queues be rearranged (Quiet); some arrive, and those in the buffer may   *)
(* be lost (Received); some are discarded (Dismissed), one of them after    *)
(* its handler ran (CarriedOut) or because its function code is unknown     *)
(* (Unknown); one is answered or refused (Handled); or a queued response is *)
(* sent once more or given up (Retried).                                    *)
Clocks == UNCHANGED <<heard, last_recv_us, now>>
Ended(R, fate) ==
  fates' = [r \in Requests |-> IF r \in R THEN Append(fates[r], fate) ELSE fates[r]]
Responses == Elements(response_queue)

Quiet ==
  /\ UNCHANGED <<heard, last_recv_us, executed, fates, attempts>> /\ now <= now'
  /\ Responses' = Responses

Received ==
  /\ \E N \in SUBSET Unheard :
       /\ heard' = [r \in Requests |-> IF r \in Buffered \cup N THEN now ELSE heard[r]]
       /\ UNCHANGED fates \/ Ended(Buffered \cup N, "lost")
  /\ last_recv_us' = now /\ UNCHANGED <<now, executed, attempts, response_queue>>

Dismissed ==
  /\ \E R \in SUBSET Open, fate \in {"lost", "discarded"} : Ended(R, fate)
  /\ Clocks /\ UNCHANGED <<executed, attempts, response_queue>>

CarriedOut ==
  /\ \E r \in Open : /\ Ended({r}, "discarded") /\ (r.unit = Own \/ IsBroadcastWrite(r))
                     /\ executed' = [executed EXCEPT ![r] = @ + 1]
  /\ Clocks /\ UNCHANGED <<attempts, response_queue>>

Unknown ==
  /\ \E r \in Open : /\ r.op = "unsupported"
                     /\ Ended({r}, "refusal") \/ Ended({r}, "discarded")
                     /\ attempts' \in {attempts, [attempts EXCEPT ![r] = Append(@, now)]}
  /\ Clocks /\ UNCHANGED <<executed, response_queue>>

Handled ==
  /\ \E r \in Open, what \in {"answer", "refusal"} :
       /\ r.unit = Own /\ Respond(r, what)
       /\ executed' = IF what = "answer" THEN [executed EXCEPT ![r] = @ + 1] ELSE executed
  /\ Clocks

Again(p) == [p EXCEPT !.retry_count = @ + 1, !.queued_at_us = now, !.is_turnaround_delay = FALSE]
Resent(p) ==
  /\ ~Exhausted(p) /\ ~Delayed(p)
  /\ attempts' = [attempts EXCEPT ![p.req] = Append(@, now)]
  /\ \/ Ended({p.req}, p.what) /\ Responses' = Responses \ {p}
     \/ UNCHANGED fates /\ Responses' = (Responses \ {p}) \cup {Again(p)}
Retried ==
  /\ \E p \in Responses :
       \/ Resent(p)
       \/ Ended({p.req}, "exhausted") /\ Responses' = Responses \ {p} /\ UNCHANGED attempts
  /\ Clocks /\ UNCHANGED executed

Effect == Quiet \/ Received \/ Dismissed \/ CarriedOut \/ Unknown \/ Handled \/ Retried

-----------------------------------------------------------------------------

(* Taking the head of a sequence moves every other element by one.          *)
LEMMA TailFacts ==
  ASSUME NEW S, NEW s \in Seq(S), s # <<>>
  PROVE  /\ Head(s) \in S /\ Head(s) = s[1] /\ 1 \in DOMAIN s /\ Tail(s) \in Seq(S)
         /\ Len(s) \in Nat \ {0} /\ DOMAIN s = 1..Len(s)
         /\ Len(Tail(s)) = Len(s) - 1 /\ DOMAIN Tail(s) = 1..(Len(s) - 1)
         /\ \A k \in 1..(Len(s) - 1) : Tail(s)[k] = s[k + 1]
<1>1. Len(s) \in Nat \ {0} /\ DOMAIN s = 1..Len(s)
  BY EmptySeq, LenProperties
<1>2. /\ Head(s) \in S /\ Tail(s) \in Seq(S) /\ Len(Tail(s)) = Len(s) - 1
      /\ \A k \in 1..Len(Tail(s)) : Tail(s)[k] = s[k + 1]
  BY HeadTailProperties
<1>3. DOMAIN Tail(s) = 1..Len(Tail(s))
  BY <1>2, LenProperties
<1>4. Head(s) = s[1]
  OBVIOUS
<1> QED
  BY <1>1, <1>2, <1>3, <1>4

(* Appending leaves the other elements where they are.                      *)
LEMMA AppendFacts ==
  ASSUME NEW S, NEW s \in Seq(S), NEW x \in S
  PROVE  /\ Append(s, x) \in Seq(S) /\ Append(s, x) # <<>>
         /\ Len(s) \in Nat /\ Len(Append(s, x)) = Len(s) + 1
         /\ DOMAIN s = 1..Len(s) /\ DOMAIN Append(s, x) = 1..(Len(s) + 1)
         /\ \A k \in 1..Len(s) : Append(s, x)[k] = s[k]
         /\ Append(s, x)[Len(s) + 1] = x
BY AppendProperties, LenProperties

(* What swap_remove leaves: the last element takes the place of the    *)
(* one removed.                                                             *)
LEMMA SwapRemoveFacts ==
  ASSUME NEW S, NEW s \in Seq(S), NEW k \in DOMAIN s
  PROVE  /\ SwapRemove(s, k) \in Seq(S) /\ Len(SwapRemove(s, k)) = Len(s) - 1
         /\ Len(s) \in Nat \ {0} /\ DOMAIN s = 1..Len(s)
         /\ DOMAIN SwapRemove(s, k) = 1..(Len(s) - 1)
         /\ \A j \in 1..(Len(s) - 1) : SwapRemove(s, k)[j] = IF j = k THEN s[Len(s)] ELSE s[j]
<1> DEFINE n == Len(s) - 1
           t == SwapRemove(s, k)
<1>1. /\ Len(s) \in Nat \ {0} /\ DOMAIN s = 1..Len(s) /\ n \in Nat
      /\ \A j \in 1..Len(s) : s[j] \in S
  BY LenProperties, ElementOfSeq
<1>2. t \in [1..n -> S]
  BY <1>1 DEF SwapRemove
<1>3. t \in Seq(S)
  BY <1>1, <1>2, SeqDef
<1>4. DOMAIN t = 1..n
  BY <1>2
<1> HIDE DEF n, t
<1>5. Len(t) = n
  BY <1>1, <1>3, <1>4, LenProperties
<1> QED
  BY <1>1, <1>3, <1>4, <1>5 DEF SwapRemove, n, t

(* What is not a frame's garbage is a request.                              *)
LEMMA FrameFacts ==
  ASSUME TypeOK, Ingesting
  PROVE  /\ rxed_frame \in Seq(Requests \cup {Garbage}) /\ rxed_frame # <<>>
         /\ Frame \in Requests \cup {Garbage}
         /\ Tail(rxed_frame) \in Seq(Requests \cup {Garbage}) /\ Len(Tail(rxed_frame)) <= RxCapacity
<1>1. rxed_frame \in Seq(Requests \cup {Garbage}) /\ Len(rxed_frame) <= RxCapacity
  BY DEF TypeOK
<1>2. Len(rxed_frame) \in Nat /\ Len(rxed_frame) > 0
  BY <1>1, LenProperties DEF Ingesting, Whole
<1>3. rxed_frame # <<>>
  BY <1>1, <1>2, EmptySeq
<1> QED
  BY <1>1, <1>2, <1>3, TailFacts, ConfigAssumption DEF Frame

(* The response at the front of the queue while there are some to retry.    *)
LEMMA FrontFacts ==
  ASSUME TypeOK, Cursor, Draining
  PROVE  /\ response_queue \in Seq(PendingResponse) /\ response_queue # <<>>
         /\ Head(response_queue) \in PendingResponse /\ Head(response_queue).req \in Requests
         /\ Tail(response_queue) \in Seq(PendingResponse) /\ Len(response_queue) \in Nat
         /\ Len(Tail(response_queue)) = Len(response_queue) - 1
         /\ Len(response_queue) <= QueueDepth /\ QueueDepth \in Nat
<1>1. response_queue \in Seq(PendingResponse) /\ Len(response_queue) <= QueueDepth
  BY DEF TypeOK
<1>2. Len(response_queue) > 0
  BY DEF Cursor, Draining, TypeOK
<1>3. response_queue # <<>>
  BY <1>1, <1>2, EmptySeq
<1>4. /\ Head(response_queue) \in PendingResponse /\ Tail(response_queue) \in Seq(PendingResponse)
      /\ Len(response_queue) \in Nat /\ Len(Tail(response_queue)) = Len(response_queue) - 1
  BY <1>1, <1>3, TailFacts
<1> QED
  BY <1>1, <1>3, <1>4, ConfigAssumption DEF PendingResponse

(* The parts of TypeOK that sending works on.                               *)
OutType ==
  /\ response_queue \in Seq(PendingResponse) /\ Len(response_queue) <= QueueDepth
  /\ fates \in [Requests -> Seq(Fate)] /\ attempts \in [Requests -> Seq(Nat)]

(* An end is a word more.                                                   *)
LEMMA EndType ==
  ASSUME fates \in [Requests -> Seq(Fate)], NEW r \in Requests, NEW fate \in Fate, End(r, fate)
  PROVE  fates' \in [Requests -> Seq(Fate)] /\ Ended({r}, fate)
<1>1. Append(fates[r], fate) \in Seq(Fate)
  BY AppendProperties
<1> QED
  BY <1>1 DEF End, Ended

(* So are many.                                                             *)
LEMMA LostType ==
  ASSUME fates \in [Requests -> Seq(Fate)], NEW R, Lost(R)
  PROVE  fates' \in [Requests -> Seq(Fate)] /\ Ended(R, "lost")
<1>1. ASSUME NEW r \in Requests PROVE Append(fates[r], "lost") \in Seq(Fate)
  <2>1. "lost" \in Fate /\ fates[r] \in Seq(Fate)
    BY <1>1 DEF Fate
  <2> QED
    BY <2>1, AppendProperties
<1> QED
  BY <1>1 DEF Lost, Ended

(* An attempt is a time more.                                               *)
LEMMA AttemptType ==
  ASSUME TypeOK, NEW r \in Requests, attempts' = [attempts EXCEPT ![r] = Append(@, now)]
  PROVE  attempts' \in [Requests -> Seq(Nat)]
<1>1. Append(attempts[r], now) \in Seq(Nat)
  BY AppendProperties DEF TypeOK
<1> QED
  BY <1>1 DEF TypeOK

(* A response that is queued keeps the queue typed and within its depth.    *)
LEMMA EnqueueType ==
  ASSUME TypeOK, NEW r \in Requests, NEW what \in {"answer", "refusal"}, NEW at \in Nat,
         NEW turnaround \in BOOLEAN, Enqueue(r, what, at, turnaround)
  PROVE  /\ response_queue' \in Seq(PendingResponse) /\ Len(response_queue') <= QueueDepth
         /\ fates' \in [Requests -> Seq(Fate)]
<1> DEFINE p == [req |-> r, what |-> what, retry_count |-> 0, queued_at_us |-> at,
                 is_turnaround_delay |-> turnaround]
<1>1. p \in PendingResponse
  BY DEF PendingResponse
<1>2. CASE HasRoom
  <2>1. response_queue' = Append(response_queue, p) /\ UNCHANGED fates
    BY <1>2 DEF Enqueue
  <2> HIDE DEF p
  <2> QED
    BY <1>1, <1>2, <2>1, AppendFacts, ConfigAssumption DEF HasRoom, TypeOK
<1>3. CASE ~HasRoom
  <2>1. End(r, "overflow") /\ UNCHANGED response_queue
    BY <1>3 DEF Enqueue
  <2> QED
    BY <2>1, EndType DEF TypeOK, Fate
<1> QED
  BY <1>2, <1>3

(* So does sending.                                                         *)
LEMMA RespondType ==
  ASSUME TypeOK, NEW r \in Requests, NEW what \in {"answer", "refusal"}, Respond(r, what)
  PROVE  OutType'
<1>1. CASE TooSoon
  <2>1. Enqueue(r, what, last_recv_us, TRUE) /\ UNCHANGED attempts
    BY <1>1 DEF Respond
  <2>2. last_recv_us \in Nat /\ attempts \in [Requests -> Seq(Nat)]
    BY DEF TypeOK
  <2>3. /\ response_queue' \in Seq(PendingResponse) /\ Len(response_queue') <= QueueDepth
        /\ fates' \in [Requests -> Seq(Fate)]
    BY <2>1, <2>2, EnqueueType
  <2> QED
    BY <2>1, <2>2, <2>3 DEF OutType
<1>2. CASE ~TooSoon
  <2>1. SendNow(r, what)
    BY <1>2 DEF Respond
  <2>2. attempts' \in [Requests -> Seq(Nat)]
    BY <2>1, AttemptType DEF SendNow
  <2>3. CASE Enqueue(r, what, now, FALSE)
    <3>1. now \in Nat
      BY DEF TypeOK
    <3>2. /\ response_queue' \in Seq(PendingResponse) /\ Len(response_queue') <= QueueDepth
          /\ fates' \in [Requests -> Seq(Fate)]
      BY <2>3, <3>1, EnqueueType
    <3> QED
      BY <2>2, <3>2 DEF OutType
  <2>4. CASE End(r, what) /\ UNCHANGED response_queue
    <3>1. fates' \in [Requests -> Seq(Fate)]
      BY <2>4, EndType DEF TypeOK, Fate
    <3> QED
      BY <2>2, <2>4, <3>1 DEF OutType, TypeOK
  <2> QED
    BY <2>1, <2>3, <2>4 DEF SendNow
<1> QED
  BY <1>1, <1>2

(* dispatch_request_for_frame has one of three effects.                     *)
LEMMA ExecuteCases ==
  ASSUME TypeOK, NEW r \in Requests, Execute(r)
  PROVE  /\ OutType' /\ executed' \in [Requests -> Nat] /\ listen_only_mode' \in BOOLEAN
         /\ \/ Silently(r) /\ UNCHANGED executed
            \/ Silently(r) /\ executed' = [executed EXCEPT ![r] = @ + 1]
            \/ Respond(r, "answer") /\ executed' = [executed EXCEPT ![r] = @ + 1]
<1>1. ASSUME Silently(r) PROVE OutType'
  <2>1. fates' \in [Requests -> Seq(Fate)]
    BY <1>1, EndType DEF TypeOK, Fate, Silently
  <2> QED
    BY <1>1, <2>1 DEF OutType, TypeOK, Silently
<1>2. ASSUME Respond(r, "answer") PROVE OutType'
  BY <1>2, RespondType
<1>3. CASE (listen_only_mode /\ ~IsDiagnostics(r)) \/ Misaddressed(r)
  <2>1. Silently(r) /\ UNCHANGED <<executed, listen_only_mode>>
    BY <1>3 DEF Execute
  <2> QED
    BY <1>1, <2>1 DEF TypeOK
<1>4. CASE ~((listen_only_mode /\ ~IsDiagnostics(r)) \/ Misaddressed(r))
  <2>1. executed' = [executed EXCEPT ![r] = @ + 1]
    BY <1>4 DEF Execute
  <2>2. executed' \in [Requests -> Nat]
    BY <2>1 DEF TypeOK
  <2>3. listen_only_mode' = CASE r.op = "listen" /\ IsSerial -> TRUE
                              [] r.op = "restart" /\ IsSerial -> FALSE
                              [] OTHER -> listen_only_mode
    BY <1>4 DEF Execute
  <2>4. listen_only_mode' \in BOOLEAN
    <3>1. listen_only_mode \in BOOLEAN
      BY DEF TypeOK
    <3>2. CASE r.op = "listen" /\ IsSerial
      BY <2>3, <3>2
    <3>3. CASE r.op = "restart" /\ IsSerial
      BY <2>3, <3>3
    <3>4. CASE ~(r.op = "listen" /\ IsSerial) /\ ~(r.op = "restart" /\ IsSerial)
      <4>1. listen_only_mode' = listen_only_mode
        BY <2>3, <3>4
      <4> QED
        BY <3>1, <4>1
    <3> QED
      BY <3>2, <3>3, <3>4
  <2>5. Silently(r) \/ Respond(r, "answer")
    BY <1>4 DEF Execute
  <2> QED
    BY <1>1, <1>2, <2>1, <2>2, <2>4, <2>5
<1> QED
  BY <1>3, <1>4

(* What a recv() brings.                                                    *)
LEMMA ArrivalFacts ==
  ASSUME NEW new \in Arrivals
  PROVE  /\ new \in Seq(Requests \cup {Garbage}) /\ FramesOnce(new)
         /\ Elements(new) \subseteq Unheard \cup {Garbage}
<1>1. CASE new = <<>>
  BY <1>1 DEF Elements, FramesOnce
<1>2. CASE new = <<Garbage>>
  BY <1>2 DEF Elements, FramesOnce
<1>3. ASSUME NEW r \in Unheard, new = <<r>>
      PROVE  /\ new \in Seq(Requests \cup {Garbage}) /\ FramesOnce(new)
             /\ Elements(new) \subseteq Unheard \cup {Garbage}
  BY <1>3 DEF Elements, FramesOnce, Unheard
<1>4. ASSUME NEW r \in Unheard, NEW s \in Unheard, r # s, new = <<r, s>>
      PROVE  /\ new \in Seq(Requests \cup {Garbage}) /\ FramesOnce(new)
             /\ Elements(new) \subseteq Unheard \cup {Garbage}
  BY <1>4 DEF Elements, FramesOnce, Unheard
<1>5. \/ new = <<>> \/ new = <<Garbage>> \/ \E r \in Unheard : new = <<r>>
      \/ \E p \in {q \in Unheard \X Unheard : q[1] # q[2]} : new = <<p[1], p[2]>>
  BY DEF Arrivals
<1>6. ASSUME NEW p \in {q \in Unheard \X Unheard : q[1] # q[2]}
      PROVE  p[1] \in Unheard /\ p[2] \in Unheard /\ p[1] # p[2]
  OBVIOUS
<1> QED
  BY <1>1, <1>2, <1>3, <1>4, <1>5, <1>6

(* A request the priority queue can hold.                                   *)
LEMMA PendingFacts ==
  ASSUME TypeOK, NEW r \in Requests
  PROVE  [req |-> r, priority |-> Priority(r), received_at_us |-> now] \in PendingRequest
<1>1. Priority(r) \in 0..3
  BY DEF Priority
<1> QED
  BY <1>1 DEF PendingRequest, TypeOK

(* A response whose count, time and flag change is one.                     *)
LEMMA ResponseChanged ==
  ASSUME NEW p \in PendingResponse, NEW n \in Nat, NEW t \in Nat, NEW b \in BOOLEAN
  PROVE  [p EXCEPT !.retry_count = n, !.queued_at_us = t, !.is_turnaround_delay = b] \in PendingResponse
BY DEF PendingResponse

(* The response to retry again later.                                       *)
LEMMA AgainFacts ==
  ASSUME TypeOK, NEW p \in PendingResponse
  PROVE  /\ Again(p) \in PendingResponse /\ Again(p).req = p.req /\ Again(p).what = p.what
         /\ Again(p).retry_count = p.retry_count + 1 /\ Again(p).queued_at_us = now
         /\ Again(p).is_turnaround_delay = FALSE
<1>1. now \in Nat /\ p.retry_count \in Nat /\ p.retry_count + 1 \in Nat /\ FALSE \in BOOLEAN
  BY DEF PendingResponse, TypeOK
<1>2. Again(p) \in PendingResponse
  BY <1>1, ResponseChanged DEF Again
<1>3. /\ Again(p).req = p.req /\ Again(p).what = p.what
      /\ Again(p).retry_count = p.retry_count + 1 /\ Again(p).queued_at_us = now
  BY <1>1 DEF Again, PendingResponse
<1>4. Again(p).is_turnaround_delay = FALSE
  BY <1>1 DEF Again, PendingResponse
<1> QED
  BY <1>2, <1>3, <1>4

(* The receive buffer is emptied.                                           *)
LEMMA ClearedType ==
  ASSUME TypeOK, ClearRxedFrame
  PROVE  /\ rxed_frame' \in Seq(Requests \cup {Garbage}) /\ Len(rxed_frame') <= RxCapacity
         /\ partial' \in BOOLEAN /\ fates' \in [Requests -> Seq(Fate)]
<1>1. rxed_frame' = <<>> /\ partial' = FALSE /\ Lost(Buffered)
  BY DEF ClearRxedFrame
<1>2. <<>> \in Seq(Requests \cup {Garbage}) /\ Len(<<>>) <= RxCapacity
  BY ConfigAssumption
<1>3. fates' \in [Requests -> Seq(Fate)]
  BY <1>1, LostType DEF TypeOK
<1> QED
  BY <1>1, <1>2, <1>3

(* The entry of the request queue that the scan for stale ones looks at.    *)
LEMMA ScanFacts ==
  ASSUME TypeOK, Scanning
  PROVE  i \in DOMAIN request_queue /\ request_queue[i] \in PendingRequest
<1>1. request_queue \in Seq(PendingRequest) /\ i \in Nat \ {0} /\ i <= Len(request_queue)
  BY ConfigAssumption DEF TypeOK, Scanning
<1>2. i \in 1..Len(request_queue) /\ DOMAIN request_queue = 1..Len(request_queue)
  BY <1>1, LenProperties
<1> QED
  BY <1>1, <1>2, ElementOfSeq

(* No step breaks the types, and no queue grows past its depth.             *)
LEMMA TypeStep ==
  ASSUME TypeOK, Cursor, [Next]_vars
  PROVE  TypeOK'
<1>1. CASE BeginPoll
  BY <1>1 DEF TypeOK, BeginPoll, rxVars, queueVars, outVars
<1>2. CASE DropExhausted
  <2>1. /\ Head(response_queue).req \in Requests /\ Tail(response_queue) \in Seq(PendingResponse)
        /\ Len(Tail(response_queue)) <= QueueDepth
    BY <1>2, FrontFacts DEF DropExhausted
  <2>2. fates' \in [Requests -> Seq(Fate)]
    BY <1>2, <2>1, EndType DEF DropExhausted, TypeOK, Fate
  <2>3. todo' \in 0..QueueDepth
    BY <1>2, ConfigAssumption DEF DropExhausted, Draining, TypeOK
  <2> QED
    BY <1>2, <2>1, <2>2, <2>3 DEF DropExhausted, TypeOK, rxVars
<1>3. CASE DelayRetry
  <2>1. /\ Head(response_queue) \in PendingResponse /\ Tail(response_queue) \in Seq(PendingResponse)
        /\ Len(Tail(response_queue)) + 1 <= QueueDepth
    BY <1>3, FrontFacts DEF DelayRetry
  <2>2. response_queue' \in Seq(PendingResponse) /\ Len(response_queue') <= QueueDepth
    BY <1>3, <2>1, AppendFacts DEF DelayRetry
  <2> QED
    BY <1>3, <2>2, ConfigAssumption DEF DelayRetry, TypeOK, rxVars, outVars
<1>4. CASE RetryOk
  <2>1. /\ Head(response_queue) \in PendingResponse /\ Head(response_queue).req \in Requests
        /\ Tail(response_queue) \in Seq(PendingResponse) /\ Len(Tail(response_queue)) <= QueueDepth
    BY <1>4, FrontFacts DEF RetryOk, Retryable
  <2>2. Head(response_queue).what \in Fate
    BY <2>1 DEF PendingResponse, Fate
  <2>3. fates' \in [Requests -> Seq(Fate)]
    BY <1>4, <2>1, <2>2, EndType DEF RetryOk, TypeOK
  <2>4. attempts' \in [Requests -> Seq(Nat)]
    BY <1>4, <2>1, AttemptType DEF RetryOk, Attempt
  <2>5. todo' \in 0..QueueDepth
    BY <1>4, ConfigAssumption DEF RetryOk, Retryable, Draining, TypeOK
  <2> QED
    BY <1>4, <2>1, <2>3, <2>4, <2>5 DEF RetryOk, TypeOK, rxVars
<1>5. CASE RetryFailed
  <2>1. /\ Head(response_queue) \in PendingResponse /\ Head(response_queue).req \in Requests
        /\ Tail(response_queue) \in Seq(PendingResponse)
        /\ Len(Tail(response_queue)) + 1 <= QueueDepth
    BY <1>5, FrontFacts DEF RetryFailed, Retryable
  <2>2. Again(Head(response_queue)) \in PendingResponse
    BY <2>1, AgainFacts
  <2>3. response_queue' = Append(Tail(response_queue), Again(Head(response_queue)))
    BY <1>5 DEF RetryFailed, Again
  <2>4. response_queue' \in Seq(PendingResponse) /\ Len(response_queue') <= QueueDepth
    BY <2>1, <2>2, <2>3, AppendFacts
  <2>5. attempts' \in [Requests -> Seq(Nat)]
    BY <1>5, <2>1, AttemptType DEF RetryFailed, Attempt
  <2> QED
    BY <1>5, <2>4, <2>5, ConfigAssumption DEF RetryFailed, TypeOK, rxVars
<1>6. CASE RecvOk
  <2>1. PICK new \in Arrivals :
          /\ heard' = [r \in Requests |-> IF r \in Elements(rxed_frame \o new) THEN now ELSE heard[r]]
          /\ IF Len(rxed_frame) + Len(new) <= RxCapacity
             THEN /\ rxed_frame' = rxed_frame \o new
                  /\ partial' \in (IF rxed_frame'[Len(rxed_frame')] = Garbage THEN {FALSE} ELSE BOOLEAN)
                  /\ UNCHANGED fates
             ELSE /\ rxed_frame' = <<>> /\ partial' = FALSE
                  /\ Lost(Buffered \cup (Elements(new) \ {Garbage}))
    BY <1>6 DEF RecvOk
  <2>2. heard' \in [Requests -> Int]
    BY <2>1 DEF TypeOK
  <2>3. new \in Seq(Requests \cup {Garbage}) /\ rxed_frame \in Seq(Requests \cup {Garbage})
    BY ArrivalFacts DEF TypeOK
  <2>4. /\ rxed_frame \o new \in Seq(Requests \cup {Garbage})
        /\ Len(rxed_frame \o new) = Len(rxed_frame) + Len(new)
    BY <2>3, ConcatProperties
  <2>5. /\ rxed_frame' \in Seq(Requests \cup {Garbage}) /\ Len(rxed_frame') <= RxCapacity
        /\ partial' \in BOOLEAN /\ fates' \in [Requests -> Seq(Fate)]
    <3>1. CASE Len(rxed_frame) + Len(new) <= RxCapacity
      <4>1. rxed_frame' = rxed_frame \o new /\ UNCHANGED fates
        BY <2>1, <3>1
      <4>2. partial' \in (IF rxed_frame'[Len(rxed_frame')] = Garbage THEN {FALSE} ELSE BOOLEAN)
        BY <2>1, <3>1
      <4>3. partial' \in BOOLEAN
        BY <4>2
      <4> QED
        BY <2>4, <3>1, <4>1, <4>3 DEF TypeOK
    <3>2. CASE ~(Len(rxed_frame) + Len(new) <= RxCapacity)
      <4>1. /\ rxed_frame' = <<>> /\ partial' = FALSE
            /\ Lost(Buffered \cup (Elements(new) \ {Garbage}))
        BY <2>1, <3>2
      <4>2. fates' \in [Requests -> Seq(Fate)]
        BY <4>1, LostType DEF TypeOK
      <4>3. <<>> \in Seq(Requests \cup {Garbage}) /\ Len(<<>>) <= RxCapacity
        BY ConfigAssumption
      <4> QED
        BY <4>1, <4>2, <4>3
    <3> QED
      BY <3>1, <3>2
  <2> QED
    BY <1>6, <2>2, <2>5 DEF RecvOk, TypeOK, queueVars
<1>7. CASE RecvNothing
  BY <1>7 DEF TypeOK, RecvNothing, rxVars, queueVars, outVars
<1>8. CASE RecvFailed
  <2>1. /\ rxed_frame' \in Seq(Requests \cup {Garbage}) /\ Len(rxed_frame') <= RxCapacity
        /\ partial' \in BOOLEAN /\ fates' \in [Requests -> Seq(Fate)]
    BY <1>8, ClearedType DEF RecvFailed
  <2>2. connected' \in BOOLEAN
    BY <1>8 DEF RecvFailed, TypeOK
  <2> QED
    BY <1>8, <2>1, <2>2 DEF RecvFailed, TypeOK, queueVars, pollVars
<1>9. CASE Resync
  <2>1. /\ Tail(rxed_frame) \in Seq(Requests \cup {Garbage}) /\ Len(Tail(rxed_frame)) <= RxCapacity
        /\ Frame \in Requests \cup {Garbage}
    BY <1>9, FrameFacts DEF Resync
  <2>2. rxed_frame' = Tail(rxed_frame) /\ UNCHANGED <<partial, last_recv_us, connected, heard>>
    BY <1>9 DEF Resync, Drain
  <2> QED
    BY <1>9, <2>1, <2>2 DEF Resync, TypeOK, queueVars, pollVars, outVars
<1>10. CASE Unsupported
  <2>1. /\ Tail(rxed_frame) \in Seq(Requests \cup {Garbage}) /\ Len(Tail(rxed_frame)) <= RxCapacity
        /\ Frame \in Requests \cup {Garbage}
    BY <1>10, FrameFacts DEF Unsupported
  <2>2. rxed_frame' = Tail(rxed_frame) /\ UNCHANGED <<partial, last_recv_us, connected, heard>>
    BY <1>10 DEF Unsupported, Drain
  <2>3. Frame \in Requests
    BY <1>10, <2>1 DEF Unsupported
  <2>4. fates' \in [Requests -> Seq(Fate)]
    BY <1>10, <2>3, EndType DEF Unsupported, TypeOK, Fate
  <2>5. attempts' \in [Requests -> Seq(Nat)]
    <3>1. CASE IsSerial
      BY <1>10, <3>1 DEF Unsupported, TypeOK
    <3>2. CASE ~IsSerial
      BY <1>10, <2>3, <3>2, AttemptType DEF Unsupported
    <3> QED
      BY <3>1, <3>2
  <2> QED
    BY <1>10, <2>1, <2>2, <2>4, <2>5 DEF Unsupported, TypeOK, queueVars, pollVars
<1>11. CASE BroadcastWrite
  <2>1. /\ Tail(rxed_frame) \in Seq(Requests \cup {Garbage}) /\ Len(Tail(rxed_frame)) <= RxCapacity
        /\ Frame \in Requests \cup {Garbage}
    BY <1>11, FrameFacts DEF BroadcastWrite
  <2>2. rxed_frame' = Tail(rxed_frame) /\ UNCHANGED <<partial, last_recv_us, connected, heard>>
    BY <1>11 DEF BroadcastWrite, Drain
  <2>3. Frame \in Requests
    BY <1>11, <2>1 DEF BroadcastWrite
  <2>4. fates' \in [Requests -> Seq(Fate)]
    BY <1>11, <2>3, EndType DEF BroadcastWrite, TypeOK, Fate
  <2>5. executed' \in [Requests -> Nat]
    BY <1>11, <2>3 DEF BroadcastWrite, TypeOK
  <2> QED
    BY <1>11, <2>1, <2>2, <2>4, <2>5 DEF BroadcastWrite, TypeOK, queueVars, pollVars
<1>12. CASE DropForAddress
  <2>1. /\ Tail(rxed_frame) \in Seq(Requests \cup {Garbage}) /\ Len(Tail(rxed_frame)) <= RxCapacity
        /\ Frame \in Requests \cup {Garbage}
    BY <1>12, FrameFacts DEF DropForAddress
  <2>2. rxed_frame' = Tail(rxed_frame) /\ UNCHANGED <<partial, last_recv_us, connected, heard>>
    BY <1>12 DEF DropForAddress, Drain
  <2>3. Frame \in Requests
    BY <1>12, <2>1 DEF DropForAddress
  <2>4. fates' \in [Requests -> Seq(Fate)]
    BY <1>12, <2>3, EndType DEF DropForAddress, TypeOK, Fate
  <2>5. executed' \in [Requests -> Nat]
    BY <1>12, <2>3 DEF DropForAddress, TypeOK
  <2> QED
    BY <1>12, <2>1, <2>2, <2>4, <2>5 DEF DropForAddress, TypeOK, queueVars, pollVars
<1>13. CASE Reject
  <2>1. /\ Tail(rxed_frame) \in Seq(Requests \cup {Garbage}) /\ Len(Tail(rxed_frame)) <= RxCapacity
        /\ Frame \in Requests \cup {Garbage}
    BY <1>13, FrameFacts DEF Reject, Addressed, Misaddressed
  <2>2. rxed_frame' = Tail(rxed_frame) /\ UNCHANGED <<partial, last_recv_us, connected, heard>>
    BY <1>13 DEF Reject, Drain
  <2>3. Frame \in Requests
    BY <1>13, <2>1 DEF Reject, Addressed, Misaddressed
  <2>4. OutType'
    BY <1>13, <2>3, RespondType DEF Reject
  <2> QED
    BY <1>13, <2>1, <2>2, <2>4 DEF Reject, TypeOK, OutType, pollVars
<1>14. CASE QueueRequest
  <2>1. /\ Tail(rxed_frame) \in Seq(Requests \cup {Garbage}) /\ Len(Tail(rxed_frame)) <= RxCapacity
        /\ Frame \in Requests \cup {Garbage}
    BY <1>14, FrameFacts DEF QueueRequest, Addressed, Misaddressed
  <2>2. rxed_frame' = Tail(rxed_frame) /\ UNCHANGED <<partial, last_recv_us, connected, heard>>
    BY <1>14 DEF QueueRequest, Drain
  <2>3. Frame \in Requests
    BY <1>14, <2>1 DEF QueueRequest, Addressed, Misaddressed
  <2> DEFINE q == [req |-> Frame, priority |-> Priority(Frame), received_at_us |-> now]
  <2>4. q \in PendingRequest
    BY <2>3, PendingFacts
  <2>5. request_queue' = Append(request_queue, q) /\ Len(request_queue) < QueueDepth
    BY <1>14 DEF QueueRequest
  <2> HIDE DEF q
  <2>6. request_queue' \in Seq(PendingRequest) /\ Len(request_queue') <= QueueDepth
    BY <2>4, <2>5, AppendFacts, ConfigAssumption DEF TypeOK
  <2> QED
    BY <1>14, <2>1, <2>2, <2>6 DEF QueueRequest, TypeOK, pollVars, outVars
<1>15. CASE DispatchImmediately
  <2>1. /\ Tail(rxed_frame) \in Seq(Requests \cup {Garbage}) /\ Len(Tail(rxed_frame)) <= RxCapacity
        /\ Frame \in Requests \cup {Garbage}
    BY <1>15, FrameFacts DEF DispatchImmediately, Addressed, Misaddressed
  <2>2. rxed_frame' = Tail(rxed_frame) /\ UNCHANGED <<partial, last_recv_us, connected, heard>>
    BY <1>15 DEF DispatchImmediately, Drain
  <2>3. Frame \in Requests
    BY <1>15, <2>1 DEF DispatchImmediately, Addressed, Misaddressed
  <2>4. OutType' /\ executed' \in [Requests -> Nat] /\ listen_only_mode' \in BOOLEAN
    BY <1>15, <2>3, ExecuteCases DEF DispatchImmediately
  <2> QED
    BY <1>15, <2>1, <2>2, <2>4 DEF DispatchImmediately, TypeOK, OutType, pollVars
<1>16. CASE IngestEnd
  BY <1>16, ConfigAssumption DEF TypeOK, IngestEnd, rxVars, queueVars, outVars
<1>17. CASE KeepFresh
  <2>1. i' \in 1..(QueueDepth + 1)
    BY <1>17, LenProperties, ConfigAssumption DEF KeepFresh, Scanning, TypeOK
  <2> QED
    BY <1>17, <2>1 DEF TypeOK, KeepFresh, rxVars, queueVars, outVars
<1>18. CASE TakeExpired
  <2>1. i \in DOMAIN request_queue /\ request_queue[i] \in PendingRequest
    BY <1>18, ScanFacts DEF TakeExpired
  <2>2. request_queue' \in Seq(PendingRequest) /\ Len(request_queue') <= QueueDepth
    BY <1>18, <2>1, SwapRemoveFacts, ConfigAssumption DEF TakeExpired, TypeOK
  <2>3. expired' \in Seq(PendingRequest) /\ fates' \in [Requests -> Seq(Fate)]
    <3>1. CASE StrictMode
      <4>1. expired' = Append(expired, request_queue[i]) /\ UNCHANGED fates
        BY <1>18, <3>1 DEF TakeExpired
      <4>2. expired \in Seq(PendingRequest) /\ fates \in [Requests -> Seq(Fate)]
        BY DEF TypeOK
      <4>3. Append(expired, request_queue[i]) \in Seq(PendingRequest)
        BY <2>1, <4>2, AppendFacts
      <4> QED
        BY <4>1, <4>2, <4>3
    <3>2. CASE ~StrictMode
      <4>1. End(request_queue[i].req, "discarded") /\ UNCHANGED expired /\ request_queue[i].req \in Requests
        BY <1>18, <2>1, <3>2 DEF TakeExpired, PendingRequest
      <4> QED
        BY <4>1, EndType DEF TypeOK, Fate
    <3> QED
      BY <3>1, <3>2
  <2> QED
    BY <1>18, <2>2, <2>3 DEF TypeOK, TakeExpired, rxVars
<1>19. CASE RefuseExpired
  <2>1. Head(expired) \in PendingRequest /\ Tail(expired) \in Seq(PendingRequest)
    BY <1>19, TailFacts DEF RefuseExpired, TypeOK
  <2>2. OutType'
    BY <1>19, <2>1, RespondType DEF RefuseExpired, PendingRequest
  <2> QED
    BY <1>19, <2>1, <2>2 DEF RefuseExpired, TypeOK, OutType, rxVars
<1>20. CASE ExpireEnd
  BY <1>20, ConfigAssumption DEF TypeOK, ExpireEnd, rxVars, queueVars, outVars
<1>21. CASE DispatchPending
  <2>1. PICK k \in DOMAIN request_queue :
          request_queue' = SwapRemove(request_queue, k) /\ Execute(request_queue[k].req)
    BY <1>21 DEF DispatchPending
  <2>2. request_queue[k].req \in Requests
    <3>1. request_queue \in Seq(PendingRequest)
      BY DEF TypeOK
    <3>2. request_queue[k] \in PendingRequest
      BY <3>1, LenProperties, ElementOfSeq
    <3> QED
      BY <3>2 DEF PendingRequest
  <2>3. request_queue' \in Seq(PendingRequest) /\ Len(request_queue') <= QueueDepth
    BY <2>1, SwapRemoveFacts, ConfigAssumption DEF TypeOK
  <2>4. OutType' /\ executed' \in [Requests -> Nat] /\ listen_only_mode' \in BOOLEAN
    BY <2>1, <2>2, ExecuteCases
  <2> QED
    BY <1>21, <2>3, <2>4 DEF DispatchPending, TypeOK, OutType, rxVars, pollVars
<1>22. CASE DispatchEnd
  BY <1>22 DEF TypeOK, DispatchEnd, rxVars, queueVars, outVars
<1>23. CASE Disconnect
  <2>1. /\ rxed_frame' \in Seq(Requests \cup {Garbage}) /\ Len(rxed_frame') <= RxCapacity
        /\ partial' \in BOOLEAN /\ fates' \in [Requests -> Seq(Fate)]
    BY <1>23, ClearedType DEF Disconnect
  <2>2. connected' \in BOOLEAN
    BY <1>23 DEF Disconnect, TypeOK
  <2> QED
    BY <1>23, <2>1, <2>2 DEF Disconnect, TypeOK, queueVars, pollVars
<1>24. CASE Reconnect
  <2>1. /\ rxed_frame' \in Seq(Requests \cup {Garbage}) /\ Len(rxed_frame') <= RxCapacity
        /\ partial' \in BOOLEAN /\ fates' \in [Requests -> Seq(Fate)]
    BY <1>24, ClearedType DEF Reconnect
  <2>2. connected' \in BOOLEAN
    BY <1>24 DEF Reconnect, TypeOK
  <2> QED
    BY <1>24, <2>1, <2>2 DEF Reconnect, TypeOK, queueVars, pollVars
<1>25. CASE Tick
  BY <1>25 DEF TypeOK, Tick, rxVars, queueVars, pollVars, outVars
<1>26. CASE UNCHANGED vars
  BY <1>26 DEF TypeOK, vars, rxVars, queueVars, pollVars, outVars
<1> QED
  BY <1>1, <1>2, <1>3, <1>4, <1>5, <1>6, <1>7, <1>8, <1>9, <1>10, <1>11, <1>12, <1>13, <1>14,
     <1>15, <1>16, <1>17, <1>18, <1>19, <1>20, <1>21, <1>22, <1>23, <1>24, <1>25, <1>26 DEF
     Next, Step, Poll, DrainResponses, Receive, Ingest, Expire, Dispatch

(* No step breaks Cursor.                                                   *)
LEMMA CursorStep ==
  ASSUME TypeOK, TypeOK', Cursor, [Next]_vars
  PROVE  Cursor'
<1>1. CASE BeginPoll
  BY <1>1, LenProperties DEF Cursor, BeginPoll, queueVars, TypeOK
<1>2. CASE DropExhausted
  <2>1. Len(response_queue) \in Nat /\ Len(Tail(response_queue)) = Len(response_queue) - 1
    BY <1>2, FrontFacts DEF Cursor, DropExhausted, Retryable
  <2> QED
    BY <1>2, <2>1 DEF Cursor, DropExhausted, Retryable, Draining, Cursor, TypeOK
<1>3. CASE DelayRetry
  <2>1. todo' = 0 /\ response_queue' \in Seq(PendingResponse)
    BY <1>3 DEF Cursor, DelayRetry, TypeOK
  <2>2. Len(response_queue') \in Nat
    BY <2>1, LenProperties
  <2> QED
    BY <2>1, <2>2 DEF Cursor
<1>4. CASE RetryOk
  <2>1. Len(response_queue) \in Nat /\ Len(Tail(response_queue)) = Len(response_queue) - 1
    BY <1>4, FrontFacts DEF Cursor, RetryOk, Retryable
  <2> QED
    BY <1>4, <2>1 DEF Cursor, RetryOk, Retryable, Draining, Cursor, TypeOK
<1>5. CASE RetryFailed
  <2>1. todo' = 0 /\ response_queue' \in Seq(PendingResponse)
    BY <1>5 DEF Cursor, RetryFailed, TypeOK
  <2>2. Len(response_queue') \in Nat
    BY <2>1, LenProperties
  <2> QED
    BY <2>1, <2>2 DEF Cursor
<1>6. CASE RecvOk
  BY <1>6 DEF Cursor, RecvOk, rxVars, queueVars, pollVars, outVars, Receiving
<1>7. CASE RecvNothing
  BY <1>7 DEF Cursor, RecvNothing, rxVars, queueVars, pollVars, outVars, Receiving
<1>8. CASE RecvFailed
  BY <1>8 DEF Cursor, RecvFailed, rxVars, queueVars, pollVars, outVars, Receiving
<1>9. CASE Resync
  BY <1>9 DEF Cursor, Resync, rxVars, queueVars, pollVars, outVars, Ingesting, Drain
<1>10. CASE Unsupported
  BY <1>10 DEF Cursor, Unsupported, rxVars, queueVars, pollVars, outVars, Ingesting, Drain
<1>11. CASE BroadcastWrite
  BY <1>11 DEF Cursor, BroadcastWrite, rxVars, queueVars, pollVars, outVars, Ingesting, Drain
<1>12. CASE DropForAddress
  BY <1>12 DEF Cursor, DropForAddress, rxVars, queueVars, pollVars, outVars, Ingesting, Drain
<1>13. CASE Reject
  BY <1>13 DEF Cursor, Reject, rxVars, queueVars, pollVars, outVars, Addressed, Misaddressed,
     Ingesting, Drain
<1>14. CASE QueueRequest
  BY <1>14 DEF Cursor, QueueRequest, rxVars, queueVars, pollVars, outVars, Addressed, Misaddressed,
     Ingesting, Drain
<1>15. CASE DispatchImmediately
  BY <1>15 DEF Cursor, DispatchImmediately, rxVars, queueVars, pollVars, outVars, Addressed,
     Misaddressed, Ingesting, Drain
<1>16. CASE IngestEnd
  BY <1>16 DEF Cursor, IngestEnd, rxVars, queueVars, pollVars, outVars
<1>17. CASE KeepFresh
  BY <1>17 DEF Cursor, KeepFresh, rxVars, queueVars, pollVars, outVars, Scanning
<1>18. CASE TakeExpired
  BY <1>18 DEF Cursor, TakeExpired, rxVars, queueVars, pollVars, outVars, Scanning
<1>19. CASE RefuseExpired
  BY <1>19 DEF Cursor, RefuseExpired, rxVars, queueVars, pollVars, outVars
<1>20. CASE ExpireEnd
  BY <1>20 DEF Cursor, ExpireEnd, rxVars, queueVars, pollVars, outVars
<1>21. CASE DispatchPending
  BY <1>21 DEF Cursor, DispatchPending, rxVars, queueVars, pollVars, outVars
<1>22. CASE DispatchEnd
  BY <1>22 DEF Cursor, DispatchEnd, rxVars, queueVars, pollVars, outVars
<1>23. CASE Disconnect
  BY <1>23 DEF Cursor, Disconnect, rxVars, queueVars, pollVars, outVars
<1>24. CASE Reconnect
  BY <1>24 DEF Cursor, Reconnect, rxVars, queueVars, pollVars, outVars
<1>25. CASE Tick
  BY <1>25 DEF Cursor, Tick, rxVars, queueVars, pollVars, outVars
<1>26. CASE UNCHANGED vars
  BY <1>26 DEF Cursor, vars, rxVars, queueVars, pollVars, outVars
<1> QED
  BY <1>1, <1>2, <1>3, <1>4, <1>5, <1>6, <1>7, <1>8, <1>9, <1>10, <1>11, <1>12, <1>13, <1>14,
     <1>15, <1>16, <1>17, <1>18, <1>19, <1>20, <1>21, <1>22, <1>23, <1>24, <1>25, <1>26 DEF
     Next, Step, Poll, DrainResponses, Receive, Ingest, Expire, Dispatch

-----------------------------------------------------------------------------
(* Taking the first of a queue takes that entry and no other.               *)
LEMMA QueueTail ==
  ASSUME NEW S, NEW s \in Seq(S), s # <<>>, QueueOnce(s)
  PROVE  /\ Head(s).req \in Held(s) /\ Held(Tail(s)) = Held(s) \ {Head(s).req}
         /\ Head(s) \in Elements(s) /\ Elements(Tail(s)) = Elements(s) \ {Head(s)}
         /\ QueueOnce(Tail(s))
<1>1. /\ Head(s) = s[1] /\ 1 \in DOMAIN s
      /\ Len(s) \in Nat \ {0} /\ DOMAIN s = 1..Len(s) /\ DOMAIN Tail(s) = 1..(Len(s) - 1)
      /\ \A k \in 1..(Len(s) - 1) : Tail(s)[k] = s[k + 1]
  BY TailFacts
<1>2. Head(s).req \in Held(s) /\ Head(s) \in Elements(s)
  BY <1>1 DEF Held, Elements
<1>3. /\ Held(Tail(s)) \subseteq Held(s) \ {Head(s).req}
      /\ Elements(Tail(s)) \subseteq Elements(s) \ {Head(s)}
  <2> SUFFICES ASSUME NEW k \in DOMAIN Tail(s)
               PROVE  /\ Tail(s)[k].req \in Held(s) \ {Head(s).req}
                      /\ Tail(s)[k] \in Elements(s) \ {Head(s)}
    BY DEF Held, Elements
  <2>1. Tail(s)[k] = s[k + 1] /\ k + 1 \in DOMAIN s /\ k + 1 # 1
    BY <1>1
  <2> QED
    BY <1>1, <2>1 DEF Held, Elements, QueueOnce
<1>4. /\ Held(s) \ {Head(s).req} \subseteq Held(Tail(s))
      /\ Elements(s) \ {Head(s)} \subseteq Elements(Tail(s))
  <2> SUFFICES ASSUME NEW k \in DOMAIN s, s[k] # Head(s)
               PROVE  s[k].req \in Held(Tail(s)) /\ s[k] \in Elements(Tail(s))
    BY DEF Held, Elements
  <2>1. k - 1 \in DOMAIN Tail(s) /\ Tail(s)[k - 1] = s[k]
    BY <1>1
  <2> QED
    BY <2>1 DEF Held, Elements
<1>5. QueueOnce(Tail(s))
  BY <1>1 DEF QueueOnce
<1> QED
  BY <1>2, <1>3, <1>4, <1>5

(* Queueing a request that is not queued adds it, once.                     *)
LEMMA QueueAppend ==
  ASSUME NEW S, NEW s \in Seq(S), NEW p \in S, QueueOnce(s), p.req \notin Held(s)
  PROVE  /\ Held(Append(s, p)) = Held(s) \cup {p.req}
         /\ Elements(Append(s, p)) = Elements(s) \cup {p} /\ QueueOnce(Append(s, p))
<1>1. /\ Len(s) \in Nat
      /\ DOMAIN s = 1..Len(s) /\ DOMAIN Append(s, p) = 1..(Len(s) + 1)
      /\ \A k \in 1..Len(s) : Append(s, p)[k] = s[k]
      /\ Append(s, p)[Len(s) + 1] = p
  BY AppendFacts
<1>2. Held(Append(s, p)) \subseteq Held(s) \cup {p.req} /\ Elements(Append(s, p)) \subseteq Elements(s) \cup {p}
  <2> SUFFICES ASSUME NEW k \in DOMAIN Append(s, p)
               PROVE  /\ Append(s, p)[k].req \in Held(s) \cup {p.req}
                      /\ Append(s, p)[k] \in Elements(s) \cup {p}
    BY DEF Held, Elements
  <2>1. k \in DOMAIN s \/ k = Len(s) + 1
    BY <1>1
  <2> QED
    BY <1>1, <2>1 DEF Held, Elements
<1>3. p.req \in Held(Append(s, p)) /\ p \in Elements(Append(s, p))
  <2>1. Len(s) + 1 \in DOMAIN Append(s, p)
    BY <1>1
  <2> QED
    BY <1>1, <2>1 DEF Held, Elements
<1>4. Held(s) \subseteq Held(Append(s, p)) /\ Elements(s) \subseteq Elements(Append(s, p))
  <2> SUFFICES ASSUME NEW k \in DOMAIN s
               PROVE  s[k].req \in Held(Append(s, p)) /\ s[k] \in Elements(Append(s, p))
    BY DEF Held, Elements
  <2>1. k \in DOMAIN Append(s, p) /\ Append(s, p)[k] = s[k]
    BY <1>1
  <2> QED
    BY <2>1 DEF Held, Elements
<1>5. QueueOnce(Append(s, p))
  <2> SUFFICES ASSUME NEW j \in DOMAIN Append(s, p), NEW k \in DOMAIN Append(s, p),
                      Append(s, p)[j].req = Append(s, p)[k].req
               PROVE  j = k
    BY DEF QueueOnce
  <2>1. CASE j \in DOMAIN s /\ k \in DOMAIN s
    BY <1>1, <2>1 DEF QueueOnce
  <2>2. CASE j \notin DOMAIN s /\ k \notin DOMAIN s
    BY <1>1, <2>2
  <2>3. CASE j \in DOMAIN s /\ k \notin DOMAIN s
    BY <1>1, <2>3 DEF Held
  <2>4. CASE j \notin DOMAIN s /\ k \in DOMAIN s
    BY <1>1, <2>4 DEF Held
  <2> QED
    BY <2>1, <2>2, <2>3, <2>4
<1> QED
  BY <1>2, <1>3, <1>4, <1>5

(* swap_remove takes the entry at the position it is given and no other.    *)
LEMMA QueueSwap ==
  ASSUME NEW S, NEW s \in Seq(S), NEW k \in DOMAIN s, QueueOnce(s)
  PROVE  /\ s[k].req \in Held(s) /\ Held(SwapRemove(s, k)) = Held(s) \ {s[k].req}
         /\ QueueOnce(SwapRemove(s, k))
<1> DEFINE t == SwapRemove(s, k)
<1>1. /\ Len(s) \in Nat \ {0} /\ DOMAIN s = 1..Len(s) /\ DOMAIN t = 1..(Len(s) - 1)
      /\ \A j \in 1..(Len(s) - 1) : t[j] = IF j = k THEN s[Len(s)] ELSE s[j]
  BY SwapRemoveFacts
<1> HIDE DEF t
<1>2. s[k].req \in Held(s)
  BY DEF Held
<1>3. Held(t) \subseteq Held(s) \ {s[k].req}
  <2> SUFFICES ASSUME NEW j \in DOMAIN t PROVE t[j].req \in Held(s) \ {s[k].req}
    BY DEF Held
  <2>1. CASE j = k
    <3>1. t[j] = s[Len(s)] /\ Len(s) \in DOMAIN s /\ Len(s) # k
      BY <1>1, <2>1
    <3> QED
      BY <3>1 DEF Held, QueueOnce
  <2>2. CASE j # k
    <3>1. t[j] = s[j] /\ j \in DOMAIN s
      BY <1>1, <2>2
    <3> QED
      BY <2>2, <3>1 DEF Held, QueueOnce
  <2> QED
    BY <2>1, <2>2
<1>4. Held(s) \ {s[k].req} \subseteq Held(t)
  <2> SUFFICES ASSUME NEW j \in DOMAIN s, s[j].req # s[k].req PROVE s[j].req \in Held(t)
    BY DEF Held
  <2>1. CASE j = Len(s)
    <3>1. k \in DOMAIN t /\ t[k] = s[j]
      BY <1>1, <2>1
    <3> QED
      BY <3>1 DEF Held
  <2>2. CASE j # Len(s)
    <3>1. j \in DOMAIN t /\ t[j] = s[j]
      BY <1>1, <2>2
    <3> QED
      BY <3>1 DEF Held
  <2> QED
    BY <2>1, <2>2
<1>5. QueueOnce(t)
  <2> SUFFICES ASSUME NEW j \in DOMAIN t, NEW l \in DOMAIN t, t[j].req = t[l].req PROVE j = l
    BY DEF QueueOnce
  <2> DEFINE was(m) == IF m = k THEN Len(s) ELSE m
  <2>1. /\ was(j) \in DOMAIN s /\ was(l) \in DOMAIN s /\ t[j] = s[was(j)] /\ t[l] = s[was(l)]
    BY <1>1
  <2>2. was(j) = was(l)
    <3> HIDE DEF was
    <3> QED
      BY <2>1 DEF QueueOnce
  <2> QED
    BY <1>1, <2>2
<1> QED
  BY <1>2, <1>3, <1>4, <1>5 DEF t

(* Draining a frame takes its request and no other.                         *)
LEMMA FrameTaken ==
  ASSUME TypeOK, FramesOnce(rxed_frame), Ingesting, Drain
  PROVE  /\ Buffered' = Buffered \ {Frame} /\ FramesOnce(rxed_frame')
         /\ Frame # Garbage => Frame \in Buffered /\ Frame \in Requests
         /\ UNCHANGED <<heard, last_recv_us>>
<1> DEFINE s == rxed_frame
<1>1. s \in Seq(Requests \cup {Garbage}) /\ s # <<>> /\ Frame \in Requests \cup {Garbage}
  BY FrameFacts
<1>2. /\ Frame = s[1] /\ 1 \in DOMAIN s
      /\ Len(s) \in Nat \ {0} /\ DOMAIN s = 1..Len(s) /\ DOMAIN Tail(s) = 1..(Len(s) - 1)
      /\ \A k \in 1..(Len(s) - 1) : Tail(s)[k] = s[k + 1]
  BY <1>1, TailFacts DEF Frame
<1>3. rxed_frame' = Tail(s) /\ UNCHANGED <<heard, last_recv_us>>
  BY DEF Drain
<1>4. Elements(Tail(s)) \ {Garbage} \subseteq (Elements(s) \ {Garbage}) \ {Frame}
  <2> SUFFICES ASSUME NEW k \in DOMAIN Tail(s), Tail(s)[k] # Garbage
               PROVE  Tail(s)[k] \in Elements(s) \ {Frame}
    BY DEF Elements
  <2>1. Tail(s)[k] = s[k + 1] /\ k + 1 \in DOMAIN s /\ k + 1 # 1
    BY <1>2
  <2> QED
    BY <1>2, <2>1 DEF Elements, FramesOnce
<1>5. (Elements(s) \ {Garbage}) \ {Frame} \subseteq Elements(Tail(s)) \ {Garbage}
  <2> SUFFICES ASSUME NEW k \in DOMAIN s, s[k] # Frame PROVE s[k] \in Elements(Tail(s))
    BY DEF Elements
  <2>1. k - 1 \in DOMAIN Tail(s) /\ Tail(s)[k - 1] = s[k]
    BY <1>2
  <2> QED
    BY <2>1 DEF Elements
<1>6. FramesOnce(Tail(s))
  BY <1>2 DEF FramesOnce
<1>7. Frame # Garbage => Frame \in Buffered
  BY <1>2 DEF Buffered, Elements
<1> QED
  BY <1>1, <1>3, <1>4, <1>5, <1>6, <1>7 DEF Buffered

(* Frames that arrive are behind the ones received before.                  *)
LEMMA FramesArrive ==
  ASSUME NEW s \in Seq(Requests \cup {Garbage}), NEW t \in Seq(Requests \cup {Garbage}),
         FramesOnce(s), FramesOnce(t), Elements(s) \cap Elements(t) \subseteq {Garbage}
  PROVE  Elements(s \o t) = Elements(s) \cup Elements(t) /\ FramesOnce(s \o t)
<1>1. /\ Len(s) \in Nat /\ Len(t) \in Nat /\ DOMAIN s = 1..Len(s) /\ DOMAIN t = 1..Len(t)
  BY LenProperties
<1>2. /\ s \o t \in Seq(Requests \cup {Garbage}) /\ Len(s \o t) = Len(s) + Len(t)
      /\ \A k \in 1..(Len(s) + Len(t)) :
           (s \o t)[k] = IF k <= Len(s) THEN s[k] ELSE t[k - Len(s)]
  BY ConcatProperties
<1>3. DOMAIN (s \o t) = 1..(Len(s) + Len(t))
  BY <1>2, LenProperties
<1> DEFINE u == s \o t
<1>4. /\ DOMAIN u = 1..(Len(s) + Len(t))
      /\ \A k \in DOMAIN s : k \in DOMAIN u /\ u[k] = s[k]
      /\ \A k \in DOMAIN t : k + Len(s) \in DOMAIN u /\ u[k + Len(s)] = t[k]
      /\ \A k \in DOMAIN u : \/ k \in DOMAIN s /\ u[k] = s[k]
                             \/ k - Len(s) \in DOMAIN t /\ u[k] = t[k - Len(s)]
  BY <1>1, <1>2, <1>3
<1> HIDE DEF u
<1>5. Elements(u) \subseteq Elements(s) \cup Elements(t)
  BY <1>4 DEF Elements
<1>6. Elements(s) \subseteq Elements(u) /\ Elements(t) \subseteq Elements(u)
  BY <1>4 DEF Elements
<1>7. FramesOnce(u)
  <2> SUFFICES ASSUME NEW j \in DOMAIN u, NEW k \in DOMAIN u, u[j] = u[k], u[j] # Garbage
               PROVE  j = k
    BY DEF FramesOnce
  <2>1. CASE j \in DOMAIN s /\ u[j] = s[j] /\ k \in DOMAIN s /\ u[k] = s[k]
    BY <2>1 DEF FramesOnce
  <2>2. CASE /\ j - Len(s) \in DOMAIN t /\ u[j] = t[j - Len(s)]
             /\ k - Len(s) \in DOMAIN t /\ u[k] = t[k - Len(s)]
    <3>1. j - Len(s) = k - Len(s)
      BY <2>2 DEF FramesOnce
    <3> QED
      BY <1>1, <1>4, <3>1
  <2>3. CASE j \in DOMAIN s /\ u[j] = s[j] /\ k - Len(s) \in DOMAIN t /\ u[k] = t[k - Len(s)]
    BY <2>3 DEF Elements
  <2>4. CASE k \in DOMAIN s /\ u[k] = s[k] /\ j - Len(s) \in DOMAIN t /\ u[j] = t[j - Len(s)]
    BY <2>4 DEF Elements
  <2> QED
    BY <1>4, <2>1, <2>2, <2>3, <2>4
<1> QED
  BY <1>5, <1>6, <1>7 DEF u

(* Requests that end are over, once.                                        *)
LEMMA OverEnds ==
  ASSUME TypeOK, OverOnce, NEW R \in SUBSET Requests, R \cap Over = {}, NEW fate \in Fate,
         Ended(R, fate)
  PROVE  Over' = Over \cup R /\ OverOnce'
<1>1. ASSUME NEW r \in R PROVE fates'[r] # <<>> /\ Len(fates'[r]) = 1
  <2>1. fates[r] = <<>> /\ fates'[r] = Append(fates[r], fate)
    BY DEF Over, Ended
  <2>2. fates'[r] = <<fate>>
    BY <2>1
  <2> QED
    BY <2>2
<1>2. ASSUME NEW r \in Requests \ R PROVE fates'[r] = fates[r]
  BY DEF Ended
<1>3. Over' = Over \cup R
  BY <1>1, <1>2 DEF Over
<1>4. OverOnce'
  <2> SUFFICES ASSUME NEW r \in Requests PROVE Len(fates'[r]) <= 1
    BY DEF OverOnce
  <2>1. CASE r \in R
    <3>1. Len(fates'[r]) = 1
      BY <1>1, <2>1
    <3> QED
      BY <3>1
  <2>2. CASE r \notin R
    BY <1>2, <2>2 DEF OverOnce
  <2> QED
    BY <2>1, <2>2
<1> QED
  BY <1>3, <1>4

(* Nothing is over that was not, when nothing ends.                         *)
LEMMA OverSame ==
  ASSUME OverOnce, UNCHANGED fates
  PROVE  Over' = Over /\ OverOnce'
BY DEF Over, OverOnce

(* A response is queued or over afterwards, whatever the transport does and *)
(* whether there is room.                                                   *)
Answering(r) ==
  /\ QueueOnce(response_queue') /\ OverOnce'
  /\ \/ Held(response_queue') = Held(response_queue) \cup {r} /\ Over' = Over
     \/ Held(response_queue') = Held(response_queue) /\ Over' = Over \cup {r}

(* It is so for a response that goes to the queue,                          *)
LEMMA EnqueueKeeps ==
  ASSUME TypeOK, Once, NEW r \in Requests, r \notin Held(response_queue) \cup Over,
         NEW what \in {"answer", "refusal"}, NEW at \in Nat, NEW turnaround \in BOOLEAN,
         Enqueue(r, what, at, turnaround)
  PROVE  Answering(r)
<1> DEFINE p == [req |-> r, what |-> what, retry_count |-> 0, queued_at_us |-> at,
                 is_turnaround_delay |-> turnaround]
<1>1. p \in PendingResponse /\ p.req = r
  BY DEF PendingResponse
<1>2. CASE HasRoom
  <2>1. response_queue' = Append(response_queue, p) /\ UNCHANGED fates
    BY <1>2 DEF Enqueue
  <2> HIDE DEF p
  <2>2. response_queue \in Seq(PendingResponse) /\ QueueOnce(response_queue) /\ OverOnce
    BY DEF TypeOK, Once
  <2>3. Held(response_queue') = Held(response_queue) \cup {r} /\ QueueOnce(response_queue')
    BY <1>1, <2>1, <2>2, QueueAppend
  <2> QED
    BY <2>1, <2>2, <2>3, OverSame DEF Answering
<1>3. CASE ~HasRoom
  <2>1. End(r, "overflow") /\ UNCHANGED response_queue
    BY <1>3 DEF Enqueue
  <2>2. Ended({r}, "overflow")
    BY <2>1, EndType DEF TypeOK, Fate
  <2>3. Over' = Over \cup {r} /\ OverOnce'
    BY <2>2, OverEnds DEF Once, Fate
  <2> QED
    BY <2>1, <2>3 DEF Answering, Once
<1> QED
  BY <1>2, <1>3

(* and for one passed to the transport.                                     *)
LEMMA RespondKeeps ==
  ASSUME TypeOK, Once, NEW r \in Requests, r \notin Held(response_queue) \cup Over,
         NEW what \in {"answer", "refusal"}, Respond(r, what)
  PROVE  Answering(r)
<1>1. last_recv_us \in Nat /\ now \in Nat
  BY DEF TypeOK
<1>2. CASE Enqueue(r, what, last_recv_us, TRUE)
  BY <1>1, <1>2, EnqueueKeeps
<1>3. CASE Enqueue(r, what, now, FALSE)
  BY <1>1, <1>3, EnqueueKeeps
<1>4. CASE End(r, what) /\ UNCHANGED response_queue
  <2>1. Ended({r}, what)
    BY <1>4, EndType DEF TypeOK, Fate
  <2>2. Over' = Over \cup {r} /\ OverOnce'
    BY <2>1, OverEnds DEF Once, Fate
  <2> QED
    BY <1>4, <2>2 DEF Answering, Once
<1> QED
  BY <1>2, <1>3, <1>4 DEF Respond, SendNow

(* A request discarded in silence is over.                                  *)
LEMMA SilentlyKeeps ==
  ASSUME TypeOK, Once, NEW r \in Requests, r \notin Held(response_queue) \cup Over, Silently(r)
  PROVE  Ended({r}, "discarded") /\ Answering(r) /\ UNCHANGED <<response_queue, attempts>>
<1>1. Ended({r}, "discarded") /\ UNCHANGED <<response_queue, attempts>>
  BY EndType DEF TypeOK, Fate, Silently
<1>2. Over' = Over \cup {r} /\ OverOnce'
  BY <1>1, OverEnds DEF Once, Fate
<1> QED
  BY <1>1, <1>2 DEF Answering, Once

(* A step that moves no request changes nothing about where they are.       *)
LEMMA QuietKeeps ==
  ASSUME Kept, UNCHANGED <<rxed_frame, request_queue, expired, response_queue, fates, heard>>,
         UNCHANGED <<last_recv_us, executed, attempts>>, now <= now'
  PROVE  Kept' /\ Effect
<1>1. Over' = Over /\ OverOnce' /\ Buffered' = Buffered /\ Unheard' = Unheard
  BY OverSame DEF Kept, Once, Buffered, Unheard
<1>2. Kept'
  BY <1>1 DEF Kept, Once, Apart, Ours, Open
<1>3. Quiet
  BY DEF Quiet, Responses
<1> QED
  BY <1>2, <1>3 DEF Effect

(* Emptying the receive buffer ends what was in it.                         *)
LEMMA ClearedKeeps ==
  ASSUME TypeOK, Kept, ClearRxedFrame,
         UNCHANGED <<request_queue, expired, response_queue, heard, last_recv_us, now, executed, attempts>>
  PROVE  Kept' /\ Effect
<1>1. rxed_frame' = <<>> /\ Ended(Buffered, "lost")
  BY LostType DEF ClearRxedFrame, TypeOK
<1>2. Buffered' = {} /\ FramesOnce(rxed_frame') /\ Unheard' = Unheard /\ Clocks
  BY <1>1 DEF Buffered, Elements, FramesOnce, Unheard, Clocks
<1>3. Buffered \in SUBSET Requests /\ Buffered \in SUBSET Open /\ Buffered \cap Over = {}
  BY DEF Kept, Apart, Open, Unheard
<1>4. Over' = Over \cup Buffered /\ OverOnce'
  BY <1>1, <1>3, OverEnds DEF Kept, Once, Fate
<1>5. Kept'
  BY <1>2, <1>3, <1>4 DEF Kept, Once, Apart, Ours, Open
<1>6. Dismissed
  BY <1>1, <1>2, <1>3 DEF Dismissed
<1> QED
  BY <1>5, <1>6 DEF Effect

(* A request given to its handler, or ignored in listen-only mode, is       *)
(* answered or over.                                                        *)
LEMMA ExecuteKeeps ==
  ASSUME TypeOK, Kept, NEW r \in Requests, r \in Open, r.unit = Own,
         r \notin Held(response_queue) \cup Over, Execute(r), Clocks
  PROVE  Answering(r) /\ Effect
<1>1. CASE Silently(r) /\ UNCHANGED executed
  <2>1. Ended({r}, "discarded") /\ Answering(r) /\ UNCHANGED <<response_queue, attempts>>
    BY <1>1, SilentlyKeeps DEF Kept
  <2>2. {r} \in SUBSET Open
    OBVIOUS
  <2>3. Dismissed
    BY <1>1, <2>1, <2>2 DEF Dismissed
  <2> QED
    BY <2>1, <2>3 DEF Effect
<1>2. CASE Silently(r) /\ executed' = [executed EXCEPT ![r] = @ + 1]
  <2>1. Ended({r}, "discarded") /\ Answering(r) /\ UNCHANGED <<response_queue, attempts>>
    BY <1>2, SilentlyKeeps DEF Kept
  <2>2. CarriedOut
    BY <1>2, <2>1 DEF CarriedOut
  <2> QED
    BY <2>1, <2>2 DEF Effect
<1>3. CASE Respond(r, "answer") /\ executed' = [executed EXCEPT ![r] = @ + 1]
  <2>1. Answering(r)
    BY <1>3, RespondKeeps DEF Kept
  <2>2. Handled
    BY <1>3 DEF Handled
  <2> QED
    BY <2>1, <2>2 DEF Effect
<1> QED
  BY <1>1, <1>2, <1>3, ExecuteCases

(* No step loses a request, duplicates one, or ends it twice, and every     *)
(* step is of one of the kinds above.                                       *)
LEMMA KeptStep ==
  ASSUME TypeOK, Cursor, Kept, [Next]_vars
  PROVE  Kept' /\ Effect
<1>1. CASE BeginPoll
  <2>1. UNCHANGED <<rxed_frame, request_queue, expired, response_queue, fates, heard>>
    BY <1>1 DEF BeginPoll, rxVars, queueVars, pollVars, outVars
  <2>2. UNCHANGED <<last_recv_us, executed, attempts>> /\ now <= now'
    BY <1>1 DEF BeginPoll, TypeOK, rxVars, outVars
  <2> QED
    BY <2>1, <2>2, QuietKeeps
<1>2. CASE DropExhausted
  <2> DEFINE p == Head(response_queue)
             tl == Tail(response_queue)
  <2>1. /\ response_queue \in Seq(PendingResponse) /\ response_queue # <<>> /\ QueueOnce(response_queue)
        /\ p \in PendingResponse /\ p.req \in Requests /\ tl \in Seq(PendingResponse)
    BY <1>2, FrontFacts DEF DropExhausted, Retryable, Kept, Once
  <2>2. /\ p.req \in Held(response_queue) /\ Held(tl) = Held(response_queue) \ {p.req}
        /\ p \in Elements(response_queue) /\ Elements(tl) = Elements(response_queue) \ {p}
        /\ QueueOnce(tl)
    BY <2>1, QueueTail
  <2>3. /\ UNCHANGED <<rxed_frame, request_queue, expired, heard, last_recv_us, now, executed>>
    BY <1>2 DEF DropExhausted, rxVars, outVars
  <2>4. Buffered' = Buffered /\ Unheard' = Unheard /\ Clocks
    BY <2>3 DEF Buffered, Unheard, Clocks
  <2>5. response_queue' = tl /\ UNCHANGED attempts
    BY <1>2 DEF DropExhausted
  <2>6. Ended({p.req}, "exhausted")
    BY <1>2, <2>1, EndType DEF DropExhausted, TypeOK, Fate
  <2> HIDE DEF p, tl
  <2>7. Over' = Over \cup {p.req} /\ OverOnce'
    BY <2>1, <2>2, <2>6, OverEnds DEF Kept, Once, Apart, Fate
  <2>8. Kept'
    BY <2>2, <2>3, <2>4, <2>5, <2>7 DEF Kept, Once, Apart, Ours, Open
  <2>9. Retried
    BY <2>2, <2>3, <2>4, <2>5, <2>6 DEF Retried, Responses
  <2> QED
    BY <2>8, <2>9 DEF Effect
<1>3. CASE DelayRetry
  <2> DEFINE p == Head(response_queue)
             tl == Tail(response_queue)
  <2>1. /\ response_queue \in Seq(PendingResponse) /\ response_queue # <<>> /\ QueueOnce(response_queue)
        /\ p \in PendingResponse /\ p.req \in Requests /\ tl \in Seq(PendingResponse)
    BY <1>3, FrontFacts DEF DelayRetry, Retryable, Kept, Once
  <2>2. /\ p.req \in Held(response_queue) /\ Held(tl) = Held(response_queue) \ {p.req}
        /\ p \in Elements(response_queue) /\ Elements(tl) = Elements(response_queue) \ {p}
        /\ QueueOnce(tl)
    BY <2>1, QueueTail
  <2>3. /\ UNCHANGED <<rxed_frame, request_queue, expired, heard, last_recv_us, now, executed>>
    BY <1>3 DEF DelayRetry, rxVars, outVars
  <2>4. Buffered' = Buffered /\ Unheard' = Unheard /\ Clocks
    BY <2>3 DEF Buffered, Unheard, Clocks
  <2>5. response_queue' = Append(tl, p) /\ UNCHANGED <<fates, attempts>>
    BY <1>3 DEF DelayRetry, outVars
  <2> HIDE DEF p, tl
  <2>6. p.req \notin Held(tl)
    BY <2>2
  <2>7. /\ Held(response_queue') = Held(response_queue) /\ QueueOnce(response_queue')
        /\ Elements(response_queue') = Elements(response_queue)
    <3>1. /\ Held(Append(tl, p)) = Held(tl) \cup {p.req} /\ QueueOnce(Append(tl, p))
          /\ Elements(Append(tl, p)) = Elements(tl) \cup {p}
      BY <2>1, <2>2, <2>6, QueueAppend
    <3> QED
      BY <2>2, <2>5, <3>1
  <2>8. Over' = Over /\ OverOnce'
    BY <2>5, OverSame DEF Kept, Once
  <2>9. Kept'
    BY <2>3, <2>4, <2>7, <2>8 DEF Kept, Once, Apart, Ours, Open
  <2>10. Quiet
    BY <2>3, <2>5, <2>7 DEF Quiet, Responses, TypeOK
  <2> QED
    BY <2>9, <2>10 DEF Effect
<1>4. CASE RetryOk
  <2> DEFINE p == Head(response_queue)
             tl == Tail(response_queue)
  <2>1. /\ response_queue \in Seq(PendingResponse) /\ response_queue # <<>> /\ QueueOnce(response_queue)
        /\ p \in PendingResponse /\ p.req \in Requests /\ tl \in Seq(PendingResponse)
    BY <1>4, FrontFacts DEF RetryOk, Retryable, Kept, Once
  <2>2. /\ p.req \in Held(response_queue) /\ Held(tl) = Held(response_queue) \ {p.req}
        /\ p \in Elements(response_queue) /\ Elements(tl) = Elements(response_queue) \ {p}
        /\ QueueOnce(tl)
    BY <2>1, QueueTail
  <2>3. /\ UNCHANGED <<rxed_frame, request_queue, expired, heard, last_recv_us, now, executed>>
    BY <1>4 DEF RetryOk, rxVars, outVars
  <2>4. Buffered' = Buffered /\ Unheard' = Unheard /\ Clocks
    BY <2>3 DEF Buffered, Unheard, Clocks
  <2>5. response_queue' = tl /\ attempts' = [attempts EXCEPT ![p.req] = Append(@, now)]
    BY <1>4 DEF RetryOk, Attempt
  <2>6. ~Exhausted(p) /\ ~Delayed(p)
    BY <1>4 DEF RetryOk, Retryable
  <2>7. Ended({p.req}, p.what) /\ p.what \in Fate
    BY <1>4, <2>1, EndType DEF RetryOk, TypeOK, Fate, PendingResponse
  <2> HIDE DEF p, tl
  <2>8. Over' = Over \cup {p.req} /\ OverOnce'
    <3>1. {p.req} \in SUBSET Requests /\ {p.req} \cap Over = {} /\ OverOnce
      BY <2>1, <2>2 DEF Kept, Once, Apart
    <3> QED
      BY <2>7, <3>1, OverEnds
  <2>9. Kept'
    BY <2>2, <2>3, <2>4, <2>5, <2>8 DEF Kept, Once, Apart, Ours, Open
  <2>10. Resent(p)
    BY <2>2, <2>5, <2>6, <2>7 DEF Resent, Responses
  <2>11. Retried
    BY <2>2, <2>3, <2>4, <2>10 DEF Retried, Responses
  <2> QED
    BY <2>9, <2>11 DEF Effect
<1>5. CASE RetryFailed
  <2> DEFINE p == Head(response_queue)
             tl == Tail(response_queue)
  <2>1. /\ response_queue \in Seq(PendingResponse) /\ response_queue # <<>> /\ QueueOnce(response_queue)
        /\ p \in PendingResponse /\ p.req \in Requests /\ tl \in Seq(PendingResponse)
    BY <1>5, FrontFacts DEF RetryFailed, Retryable, Kept, Once
  <2>2. /\ p.req \in Held(response_queue) /\ Held(tl) = Held(response_queue) \ {p.req}
        /\ p \in Elements(response_queue) /\ Elements(tl) = Elements(response_queue) \ {p}
        /\ QueueOnce(tl)
    BY <2>1, QueueTail
  <2>3. /\ UNCHANGED <<rxed_frame, request_queue, expired, heard, last_recv_us, now, executed>>
    BY <1>5 DEF RetryFailed, rxVars, outVars
  <2>4. Buffered' = Buffered /\ Unheard' = Unheard /\ Clocks
    BY <2>3 DEF Buffered, Unheard, Clocks
  <2>5. /\ response_queue' = Append(tl, Again(p)) /\ UNCHANGED fates
        /\ attempts' = [attempts EXCEPT ![p.req] = Append(@, now)]
    BY <1>5 DEF RetryFailed, Attempt, Again
  <2>6. ~Exhausted(p) /\ ~Delayed(p)
    BY <1>5 DEF RetryFailed, Retryable
  <2> HIDE DEF p, tl
  <2>7. Again(p) \in PendingResponse /\ Again(p).req = p.req /\ Again(p).req \notin Held(tl)
    BY <2>1, <2>2, AgainFacts
  <2>8. /\ Held(response_queue') = Held(response_queue) /\ QueueOnce(response_queue')
        /\ Elements(response_queue') = (Elements(response_queue) \ {p}) \cup {Again(p)}
    <3>1. /\ Held(Append(tl, Again(p))) = Held(tl) \cup {p.req} /\ QueueOnce(Append(tl, Again(p)))
          /\ Elements(Append(tl, Again(p))) = Elements(tl) \cup {Again(p)}
      BY <2>1, <2>2, <2>7, QueueAppend
    <3> QED
      BY <2>2, <2>5, <3>1
  <2>9. Over' = Over /\ OverOnce'
    BY <2>5, OverSame DEF Kept, Once
  <2>10. Kept'
    BY <2>3, <2>4, <2>8, <2>9 DEF Kept, Once, Apart, Ours, Open
  <2>11. Resent(p)
    BY <2>5, <2>6, <2>8 DEF Resent, Responses
  <2>12. Retried
    BY <2>2, <2>3, <2>4, <2>11 DEF Retried, Responses
  <2> QED
    BY <2>10, <2>12 DEF Effect
<1>6. CASE RecvOk
  <2>1. PICK new \in Arrivals :
          /\ heard' = [r \in Requests |-> IF r \in Elements(rxed_frame \o new) THEN now ELSE heard[r]]
          /\ IF Len(rxed_frame) + Len(new) <= RxCapacity
             THEN rxed_frame' = rxed_frame \o new /\ UNCHANGED fates
             ELSE rxed_frame' = <<>> /\ Lost(Buffered \cup (Elements(new) \ {Garbage}))
    BY <1>6 DEF RecvOk
  <2>2. /\ UNCHANGED <<request_queue, expired, response_queue, now, executed, attempts>>
        /\ last_recv_us' = now
    BY <1>6 DEF RecvOk, queueVars
  <2>3. /\ new \in Seq(Requests \cup {Garbage}) /\ FramesOnce(new)
        /\ Elements(new) \subseteq Unheard \cup {Garbage}
    BY ArrivalFacts
  <2> DEFINE N == Elements(new) \ {Garbage}
  <2>4. N \in SUBSET Unheard /\ N \subseteq Requests /\ N \cap Buffered = {}
        /\ N \cap (Held(request_queue) \cup Held(expired) \cup Held(response_queue) \cup Over) = {}
        /\ Buffered \subseteq Requests
    BY <2>3 DEF Kept, Apart, Open, Unheard
  <2>5. rxed_frame \in Seq(Requests \cup {Garbage}) /\ FramesOnce(rxed_frame)
    BY DEF TypeOK, Kept, Once
  <2>6. Elements(rxed_frame) \cap Elements(new) \subseteq {Garbage}
    BY <2>4 DEF Buffered
  <2>7. /\ Elements(rxed_frame \o new) = Elements(rxed_frame) \cup Elements(new)
        /\ FramesOnce(rxed_frame \o new)
    BY <2>3, <2>5, <2>6, FramesArrive
  <2>8. Garbage \notin Requests /\ now \in Nat
    BY GarbageAssumption DEF TypeOK
  <2>9. heard' = [r \in Requests |-> IF r \in Buffered \cup N THEN now ELSE heard[r]]
    BY <2>1, <2>7, <2>8 DEF Buffered
  <2> HIDE DEF N
  <2>10. Unheard' = Unheard \ (Buffered \cup N)
    <3>1. \A r \in Requests : heard'[r] = IF r \in Buffered \cup N THEN now ELSE heard[r]
      BY <2>9
    <3>2. now # -1
      BY <2>8
    <3> QED
      BY <3>1, <3>2 DEF Unheard
  <2>11. CASE Len(rxed_frame) + Len(new) <= RxCapacity
    <3>1. rxed_frame' = rxed_frame \o new /\ UNCHANGED fates
      BY <2>1, <2>11
    <3>2. Buffered' = Buffered \cup N /\ FramesOnce(rxed_frame')
      BY <2>7, <3>1 DEF Buffered, N
    <3>3. Over' = Over /\ OverOnce'
      BY <3>1, OverSame DEF Kept, Once
    <3>4. Kept'
      BY <2>2, <2>4, <2>10, <3>2, <3>3 DEF Kept, Once, Apart, Ours, Open
    <3>5. Received
      BY <2>2, <2>4, <2>9, <3>1 DEF Received
    <3> QED
      BY <3>4, <3>5 DEF Effect
  <2>12. CASE ~(Len(rxed_frame) + Len(new) <= RxCapacity)
    <3>1. rxed_frame' = <<>> /\ Lost(Buffered \cup N)
      BY <2>1, <2>12 DEF N
    <3>2. Buffered' = {} /\ FramesOnce(rxed_frame')
      BY <3>1 DEF Buffered, Elements, FramesOnce
    <3>3. Ended(Buffered \cup N, "lost")
      BY <3>1, LostType DEF TypeOK
    <3>4. Over' = Over \cup (Buffered \cup N) /\ OverOnce'
      <4>1. Buffered \cup N \in SUBSET Requests /\ (Buffered \cup N) \cap Over = {}
        BY <2>4 DEF Kept, Apart
      <4> QED
        BY <3>3, <4>1, OverEnds DEF Kept, Once, Fate
    <3>5. Kept'
      BY <2>2, <2>4, <2>10, <3>2, <3>4 DEF Kept, Once, Apart, Ours, Open
    <3>6. Received
      BY <2>2, <2>4, <2>9, <3>3 DEF Received
    <3> QED
      BY <3>5, <3>6 DEF Effect
  <2> QED
    BY <2>11, <2>12
<1>7. CASE RecvNothing
  <2>1. UNCHANGED <<rxed_frame, request_queue, expired, response_queue, fates, heard>>
    BY <1>7 DEF RecvNothing, rxVars, queueVars, pollVars, outVars
  <2>2. UNCHANGED <<last_recv_us, executed, attempts>> /\ now <= now'
    BY <1>7 DEF RecvNothing, TypeOK, rxVars, outVars
  <2> QED
    BY <2>1, <2>2, QuietKeeps
<1>8. CASE RecvFailed
  <2>1. /\ ClearRxedFrame
        /\ UNCHANGED <<request_queue, expired, response_queue, heard, last_recv_us, now, executed, attempts>>
    BY <1>8 DEF RecvFailed, queueVars, pollVars
  <2> QED
    BY <2>1, ClearedKeeps
<1>9. CASE Resync
  <2>1. /\ Buffered' = Buffered \ {Frame} /\ FramesOnce(rxed_frame')
        /\ Frame # Garbage => Frame \in Buffered /\ Frame \in Requests
        /\ UNCHANGED <<heard, last_recv_us>>
    BY <1>9, FrameTaken DEF Resync, Kept, Once
  <2>2. /\ Frame = Garbage
        /\ UNCHANGED <<request_queue, expired, response_queue, fates, now, executed, attempts>>
    BY <1>9 DEF Resync, queueVars, pollVars, outVars
  <2>3. Buffered' = Buffered /\ Unheard' = Unheard
    BY <2>1, <2>2 DEF Buffered, Unheard
  <2>4. Over' = Over /\ OverOnce'
    BY <2>2, OverSame DEF Kept, Once
  <2>5. Kept'
    BY <2>1, <2>2, <2>3, <2>4 DEF Kept, Once, Apart, Ours, Open
  <2>6. Quiet
    BY <2>1, <2>2 DEF Quiet, Responses, TypeOK
  <2> QED
    BY <2>5, <2>6 DEF Effect
<1>10. CASE Unsupported
  <2>1. /\ Buffered' = Buffered \ {Frame} /\ FramesOnce(rxed_frame')
        /\ Frame # Garbage => Frame \in Buffered /\ Frame \in Requests
        /\ UNCHANGED <<heard, last_recv_us>>
    BY <1>10, FrameTaken DEF Unsupported, Kept, Once
  <2>2. /\ Frame \in Buffered /\ Frame \in Requests /\ Frame \in Open /\ Frame \notin Over
        /\ UNCHANGED <<request_queue, expired, response_queue, now>>
    BY <1>10, <2>1 DEF Unsupported, queueVars, pollVars, Open, Kept, Apart
  <2>3. Clocks /\ Unheard' = Unheard
    BY <2>1, <2>2 DEF Clocks, Unheard
  <2>4. UNCHANGED executed /\ attempts' \in {attempts, [attempts EXCEPT ![Frame] = Append(@, now)]}
    BY <1>10 DEF Unsupported
  <2>5. Ended({Frame}, "refusal") \/ Ended({Frame}, "discarded")
    BY <1>10, <2>2, EndType DEF Unsupported, TypeOK, Fate
  <2>6. Over' = Over \cup {Frame} /\ OverOnce'
    BY <2>2, <2>5, OverEnds DEF Kept, Once, Fate
  <2>7. Kept'
    BY <2>1, <2>2, <2>3, <2>6 DEF Kept, Once, Apart, Ours, Open
  <2>8. Frame.op = "unsupported"
    BY <1>10 DEF Unsupported
  <2>9. Unknown
    BY <2>2, <2>3, <2>4, <2>5, <2>8 DEF Unknown
  <2> QED
    BY <2>7, <2>9 DEF Effect
<1>11. CASE BroadcastWrite
  <2>1. /\ Buffered' = Buffered \ {Frame} /\ FramesOnce(rxed_frame')
        /\ Frame # Garbage => Frame \in Buffered /\ Frame \in Requests
        /\ UNCHANGED <<heard, last_recv_us>>
    BY <1>11, FrameTaken DEF BroadcastWrite, Kept, Once
  <2>2. /\ Frame \in Buffered /\ Frame \in Requests /\ Frame \in Open /\ Frame \notin Over
        /\ UNCHANGED <<request_queue, expired, response_queue, now>>
    BY <1>11, <2>1 DEF BroadcastWrite, queueVars, pollVars, Open, Kept, Apart
  <2>3. Clocks /\ Unheard' = Unheard
    BY <2>1, <2>2 DEF Clocks, Unheard
  <2>4. /\ UNCHANGED attempts /\ executed' = [executed EXCEPT ![Frame] = @ + 1]
        /\ IsBroadcastWrite(Frame)
    BY <1>11 DEF BroadcastWrite
  <2>5. Ended({Frame}, "discarded")
    BY <1>11, <2>2, EndType DEF BroadcastWrite, TypeOK, Fate
  <2>6. Over' = Over \cup {Frame} /\ OverOnce'
    BY <2>2, <2>5, OverEnds DEF Kept, Once, Fate
  <2>7. Kept'
    BY <2>1, <2>2, <2>3, <2>6 DEF Kept, Once, Apart, Ours, Open
  <2>8. CarriedOut
    BY <2>2, <2>3, <2>4, <2>5 DEF CarriedOut
  <2> QED
    BY <2>7, <2>8 DEF Effect
<1>12. CASE DropForAddress
  <2>1. /\ Buffered' = Buffered \ {Frame} /\ FramesOnce(rxed_frame')
        /\ Frame # Garbage => Frame \in Buffered /\ Frame \in Requests
        /\ UNCHANGED <<heard, last_recv_us>>
    BY <1>12, FrameTaken DEF DropForAddress, Kept, Once
  <2>2. /\ Frame \in Buffered /\ Frame \in Requests /\ Frame \in Open /\ Frame \notin Over
        /\ UNCHANGED <<request_queue, expired, response_queue, now>>
    BY <1>12, <2>1 DEF DropForAddress, queueVars, pollVars, Open, Kept, Apart
  <2>3. Clocks /\ Unheard' = Unheard
    BY <2>1, <2>2 DEF Clocks, Unheard
  <2>4. UNCHANGED <<attempts, executed>>
    BY <1>12 DEF DropForAddress
  <2>5. Ended({Frame}, "discarded")
    BY <1>12, <2>2, EndType DEF DropForAddress, TypeOK, Fate
  <2>6. Over' = Over \cup {Frame} /\ OverOnce'
    BY <2>2, <2>5, OverEnds DEF Kept, Once, Fate
  <2>7. Kept'
    BY <2>1, <2>2, <2>3, <2>6 DEF Kept, Once, Apart, Ours, Open
  <2>8. Dismissed
    <3>1. {Frame} \in SUBSET Open
      BY <2>2
    <3> QED
      BY <2>2, <2>3, <2>4, <2>5, <3>1 DEF Dismissed
  <2> QED
    BY <2>7, <2>8 DEF Effect
<1>13. CASE Reject
  <2>1. /\ Buffered' = Buffered \ {Frame} /\ FramesOnce(rxed_frame')
        /\ Frame # Garbage => Frame \in Buffered /\ Frame \in Requests
        /\ UNCHANGED <<heard, last_recv_us>>
    BY <1>13, FrameTaken DEF Reject, Addressed, Misaddressed, Kept, Once
  <2>2. /\ Frame \in Buffered /\ Frame \in Requests /\ Frame \in Open /\ Frame.unit = Own
        /\ Frame \notin Held(request_queue) \cup Held(expired) \cup Held(response_queue) \cup Over
    BY <1>13, <2>1 DEF Reject, Addressed, Misaddressed, Open, Kept, Apart
  <2>3. Respond(Frame, "refusal") /\ UNCHANGED <<request_queue, expired, now, executed>>
    BY <1>13 DEF Reject, pollVars
  <2>4. Clocks /\ Unheard' = Unheard
    BY <2>1, <2>3 DEF Clocks, Unheard
  <2>5. Answering(Frame)
    BY <2>2, <2>3, RespondKeeps DEF Kept
  <2>6. Kept'
    BY <2>1, <2>2, <2>3, <2>4, <2>5 DEF Answering, Kept, Once, Apart, Ours, Open
  <2>7. Handled
    BY <2>2, <2>3, <2>4 DEF Handled
  <2> QED
    BY <2>6, <2>7 DEF Effect
<1>14. CASE QueueRequest
  <2>1. /\ Buffered' = Buffered \ {Frame} /\ FramesOnce(rxed_frame')
        /\ Frame # Garbage => Frame \in Buffered /\ Frame \in Requests
        /\ UNCHANGED <<heard, last_recv_us>>
    BY <1>14, FrameTaken DEF QueueRequest, Addressed, Misaddressed, Kept, Once
  <2>2. /\ Frame \in Buffered /\ Frame \in Requests /\ Frame \in Open /\ Frame.unit = Own
        /\ Frame \notin Held(request_queue) \cup Held(expired) \cup Held(response_queue) \cup Over
    BY <1>14, <2>1 DEF QueueRequest, Addressed, Misaddressed, Open, Kept, Apart
  <2> DEFINE q == [req |-> Frame, priority |-> Priority(Frame), received_at_us |-> now]
  <2>3. q \in PendingRequest /\ q.req = Frame
    BY <2>2, PendingFacts
  <2>4. /\ request_queue' = Append(request_queue, q)
        /\ UNCHANGED <<expired, response_queue, now, executed, fates, attempts>>
    BY <1>14 DEF QueueRequest, pollVars, outVars
  <2> HIDE DEF q
  <2>5. Held(request_queue') = Held(request_queue) \cup {Frame} /\ QueueOnce(request_queue')
    <3>1. request_queue \in Seq(PendingRequest) /\ QueueOnce(request_queue) /\ q.req \notin Held(request_queue)
      BY <2>2, <2>3 DEF TypeOK, Kept, Once
    <3> QED
      BY <2>3, <2>4, <3>1, QueueAppend
  <2>6. Unheard' = Unheard
    BY <2>1 DEF Unheard
  <2>7. Over' = Over /\ OverOnce'
    BY <2>4, OverSame DEF Kept, Once
  <2>8. Kept'
    BY <2>1, <2>2, <2>4, <2>5, <2>6, <2>7 DEF Kept, Once, Apart, Ours, Open
  <2>9. Quiet
    BY <2>1, <2>4 DEF Quiet, Responses, TypeOK
  <2> QED
    BY <2>8, <2>9 DEF Effect
<1>15. CASE DispatchImmediately
  <2>1. /\ Buffered' = Buffered \ {Frame} /\ FramesOnce(rxed_frame')
        /\ Frame # Garbage => Frame \in Buffered /\ Frame \in Requests
        /\ UNCHANGED <<heard, last_recv_us>>
    BY <1>15, FrameTaken DEF DispatchImmediately, Addressed, Misaddressed, Kept, Once
  <2>2. /\ Frame \in Buffered /\ Frame \in Requests /\ Frame \in Open /\ Frame.unit = Own
        /\ Frame \notin Held(request_queue) \cup Held(expired) \cup Held(response_queue) \cup Over
    BY <1>15, <2>1 DEF DispatchImmediately, Addressed, Misaddressed, Open, Kept, Apart
  <2>3. Execute(Frame) /\ UNCHANGED <<request_queue, expired, now>>
    BY <1>15 DEF DispatchImmediately, pollVars
  <2>4. Clocks /\ Unheard' = Unheard
    BY <2>1, <2>3 DEF Clocks, Unheard
  <2>5. Answering(Frame) /\ Effect
    BY <2>2, <2>3, <2>4, ExecuteKeeps
  <2>6. Kept'
    BY <2>1, <2>2, <2>3, <2>4, <2>5 DEF Answering, Kept, Once, Apart, Ours, Open
  <2> QED
    BY <2>5, <2>6
<1>16. CASE IngestEnd
  <2>1. UNCHANGED <<rxed_frame, request_queue, expired, response_queue, fates, heard>>
    BY <1>16 DEF IngestEnd, rxVars, queueVars, pollVars, outVars
  <2>2. UNCHANGED <<last_recv_us, executed, attempts>> /\ now <= now'
    BY <1>16 DEF IngestEnd, TypeOK, rxVars, outVars
  <2> QED
    BY <2>1, <2>2, QuietKeeps
<1>17. CASE KeepFresh
  <2>1. UNCHANGED <<rxed_frame, request_queue, expired, response_queue, fates, heard>>
    BY <1>17 DEF KeepFresh, rxVars, queueVars, pollVars, outVars
  <2>2. UNCHANGED <<last_recv_us, executed, attempts>> /\ now <= now'
    BY <1>17 DEF KeepFresh, TypeOK, rxVars, outVars
  <2> QED
    BY <2>1, <2>2, QuietKeeps
<1>18. CASE TakeExpired
  <2> DEFINE q == request_queue[i]
  <2>1. i \in DOMAIN request_queue /\ q \in PendingRequest /\ q.req \in Requests
    BY <1>18, ScanFacts DEF TakeExpired, PendingRequest
  <2>2. /\ request_queue' = SwapRemove(request_queue, i)
        /\ UNCHANGED <<rxed_frame, response_queue, heard, last_recv_us, now, executed, attempts>>
    BY <1>18 DEF TakeExpired, rxVars
  <2>3. /\ q.req \in Held(request_queue) /\ Held(request_queue') = Held(request_queue) \ {q.req}
        /\ QueueOnce(request_queue')
    BY <2>1, <2>2, QueueSwap DEF TypeOK, Kept, Once
  <2>4. /\ Buffered' = Buffered /\ Unheard' = Unheard /\ Clocks
        /\ q.req \in Open /\ q.req.unit = Own
        /\ q.req \notin Held(expired) \cup Held(response_queue) \cup Over
    BY <2>2, <2>3 DEF Buffered, Unheard, Clocks, Open, Kept, Apart, Ours
  <2>5. CASE StrictMode
    <3>1. expired' = Append(expired, q) /\ UNCHANGED fates
      BY <1>18, <2>5 DEF TakeExpired
    <3> HIDE DEF q
    <3>2. Held(expired') = Held(expired) \cup {q.req} /\ QueueOnce(expired')
      BY <2>1, <2>4, <3>1, QueueAppend DEF TypeOK, Kept, Once
    <3>3. Over' = Over /\ OverOnce'
      BY <3>1, OverSame DEF Kept, Once
    <3>4. Kept'
      BY <2>2, <2>3, <2>4, <3>2, <3>3 DEF Kept, Once, Apart, Ours, Open
    <3>5. Quiet
      BY <2>2, <3>1 DEF Quiet, Responses, TypeOK
    <3> QED
      BY <3>4, <3>5 DEF Effect
  <2>6. CASE ~StrictMode
    <3>1. End(q.req, "discarded") /\ UNCHANGED expired
      BY <1>18, <2>6 DEF TakeExpired
    <3> HIDE DEF q
    <3>2. Ended({q.req}, "discarded")
      BY <2>1, <3>1, EndType DEF TypeOK, Fate
    <3>3. Over' = Over \cup {q.req} /\ OverOnce'
      BY <2>1, <2>4, <3>2, OverEnds DEF Kept, Once, Fate
    <3>4. Kept'
      BY <2>2, <2>3, <2>4, <3>1, <3>3 DEF Kept, Once, Apart, Ours, Open
    <3>5. {q.req} \in SUBSET Open
      BY <2>4
    <3>6. Dismissed
      BY <2>2, <2>4, <3>2, <3>5 DEF Dismissed
    <3> QED
      BY <3>4, <3>6 DEF Effect
  <2> QED
    BY <2>5, <2>6
<1>19. CASE RefuseExpired
  <2> DEFINE q == Head(expired)
  <2>1. q \in PendingRequest /\ q.req \in Requests
    <3>1. expired \in Seq(PendingRequest) /\ expired # <<>>
      BY <1>19 DEF RefuseExpired, TypeOK
    <3>2. q \in PendingRequest
      BY <3>1, TailFacts
    <3> QED
      BY <3>2 DEF PendingRequest
  <2>2. /\ expired' = Tail(expired) /\ Respond(q.req, "refusal")
        /\ UNCHANGED <<rxed_frame, request_queue, heard, last_recv_us, now, executed>>
    BY <1>19 DEF RefuseExpired, rxVars
  <2>3. q.req \in Held(expired) /\ Held(expired') = Held(expired) \ {q.req} /\ QueueOnce(expired')
    BY <1>19, <2>2, QueueTail DEF RefuseExpired, TypeOK, Kept, Once
  <2> HIDE DEF q
  <2>4. /\ Buffered' = Buffered /\ Unheard' = Unheard /\ Clocks
        /\ q.req \in Open /\ q.req.unit = Own /\ q.req \notin Held(response_queue) \cup Over
    BY <2>2, <2>3 DEF Buffered, Unheard, Clocks, Open, Kept, Apart, Ours
  <2>5. Answering(q.req)
    BY <2>1, <2>2, <2>4, RespondKeeps DEF Kept
  <2>6. Kept'
    BY <2>2, <2>3, <2>4, <2>5 DEF Answering, Kept, Once, Apart, Ours, Open
  <2>7. Handled
    BY <2>2, <2>4 DEF Handled
  <2> QED
    BY <2>6, <2>7 DEF Effect
<1>20. CASE ExpireEnd
  <2>1. UNCHANGED <<rxed_frame, request_queue, expired, response_queue, fates, heard>>
    BY <1>20 DEF ExpireEnd, rxVars, queueVars, pollVars, outVars
  <2>2. UNCHANGED <<last_recv_us, executed, attempts>> /\ now <= now'
    BY <1>20 DEF ExpireEnd, TypeOK, rxVars, outVars
  <2> QED
    BY <2>1, <2>2, QuietKeeps
<1>21. CASE DispatchPending
  <2>1. PICK k \in DOMAIN request_queue :
          request_queue' = SwapRemove(request_queue, k) /\ Execute(request_queue[k].req)
    BY <1>21 DEF DispatchPending
  <2> DEFINE r == request_queue[k].req
  <2>2. r \in Requests
    <3>1. request_queue \in Seq(PendingRequest)
      BY DEF TypeOK
    <3>2. request_queue[k] \in PendingRequest
      BY <3>1, LenProperties, ElementOfSeq
    <3> QED
      BY <3>2 DEF PendingRequest
  <2>3. UNCHANGED <<rxed_frame, expired, heard, last_recv_us, now>>
    BY <1>21 DEF DispatchPending, rxVars, pollVars
  <2>4. /\ r \in Held(request_queue) /\ Held(request_queue') = Held(request_queue) \ {r}
        /\ QueueOnce(request_queue')
    BY <2>1, QueueSwap DEF TypeOK, Kept, Once
  <2>5. Execute(r)
    BY <2>1
  <2> HIDE DEF r
  <2>6. /\ Buffered' = Buffered /\ Unheard' = Unheard /\ Clocks
        /\ r \in Open /\ r.unit = Own /\ r \notin Held(response_queue) \cup Over
    BY <2>3, <2>4 DEF Buffered, Unheard, Clocks, Open, Kept, Apart, Ours
  <2>7. Answering(r) /\ Effect
    BY <2>2, <2>5, <2>6, ExecuteKeeps
  <2>8. Kept'
    BY <2>3, <2>4, <2>6, <2>7 DEF Answering, Kept, Once, Apart, Ours, Open
  <2> QED
    BY <2>7, <2>8
<1>22. CASE DispatchEnd
  <2>1. UNCHANGED <<rxed_frame, request_queue, expired, response_queue, fates, heard>>
    BY <1>22 DEF DispatchEnd, rxVars, queueVars, pollVars, outVars
  <2>2. UNCHANGED <<last_recv_us, executed, attempts>> /\ now <= now'
    BY <1>22 DEF DispatchEnd, TypeOK, rxVars, outVars
  <2> QED
    BY <2>1, <2>2, QuietKeeps
<1>23. CASE Disconnect
  <2>1. /\ ClearRxedFrame
        /\ UNCHANGED <<request_queue, expired, response_queue, heard, last_recv_us, now, executed, attempts>>
    BY <1>23 DEF Disconnect, queueVars, pollVars
  <2> QED
    BY <2>1, ClearedKeeps
<1>24. CASE Reconnect
  <2>1. /\ ClearRxedFrame
        /\ UNCHANGED <<request_queue, expired, response_queue, heard, last_recv_us, now, executed, attempts>>
    BY <1>24 DEF Reconnect, queueVars, pollVars
  <2> QED
    BY <2>1, ClearedKeeps
<1>25. CASE Tick
  <2>1. UNCHANGED <<rxed_frame, request_queue, expired, response_queue, fates, heard>>
    BY <1>25 DEF Tick, rxVars, queueVars, pollVars, outVars
  <2>2. UNCHANGED <<last_recv_us, executed, attempts>> /\ now <= now'
    BY <1>25 DEF Tick, TypeOK, rxVars, outVars
  <2> QED
    BY <2>1, <2>2, QuietKeeps
<1>26. CASE UNCHANGED vars
  <2>1. UNCHANGED <<rxed_frame, request_queue, expired, response_queue, fates, heard>>
    BY <1>26 DEF vars, rxVars, queueVars, pollVars, outVars
  <2>2. UNCHANGED <<last_recv_us, executed, attempts>> /\ now <= now'
    BY <1>26 DEF vars, TypeOK, rxVars, outVars
  <2> QED
    BY <2>1, <2>2, QuietKeeps
<1> QED
  BY <1>1, <1>2, <1>3, <1>4, <1>5, <1>6, <1>7, <1>8, <1>9, <1>10, <1>11, <1>12, <1>13, <1>14,
     <1>15, <1>16, <1>17, <1>18, <1>19, <1>20, <1>21, <1>22, <1>23, <1>24, <1>25, <1>26 DEF
     Next, Step, Poll, DrainResponses, Receive, Ingest, Expire, Dispatch

-----------------------------------------------------------------------------
(* The entries of a response queue, one per request.                        *)
LEMMA ResponseFacts ==
  ASSUME NEW s \in Seq(PendingResponse), QueueOnce(s)
  PROVE  /\ Held(s) = {p.req : p \in Elements(s)}
         /\ \A p \in Elements(s) : p \in PendingResponse /\ p.req \in Requests /\ p.req \in Held(s)
         /\ \A p, q \in Elements(s) : p.req = q.req => p = q
<1>1. \A k \in DOMAIN s : s[k] \in PendingResponse
  BY LenProperties, ElementOfSeq
<1>2. \A p \in Elements(s) : p \in PendingResponse
  BY <1>1 DEF Elements
<1>3. Held(s) = {p.req : p \in Elements(s)}
  BY DEF Held, Elements
<1>4. \A p, q \in Elements(s) : p.req = q.req => p = q
  BY DEF Elements, QueueOnce
<1> QED
  BY <1>2, <1>3, <1>4 DEF PendingResponse

(* A request that is open has not been answered and has not ended.          *)
LEMMA OpenFacts ==
  ASSUME TypeOK, Kept, NEW r \in Open
  PROVE  r \in Requests /\ r \notin Held(response_queue) \cup Over
BY DEF Kept, Apart, Open

(* Appending adds one element.                                              *)
LEMMA ElementsAppend ==
  ASSUME NEW S, NEW s \in Seq(S), NEW x \in S
  PROVE  Elements(Append(s, x)) = Elements(s) \cup {x}
<1>1. /\ Len(s) \in Nat
      /\ DOMAIN s = 1..Len(s) /\ DOMAIN Append(s, x) = 1..(Len(s) + 1)
      /\ \A k \in 1..Len(s) : Append(s, x)[k] = s[k]
      /\ Append(s, x)[Len(s) + 1] = x
  BY AppendFacts
<1>2. Elements(Append(s, x)) \subseteq Elements(s) \cup {x}
  <2> SUFFICES ASSUME NEW k \in DOMAIN Append(s, x) PROVE Append(s, x)[k] \in Elements(s) \cup {x}
    BY DEF Elements
  <2>1. k \in DOMAIN s \/ k = Len(s) + 1
    BY <1>1
  <2> QED
    BY <1>1, <2>1 DEF Elements
<1>3. x \in Elements(Append(s, x))
  <2>1. Len(s) + 1 \in DOMAIN Append(s, x)
    BY <1>1
  <2> QED
    BY <1>1, <2>1 DEF Elements
<1>4. Elements(s) \subseteq Elements(Append(s, x))
  <2> SUFFICES ASSUME NEW k \in DOMAIN s PROVE s[k] \in Elements(Append(s, x))
    BY DEF Elements
  <2>1. k \in DOMAIN Append(s, x) /\ Append(s, x)[k] = s[k]
    BY <1>1
  <2> QED
    BY <2>1 DEF Elements
<1> QED
  BY <1>2, <1>3, <1>4

(* An end adds one word to what is said of the requests that end.           *)
LEMMA EndedFacts ==
  ASSUME TypeOK, NEW R, NEW fate \in Fate, Ended(R, fate), NEW r \in Requests
  PROVE  /\ r \in R => fates'[r] # <<>> /\ Elements(fates'[r]) = Elements(fates[r]) \cup {fate}
         /\ r \notin R => fates'[r] = fates[r]
<1>1. fates[r] \in Seq(Fate)
  BY DEF TypeOK
<1>2. Append(fates[r], fate) # <<>> /\ Elements(Append(fates[r], fate)) = Elements(fates[r]) \cup {fate}
  BY <1>1, AppendFacts, ElementsAppend
<1> QED
  BY <1>2 DEF Ended

(* An attempt is the last of its request and changes no other.              *)
LEMMA AttemptFacts ==
  ASSUME TypeOK, NEW r \in Requests, attempts' = [attempts EXCEPT ![r] = Append(@, now)]
  PROVE  /\ Len(attempts[r]) \in Nat /\ Len(attempts'[r]) = Len(attempts[r]) + 1 /\ attempts'[r] # <<>>
         /\ \A k \in 1..Len(attempts[r]) : attempts'[r][k] = attempts[r][k]
         /\ attempts'[r][Len(attempts[r]) + 1] = now
         /\ \A q \in Requests \ {r} : attempts'[q] = attempts[q]
<1>1. attempts[r] \in Seq(Nat) /\ now \in Nat /\ attempts'[r] = Append(attempts[r], now)
  BY DEF TypeOK
<1>2. \A q \in Requests \ {r} : attempts'[q] = attempts[q]
  BY DEF TypeOK
<1> QED
  BY <1>1, <1>2, AppendFacts

(* What sending a response comes to.  The response queued, if it is:        *)
Queued(p, r, what) ==
  /\ p \in PendingResponse /\ p.req = r /\ p.what = what /\ p.retry_count = 0
  /\ Responses' = Responses \cup {p} /\ UNCHANGED fates
  /\ \/ p.is_turnaround_delay = TRUE /\ p.queued_at_us = last_recv_us /\ UNCHANGED attempts
     \/ /\ p.is_turnaround_delay = FALSE /\ p.queued_at_us = now
        /\ ~TooSoon /\ attempts' = [attempts EXCEPT ![r] = Append(@, now)]
(* and if it is not:                                                        *)
NotQueued(r, what) ==
  /\ UNCHANGED response_queue
  /\ Ended({r}, what) \/ Ended({r}, "overflow")
  /\ \/ UNCHANGED attempts
     \/ ~TooSoon /\ attempts' = [attempts EXCEPT ![r] = Append(@, now)]

(* try_send_or_queue does one of the two.                                   *)
LEMMA RespondCases ==
  ASSUME TypeOK, Kept, NEW r \in Requests, r \notin Held(response_queue) \cup Over,
         NEW what \in {"answer", "refusal"}, Respond(r, what)
  PROVE  (\E p \in PendingResponse : Queued(p, r, what)) \/ NotQueued(r, what)
<1>0. /\ last_recv_us \in Nat /\ now \in Nat /\ fates \in [Requests -> Seq(Fate)]
      /\ response_queue \in Seq(PendingResponse) /\ QueueOnce(response_queue)
  BY DEF TypeOK, Kept, Once
<1>1. ASSUME NEW at \in Nat, NEW turnaround \in BOOLEAN, Enqueue(r, what, at, turnaround), HasRoom
      PROVE  \E p \in PendingResponse :
               /\ p.req = r /\ p.what = what /\ p.retry_count = 0 /\ p.queued_at_us = at
               /\ p.is_turnaround_delay = turnaround
               /\ Responses' = Responses \cup {p} /\ UNCHANGED fates
  <2> DEFINE p == [req |-> r, what |-> what, retry_count |-> 0, queued_at_us |-> at,
                   is_turnaround_delay |-> turnaround]
  <2>1. p \in PendingResponse
    BY DEF PendingResponse
  <2>2. p.req = r /\ p.what = what /\ p.retry_count = 0 /\ p.queued_at_us = at
    OBVIOUS
  <2>3. p.is_turnaround_delay = turnaround
    OBVIOUS
  <2>4. response_queue' = Append(response_queue, p) /\ UNCHANGED fates
    BY <1>1 DEF Enqueue
  <2> HIDE DEF p
  <2>5. Responses' = Responses \cup {p}
    BY <1>0, <2>1, <2>4, ElementsAppend DEF Responses
  <2> QED
    BY <2>1, <2>2, <2>3, <2>4, <2>5
<1>2. ASSUME NEW at \in Nat, NEW turnaround \in BOOLEAN, Enqueue(r, what, at, turnaround), ~HasRoom
      PROVE  UNCHANGED response_queue /\ Ended({r}, "overflow")
  <2>1. End(r, "overflow") /\ UNCHANGED response_queue
    BY <1>2 DEF Enqueue
  <2> QED
    BY <1>0, <2>1, EndType DEF Fate
<1>3. CASE TooSoon
  <2>1. Enqueue(r, what, last_recv_us, TRUE) /\ UNCHANGED attempts
    BY <1>3 DEF Respond
  <2>2. CASE HasRoom
    <3>1. PICK p \in PendingResponse :
            /\ p.req = r /\ p.what = what /\ p.retry_count = 0 /\ p.queued_at_us = last_recv_us
            /\ p.is_turnaround_delay = TRUE
            /\ Responses' = Responses \cup {p} /\ UNCHANGED fates
      BY <1>0, <1>1, <2>1, <2>2
    <3>2. Queued(p, r, what)
      BY <2>1, <3>1 DEF Queued
    <3> QED
      BY <3>2
  <2>3. CASE ~HasRoom
    BY <1>0, <1>2, <2>1, <2>3 DEF NotQueued
  <2> QED
    BY <2>2, <2>3
<1>4. CASE ~TooSoon
  <2>1. SendNow(r, what)
    BY <1>4 DEF Respond
  <2>2. attempts' = [attempts EXCEPT ![r] = Append(@, now)]
    BY <2>1 DEF SendNow
  <2>3. CASE Enqueue(r, what, now, FALSE) /\ HasRoom
    <3>1. PICK p \in PendingResponse :
            /\ p.req = r /\ p.what = what /\ p.retry_count = 0 /\ p.queued_at_us = now
            /\ p.is_turnaround_delay = FALSE
            /\ Responses' = Responses \cup {p} /\ UNCHANGED fates
      BY <1>0, <1>1, <2>3
    <3>2. Queued(p, r, what)
      BY <1>4, <2>2, <3>1 DEF Queued
    <3> QED
      BY <3>2
  <2>4. CASE Enqueue(r, what, now, FALSE) /\ ~HasRoom
    BY <1>0, <1>2, <1>4, <2>2, <2>4 DEF NotQueued
  <2>5. CASE End(r, what) /\ UNCHANGED response_queue
    <3>1. Ended({r}, what)
      BY <1>0, <2>5, EndType DEF Fate
    <3> QED
      BY <1>4, <2>2, <2>5, <3>1 DEF NotQueued
  <2> QED
    BY <2>1, <2>3, <2>4, <2>5 DEF SendNow
<1> QED
  BY <1>3, <1>4

(* No step breaks Untouched.                                                *)
LEMMA UntouchedStep ==
  ASSUME TypeOK, TypeOK', Kept, Kept', Untouched, Effect
  PROVE  Untouched'
<1>a. /\ Held(response_queue) = {p.req : p \in Responses}
      /\ \A p \in Responses : p \in PendingResponse /\ p.req \in Requests /\ p.req \in Held(response_queue)
      /\ \A p, q \in Responses : p.req = q.req => p = q
  BY ResponseFacts DEF TypeOK, Kept, Once, Responses
<1>b. Held(response_queue') = {p.req : p \in Responses'}
  BY ResponseFacts DEF TypeOK, Kept, Once, Responses
<1>1. CASE Quiet
  BY <1>a, <1>b, <1>1 DEF Quiet, Untouched, Over
<1>2. CASE Received
  <2>1. PICK N \in SUBSET Unheard :
          /\ heard' = [r \in Requests |-> IF r \in Buffered \cup N THEN now ELSE heard[r]]
          /\ UNCHANGED fates \/ Ended(Buffered \cup N, "lost")
    BY <1>2 DEF Received
  <2>2. last_recv_us' = now /\ UNCHANGED <<now, executed, attempts, response_queue>> /\ "lost" \in Fate
    BY <1>2 DEF Received, Fate
  <2>3. \A r \in Requests : fates[r] # <<>> => fates'[r] # <<>>
    BY <2>1, <2>2, EndedFacts
  <2> QED
    BY <2>2, <2>3 DEF Untouched, Over
<1>3. CASE Dismissed
  <2>1. PICK R \in SUBSET Open, fate \in {"lost", "discarded"} : Ended(R, fate)
    BY <1>3 DEF Dismissed
  <2>2. Clocks /\ UNCHANGED <<executed, attempts, response_queue>> /\ fate \in Fate
    BY <1>3 DEF Dismissed, Fate
  <2>3. \A r \in Requests : fates[r] # <<>> => fates'[r] # <<>>
    BY <2>1, <2>2, EndedFacts
  <2> QED
    BY <2>2, <2>3 DEF Untouched, Over
<1>4. CASE CarriedOut
  <2>1. PICK r \in Open : /\ Ended({r}, "discarded") /\ (r.unit = Own \/ IsBroadcastWrite(r))
                          /\ executed' = [executed EXCEPT ![r] = @ + 1]
    BY <1>4 DEF CarriedOut
  <2>2. Clocks /\ UNCHANGED <<attempts, response_queue>> /\ "discarded" \in Fate
    BY <1>4 DEF CarriedOut, Fate
  <2>3. r \in Requests /\ r \notin Held(response_queue) \cup Over
    BY OpenFacts
  <2>4. /\ fates'[r] # <<>>
        /\ \A q \in Requests \ {r} : fates'[q] = fates[q] /\ executed'[q] = executed[q]
    BY <2>1, <2>2, <2>3, EndedFacts DEF TypeOK
  <2> QED
    BY <2>2, <2>4 DEF Untouched, Over
<1>5. CASE Unknown
  <2>1. PICK r \in Open : /\ r.op = "unsupported"
                          /\ Ended({r}, "refusal") \/ Ended({r}, "discarded")
                          /\ attempts' \in {attempts, [attempts EXCEPT ![r] = Append(@, now)]}
    BY <1>5 DEF Unknown
  <2>2. Clocks /\ UNCHANGED <<executed, response_queue>>
    BY <1>5 DEF Unknown
  <2>3. r \in Requests /\ r \notin Held(response_queue) \cup Over
    BY OpenFacts
  <2>4. PICK fate \in {"refusal", "discarded"} : Ended({r}, fate) /\ fate \in Fate
    BY <2>1 DEF Fate
  <2>5. /\ fates'[r] # <<>>
        /\ \A q \in Requests \ {r} : fates'[q] = fates[q] /\ attempts'[q] = attempts[q]
    BY <2>1, <2>3, <2>4, EndedFacts DEF TypeOK
  <2> QED
    BY <2>2, <2>5 DEF Untouched, Over
<1>6. CASE Handled
  <2>1. PICK r \in Open, what \in {"answer", "refusal"} :
          /\ r.unit = Own /\ Respond(r, what)
          /\ executed' = IF what = "answer" THEN [executed EXCEPT ![r] = @ + 1] ELSE executed
    BY <1>6 DEF Handled
  <2>2. Clocks
    BY <1>6 DEF Handled
  <2>3. r \in Requests /\ r \notin Held(response_queue) \cup Over
    BY OpenFacts
  <2>4. (\E p \in PendingResponse : Queued(p, r, what)) \/ NotQueued(r, what)
    BY <2>1, <2>3, RespondCases
  <2>5. \A q \in Requests \ {r} : executed'[q] = executed[q]
    BY <2>1, <2>3 DEF TypeOK
  <2>6. CASE \E p \in PendingResponse : Queued(p, r, what)
    <3>1. PICK p \in PendingResponse : Queued(p, r, what)
      BY <2>6
    <3>2. r \in Held(response_queue') /\ Held(response_queue) \subseteq Held(response_queue')
      BY <1>a, <1>b, <3>1 DEF Queued
    <3>3. UNCHANGED fates /\ \A q \in Requests \ {r} : attempts'[q] = attempts[q]
      BY <2>3, <3>1, AttemptFacts DEF Queued
    <3> QED
      BY <2>5, <3>2, <3>3 DEF Untouched, Over
  <2>7. CASE NotQueued(r, what)
    <3>1. PICK fate \in Fate : Ended({r}, fate)
      BY <2>7 DEF NotQueued, Fate
    <3>2. fates'[r] # <<>> /\ \A q \in Requests \ {r} : fates'[q] = fates[q]
      BY <2>3, <3>1, EndedFacts
    <3>3. UNCHANGED response_queue /\ \A q \in Requests \ {r} : attempts'[q] = attempts[q]
      BY <2>3, <2>7, AttemptFacts DEF NotQueued
    <3> QED
      BY <2>5, <3>2, <3>3 DEF Untouched, Over
  <2> QED
    BY <2>4, <2>6, <2>7
<1>7. CASE Retried
  <2>1. PICK p \in Responses :
          \/ Resent(p)
          \/ Ended({p.req}, "exhausted") /\ Responses' = Responses \ {p} /\ UNCHANGED attempts
    BY <1>7 DEF Retried
  <2>2. Clocks /\ UNCHANGED executed
    BY <1>7 DEF Retried
  <2>3. /\ p \in PendingResponse /\ p.req \in Requests /\ p.req \in Held(response_queue)
        /\ p.what \in Fate /\ p.what \in {"answer", "refusal"} /\ "exhausted" \in Fate
        /\ \A q \in Responses : q \in PendingResponse /\ (q.req = p.req => q = p)
    BY <1>a DEF Responses, PendingResponse, Fate
  <2>4. /\ Again(p) \in PendingResponse /\ Again(p).req = p.req /\ Again(p).what = p.what
        /\ Again(p).retry_count = p.retry_count + 1 /\ Again(p).queued_at_us = now
        /\ Again(p).is_turnaround_delay = FALSE
    BY <2>3, AgainFacts
  <2>5. \A q \in Requests \ {p.req} : attempts'[q] = attempts[q]
    BY <2>1, <2>3, AttemptFacts DEF Resent
  <2>6. CASE \E fate \in Fate : Ended({p.req}, fate) /\ Responses' = Responses \ {p}
    <3>1. PICK fate \in Fate : Ended({p.req}, fate) /\ Responses' = Responses \ {p}
      BY <2>6
    <3>2. fates'[p.req] # <<>> /\ \A q \in Requests \ {p.req} : fates'[q] = fates[q]
      BY <2>3, <3>1, EndedFacts
    <3>3. \A q \in Held(response_queue) : q = p.req \/ q \in Held(response_queue')
      BY <1>a, <1>b, <3>1
    <3> QED
      BY <2>2, <2>5, <3>2, <3>3 DEF Untouched, Over
  <2>7. CASE UNCHANGED fates /\ Responses' = (Responses \ {p}) \cup {Again(p)}
    <3>1. Held(response_queue') = Held(response_queue)
      BY <1>a, <1>b, <2>3, <2>4, <2>7
    <3> QED
      BY <2>2, <2>3, <2>5, <2>7, <3>1 DEF Untouched, Over
  <2> QED
    BY <2>1, <2>3, <2>6, <2>7 DEF Resent
<1> QED
  BY <1>1, <1>2, <1>3, <1>4, <1>5, <1>6, <1>7 DEF Effect

(* No step breaks Honest: handlers run for open requests only, and what    *)
(* is said is decided when they do or do not.                               *)
LEMMA HonestStep ==
  ASSUME TypeOK, TypeOK', Kept, Kept', Untouched, Honest, Effect
  PROVE  Honest'
<1>a. /\ Held(response_queue) = {p.req : p \in Responses}
      /\ \A p \in Responses : p \in PendingResponse /\ p.req \in Requests /\ p.req \in Held(response_queue)
      /\ \A p, q \in Responses : p.req = q.req => p = q
  BY ResponseFacts DEF TypeOK, Kept, Once, Responses
<1>b. Held(response_queue') = {p.req : p \in Responses'}
  BY ResponseFacts DEF TypeOK, Kept, Once, Responses
<1>1. CASE Quiet
  BY <1>1 DEF Quiet, Honest, Responses
<1>2. CASE Received
  <2>1. PICK N \in SUBSET Unheard :
          /\ heard' = [r \in Requests |-> IF r \in Buffered \cup N THEN now ELSE heard[r]]
          /\ UNCHANGED fates \/ Ended(Buffered \cup N, "lost")
    BY <1>2 DEF Received
  <2>2. last_recv_us' = now /\ UNCHANGED <<now, executed, attempts, response_queue>> /\ "lost" \in Fate
    BY <1>2 DEF Received, Fate
  <2>3. \A r \in Requests : \A f \in Elements(fates'[r]) : f \in Elements(fates[r]) \/ f = "lost"
    <3>1. CASE UNCHANGED fates
      BY <3>1
    <3>2. CASE Ended(Buffered \cup N, "lost")
      BY <2>2, <3>2, EndedFacts
    <3> QED
      BY <2>1, <3>1, <3>2
  <2> QED
    BY <2>2, <2>3 DEF Honest
<1>3. CASE Dismissed
  <2>1. PICK R \in SUBSET Open, fate \in {"lost", "discarded"} : Ended(R, fate)
    BY <1>3 DEF Dismissed
  <2>2. Clocks /\ UNCHANGED <<executed, attempts, response_queue>> /\ fate \in Fate
    BY <1>3 DEF Dismissed, Fate
  <2>3. \A r \in Requests : \A f \in Elements(fates'[r]) : f \in Elements(fates[r]) \/ f = fate
    BY <2>1, <2>2, EndedFacts
  <2>4. fate # "answer" /\ fate # "refusal"
    OBVIOUS
  <2> QED
    BY <2>2, <2>3, <2>4 DEF Honest
<1>4. CASE CarriedOut
  <2>1. PICK r \in Open : /\ Ended({r}, "discarded") /\ (r.unit = Own \/ IsBroadcastWrite(r))
                          /\ executed' = [executed EXCEPT ![r] = @ + 1]
    BY <1>4 DEF CarriedOut
  <2>2. Clocks /\ UNCHANGED <<attempts, response_queue>> /\ "discarded" \in Fate
    BY <1>4 DEF CarriedOut, Fate
  <2>3. r \in Requests /\ r \notin Held(response_queue) \cup Over
    BY OpenFacts
  <2>4. /\ executed[r] = 0 /\ Elements(fates[r]) = {}
        /\ \A p \in Responses : p.req # r
    BY <1>a, <2>3 DEF Untouched, Over, Elements
  <2>5. executed'[r] = 1 /\ \A q \in Requests \ {r} : executed'[q] = executed[q]
    BY <2>1, <2>3, <2>4 DEF TypeOK
  <2>6. /\ Elements(fates'[r]) = {"discarded"}
        /\ \A q \in Requests \ {r} : fates'[q] = fates[q]
    BY <2>1, <2>2, <2>3, <2>4, EndedFacts
  <2> QED
    BY <1>a, <2>2, <2>4, <2>5, <2>6 DEF Honest, Responses
<1>5. CASE Unknown
  <2>1. PICK r \in Open : /\ r.op = "unsupported"
                          /\ Ended({r}, "refusal") \/ Ended({r}, "discarded")
                          /\ attempts' \in {attempts, [attempts EXCEPT ![r] = Append(@, now)]}
    BY <1>5 DEF Unknown
  <2>2. Clocks /\ UNCHANGED <<executed, response_queue>>
    BY <1>5 DEF Unknown
  <2>3. r \in Requests /\ r \notin Held(response_queue) \cup Over
    BY OpenFacts
  <2>4. PICK fate \in {"refusal", "discarded"} : Ended({r}, fate) /\ fate \in Fate
    BY <2>1 DEF Fate
  <2>5. /\ executed[r] = 0 /\ Elements(fates[r]) = {}
        /\ \A p \in Responses : p.req # r
    BY <1>a, <2>3 DEF Untouched, Over, Elements
  <2>6. Elements(fates'[r]) = {fate} /\ \A q \in Requests \ {r} : fates'[q] = fates[q]
    BY <2>3, <2>4, <2>5, EndedFacts
  <2>7. fate # "answer"
    OBVIOUS
  <2> QED
    BY <2>2, <2>5, <2>6, <2>7 DEF Honest
<1>6. CASE Handled
  <2>1. PICK r \in Open, what \in {"answer", "refusal"} :
          /\ r.unit = Own /\ Respond(r, what)
          /\ executed' = IF what = "answer" THEN [executed EXCEPT ![r] = @ + 1] ELSE executed
    BY <1>6 DEF Handled
  <2>2. Clocks
    BY <1>6 DEF Handled
  <2>3. r \in Requests /\ r \notin Held(response_queue) \cup Over
    BY OpenFacts
  <2>4. (\E p \in PendingResponse : Queued(p, r, what)) \/ NotQueued(r, what)
    BY <2>1, <2>3, RespondCases
  <2>5. /\ executed[r] = 0 /\ Elements(fates[r]) = {}
        /\ \A p \in Responses : p.req # r
    BY <1>a, <2>3 DEF Untouched, Over, Elements
  <2>6. /\ executed'[r] = IF what = "answer" THEN 1 ELSE 0
        /\ \A q \in Requests \ {r} : executed'[q] = executed[q]
    BY <2>1, <2>3, <2>5 DEF TypeOK
  <2>7. executed'[r] <= 1
    BY <2>6
  <2>8. CASE \E p \in PendingResponse : Queued(p, r, what)
    <3>1. PICK p \in PendingResponse : Queued(p, r, what)
      BY <2>8
    <3>2. Responses' = Responses \cup {p} /\ p.req = r /\ p.what = what /\ UNCHANGED fates
      BY <3>1 DEF Queued
    <3> QED
      BY <1>a, <2>5, <2>6, <2>7, <3>2 DEF Honest, Responses
  <2>9. CASE NotQueued(r, what)
    <3>1. PICK fate \in {what, "overflow"} : Ended({r}, fate) /\ fate \in Fate
      BY <2>9 DEF NotQueued, Fate
    <3>2. Elements(fates'[r]) = {fate} /\ \A q \in Requests \ {r} : fates'[q] = fates[q]
      BY <2>3, <2>5, <3>1, EndedFacts
    <3>3. UNCHANGED response_queue
      BY <2>9 DEF NotQueued
    <3>4. fate = "answer" => executed'[r] = 1
      BY <2>6
    <3>5. fate = "refusal" => executed'[r] = 0
      BY <2>6
    <3> QED
      BY <1>a, <2>5, <2>6, <2>7, <3>2, <3>3, <3>4, <3>5 DEF Honest, Responses
  <2> QED
    BY <2>4, <2>8, <2>9
<1>7. CASE Retried
  <2>1. PICK p \in Responses :
          \/ Resent(p)
          \/ Ended({p.req}, "exhausted") /\ Responses' = Responses \ {p} /\ UNCHANGED attempts
    BY <1>7 DEF Retried
  <2>2. Clocks /\ UNCHANGED executed
    BY <1>7 DEF Retried
  <2>3. /\ p \in PendingResponse /\ p.req \in Requests /\ p.req \in Held(response_queue)
        /\ p.what \in Fate /\ p.what \in {"answer", "refusal"} /\ "exhausted" \in Fate
        /\ \A q \in Responses : q \in PendingResponse /\ (q.req = p.req => q = p)
    BY <1>a DEF Responses, PendingResponse, Fate
  <2>4. /\ Again(p) \in PendingResponse /\ Again(p).req = p.req /\ Again(p).what = p.what
        /\ Again(p).retry_count = p.retry_count + 1 /\ Again(p).queued_at_us = now
        /\ Again(p).is_turnaround_delay = FALSE
    BY <2>3, AgainFacts
  <2>5. executed[p.req] = IF p.what = "answer" THEN 1 ELSE 0
    BY DEF Honest, Responses
  <2>6. CASE \E fate \in {p.what, "exhausted"} : Ended({p.req}, fate) /\ Responses' = Responses \ {p}
    <3>1. PICK fate \in {p.what, "exhausted"} : Ended({p.req}, fate) /\ Responses' = Responses \ {p}
      BY <2>6
    <3>2. /\ Elements(fates'[p.req]) = Elements(fates[p.req]) \cup {fate}
          /\ \A q \in Requests \ {p.req} : fates'[q] = fates[q]
      BY <2>3, <3>1, EndedFacts
    <3>3. fate = "answer" => executed[p.req] = 1
      BY <2>5
    <3>4. fate = "refusal" => executed[p.req] = 0
      BY <2>5
    <3> QED
      BY <2>2, <2>3, <3>1, <3>2, <3>3, <3>4 DEF Honest, Responses
  <2>7. CASE UNCHANGED fates /\ Responses' = (Responses \ {p}) \cup {Again(p)}
    BY <2>2, <2>4, <2>5, <2>7 DEF Honest, Responses
  <2> QED
    BY <2>1, <2>6, <2>7 DEF Resent
<1> QED
  BY <1>1, <1>2, <1>3, <1>4, <1>5, <1>6, <1>7 DEF Effect

(* No step breaks Timed.                                                    *)
LEMMA TimedStep ==
  ASSUME TypeOK, TypeOK', Timed, Effect
  PROVE  Timed'
<1>1. CASE Quiet
  BY <1>1 DEF Quiet, Timed, TypeOK
<1>2. CASE Received
  <2>1. /\ \A r \in Requests : heard'[r] = now \/ heard'[r] = heard[r]
        /\ last_recv_us' = now /\ now' = now
    BY <1>2 DEF Received
  <2>2. /\ now \in Nat /\ last_recv_us \in Nat /\ last_recv_us <= now
        /\ \A r \in Requests : heard[r] \in Int /\ heard[r] <= last_recv_us
    BY DEF Timed, TypeOK
  <2>3. ASSUME NEW r \in Requests PROVE heard'[r] <= now
    <3>1. heard[r] <= now /\ now <= now
      BY <2>2
    <3> QED
      BY <2>1, <3>1
  <2> QED
    BY <2>1, <2>2, <2>3 DEF Timed
<1>3. CASE Clocks
  BY <1>3 DEF Clocks, Timed
<1> QED
  BY <1>1, <1>2, <1>3 DEF Effect, Dismissed, CarriedOut, Unknown, Handled, Retried

(* A request's turnaround has passed when none is too soon.                 *)
LEMMA NotTooSoon ==
  ASSUME TypeOK, Timed, ~TooSoon, NEW r \in Requests
  PROVE  now - heard[r] >= Turnaround
<1>1. /\ now \in Nat /\ last_recv_us \in Nat /\ heard[r] \in Int /\ Turnaround \in Nat
      /\ heard[r] <= last_recv_us /\ last_recv_us <= now
  BY ConfigAssumption DEF TypeOK, Timed
<1> QED
  BY <1>1 DEF TooSoon, Elapsed

(* What RetryDiscipline says of one request's attempts.                     *)
Spaced(s) ==
  /\ Len(s) <= 1 + MaxSendRetries
  /\ \A k \in 2..Len(s) : s[k] - s[k - 1] >= RetryInterval

(* The first attempt is within every bound.                                 *)
LEMMA FirstAttempt ==
  ASSUME TypeOK, NEW r \in Requests, attempts[r] = <<>>,
         attempts' = [attempts EXCEPT ![r] = Append(@, now)]
  PROVE  /\ Spaced(attempts'[r]) /\ Len(attempts'[r]) = 1 /\ attempts'[r] # <<>>
         /\ attempts'[r][1] = now
<1>1. attempts'[r] = <<now>>
  BY DEF TypeOK
<1>2. Len(attempts'[r]) = 1 /\ attempts'[r] # <<>> /\ attempts'[r][1] = now
  BY <1>1
<1>3. Spaced(attempts'[r])
  BY <1>2, ConfigAssumption DEF Spaced
<1> QED
  BY <1>2, <1>3

(* So is a further one that is neither too many nor too early.              *)
LEMMA NextAttempt ==
  ASSUME TypeOK, NEW r \in Requests, attempts[r] # <<>>, Spaced(attempts[r]),
         Len(attempts[r]) <= MaxSendRetries,
         now - attempts[r][Len(attempts[r])] >= RetryInterval,
         attempts' = [attempts EXCEPT ![r] = Append(@, now)]
  PROVE  Spaced(attempts'[r]) /\ attempts'[r][1] = attempts[r][1]
<1> DEFINE s == attempts[r]
           t == attempts'[r]
           n == Len(attempts[r])
<1>1. s \in Seq(Nat) /\ n \in Nat \ {0}
  BY EmptySeq, LenProperties DEF TypeOK
<1>2. Len(t) = n + 1 /\ (\A k \in 1..n : t[k] = s[k]) /\ t[n + 1] = now
  BY AttemptFacts
<1>3. \A k \in 2..n : s[k] - s[k - 1] >= RetryInterval
  BY DEF Spaced
<1>4. n <= MaxSendRetries /\ now - s[n] >= RetryInterval
  OBVIOUS
<1> HIDE DEF s, t, n
<1>5. ASSUME NEW k \in 2..(n + 1) PROVE t[k] - t[k - 1] >= RetryInterval
  <2>1. CASE k \in 2..n
    <3>1. k \in 1..n /\ k - 1 \in 1..n
      BY <1>1, <2>1
    <3> QED
      BY <1>2, <1>3, <2>1, <3>1
  <2>2. CASE k = n + 1
    <3>1. k - 1 = n /\ n \in 1..n
      BY <1>1, <2>2
    <3> QED
      BY <1>2, <1>4, <2>2, <3>1
  <2> QED
    BY <1>1, <2>1, <2>2
<1>6. Len(t) <= 1 + MaxSendRetries
  BY <1>1, <1>2, <1>4, ConfigAssumption
<1>7. t[1] = s[1]
  BY <1>1, <1>2
<1>8. Spaced(t)
  BY <1>2, <1>5, <1>6 DEF Spaced
<1> QED
  BY <1>7, <1>8 DEF s, t

(* A retry that is neither exhausted nor delayed is in time.                *)
LEMMA RetryFacts ==
  ASSUME TypeOK, Timed, Disciplined, RetryDiscipline, NEW p \in Responses, p \in PendingResponse,
         p.req \in Requests, ~Exhausted(p), ~Delayed(p),
         attempts' = [attempts EXCEPT ![p.req] = Append(@, now)]
  PROVE  /\ Spaced(attempts'[p.req]) /\ attempts'[p.req] # <<>>
         /\ Len(attempts'[p.req]) <= p.retry_count + 2
         /\ attempts'[p.req][Len(attempts'[p.req])] = now
         /\ attempts[p.req] = <<>> => ~TooSoon
         /\ attempts[p.req] # <<>> => attempts'[p.req][1] = attempts[p.req][1]
<1>1. /\ p.queued_at_us \in Nat /\ p.retry_count \in Nat /\ now \in Nat /\ p.queued_at_us <= now
      /\ Len(attempts[p.req]) <= p.retry_count + 1 /\ p.retry_count < MaxSendRetries
      /\ MaxSendRetries \in Nat /\ RetryInterval \in Nat
  BY ConfigAssumption DEF PendingResponse, TypeOK, Disciplined, Waits, Responses, Exhausted
<1>2. /\ Len(attempts[p.req]) \in Nat /\ Len(attempts'[p.req]) = Len(attempts[p.req]) + 1
      /\ attempts'[p.req] # <<>> /\ attempts'[p.req][Len(attempts[p.req]) + 1] = now
  BY AttemptFacts
<1>3. p.is_turnaround_delay \in BOOLEAN
  BY DEF PendingResponse
<1>4. CASE p.is_turnaround_delay
  <2>1. attempts[p.req] = <<>>
    BY <1>4 DEF Disciplined, Waits, Responses
  <2>2. ~TooSoon
    BY <1>4 DEF Delayed
  <2>3. Spaced(attempts'[p.req])
    BY <2>1, FirstAttempt
  <2> QED
    BY <1>1, <1>2, <2>1, <2>2, <2>3
<1>5. CASE ~p.is_turnaround_delay
  <2>1. attempts[p.req] # <<>> /\ attempts[p.req][Len(attempts[p.req])] = p.queued_at_us
    BY <1>5 DEF Disciplined, Waits, Responses
  <2>2. ~(RetryInterval > 0 /\ Elapsed(p.queued_at_us) < RetryInterval)
    BY <1>5 DEF Delayed
  <2>3. now - p.queued_at_us >= RetryInterval
    BY <1>1, <2>2 DEF Elapsed
  <2>4. Spaced(attempts[p.req])
    BY DEF RetryDiscipline, Spaced
  <2>5. Len(attempts[p.req]) <= MaxSendRetries
    BY <1>1, <1>2
  <2>6. Spaced(attempts'[p.req]) /\ attempts'[p.req][1] = attempts[p.req][1]
    BY <2>1, <2>3, <2>4, <2>5, NextAttempt
  <2> QED
    BY <1>1, <1>2, <2>1, <2>6
<1> QED
  BY <1>3, <1>4, <1>5

(* No step breaks the discipline of attempts.                               *)
LEMMA DisciplineStep ==
  ASSUME TypeOK, TypeOK', Kept, Kept', Untouched, Timed, Disciplined, RetryDiscipline, Effect
  PROVE  Disciplined' /\ RetryDiscipline'
<1>a. /\ Held(response_queue) = {p.req : p \in Responses}
      /\ \A p \in Responses : p \in PendingResponse /\ p.req \in Requests /\ p.req \in Held(response_queue)
      /\ \A p, q \in Responses : p.req = q.req => p = q
  BY ResponseFacts DEF TypeOK, Kept, Once, Responses
<1>b. Held(response_queue') = {p.req : p \in Responses'}
  BY ResponseFacts DEF TypeOK, Kept, Once, Responses
<1>1. CASE Quiet
  <2>1. UNCHANGED attempts /\ Responses' = Responses /\ now <= now' /\ now \in Nat /\ now' \in Nat
    BY <1>1 DEF Quiet, TypeOK
  <2>2. RetryDiscipline'
    BY <2>1 DEF RetryDiscipline
  <2>3. Disciplined'
    <3> SUFFICES ASSUME NEW p \in Responses PROVE Waits(p, attempts'[p.req], now')
      BY <2>1 DEF Disciplined, Responses
    <3>1. Waits(p, attempts[p.req], now) /\ p.queued_at_us \in Nat
      BY <1>a DEF Disciplined, Responses, PendingResponse
    <3> QED
      BY <2>1, <3>1 DEF Waits
  <2> QED
    BY <2>2, <2>3
<1>2. CASE Received
  <2>1. UNCHANGED <<attempts, response_queue, now>>
    BY <1>2 DEF Received, Clocks
  <2> QED
    BY <2>1 DEF Disciplined, RetryDiscipline
<1>3. CASE Dismissed
  <2>1. UNCHANGED <<attempts, response_queue, now>>
    BY <1>3 DEF Dismissed, Clocks
  <2> QED
    BY <2>1 DEF Disciplined, RetryDiscipline
<1>4. CASE CarriedOut
  <2>1. UNCHANGED <<attempts, response_queue, now>>
    BY <1>4 DEF CarriedOut, Clocks
  <2> QED
    BY <2>1 DEF Disciplined, RetryDiscipline
<1>5. CASE Unknown
  <2>1. PICK r \in Open : /\ r.op = "unsupported"
                          /\ Ended({r}, "refusal") \/ Ended({r}, "discarded")
                          /\ attempts' \in {attempts, [attempts EXCEPT ![r] = Append(@, now)]}
    BY <1>5 DEF Unknown
  <2>2. Clocks /\ UNCHANGED <<executed, response_queue>>
    BY <1>5 DEF Unknown
  <2>3. r \in Requests /\ r \notin Held(response_queue) \cup Over
    BY OpenFacts
  <2>4. PICK fate \in {"refusal", "discarded"} : Ended({r}, fate) /\ fate \in Fate
    BY <2>1 DEF Fate
  <2>5. attempts[r] = <<>> /\ \A p \in Responses : p.req # r
    BY <1>a, <2>3 DEF Untouched
  <2>6. CASE UNCHANGED attempts
    BY <2>2, <2>6 DEF Disciplined, RetryDiscipline, Clocks
  <2>7. CASE attempts' = [attempts EXCEPT ![r] = Append(@, now)]
    <3>1. Spaced(attempts'[r])
      BY <2>3, <2>5, <2>7, FirstAttempt
    <3>2. \A q \in Requests \ {r} : attempts'[q] = attempts[q]
      BY <2>3, <2>7, AttemptFacts
    <3>3. RetryDiscipline'
      BY <3>1, <3>2 DEF RetryDiscipline, Spaced
    <3>4. Disciplined'
      BY <1>a, <2>2, <2>5, <3>2 DEF Disciplined, Clocks, Responses
    <3> QED
      BY <3>3, <3>4
  <2> QED
    BY <2>1, <2>6, <2>7
<1>6. CASE Handled
  <2>1. PICK r \in Open, what \in {"answer", "refusal"} :
          /\ r.unit = Own /\ Respond(r, what)
          /\ executed' = IF what = "answer" THEN [executed EXCEPT ![r] = @ + 1] ELSE executed
    BY <1>6 DEF Handled
  <2>2. Clocks
    BY <1>6 DEF Handled
  <2>3. r \in Requests /\ r \notin Held(response_queue) \cup Over
    BY OpenFacts
  <2>4. (\E p \in PendingResponse : Queued(p, r, what)) \/ NotQueued(r, what)
    BY <2>1, <2>3, RespondCases
  <2>5. attempts[r] = <<>> /\ \A p \in Responses : p.req # r
    BY <1>a, <2>3 DEF Untouched
  <2>6. RetryDiscipline' /\ \A q \in Requests \ {r} : attempts'[q] = attempts[q]
    <3>1. CASE UNCHANGED attempts
      BY <3>1 DEF RetryDiscipline
    <3>2. CASE attempts' = [attempts EXCEPT ![r] = Append(@, now)]
      <4>1. Spaced(attempts'[r])
        BY <2>3, <2>5, <3>2, FirstAttempt
      <4>2. \A q \in Requests \ {r} : attempts'[q] = attempts[q]
        BY <2>3, <3>2, AttemptFacts
      <4> QED
        BY <4>1, <4>2 DEF RetryDiscipline, Spaced
    <3> QED
      BY <2>4, <3>1, <3>2 DEF Queued, NotQueued
  <2>7. \A q \in Responses : Waits(q, attempts'[q.req], now')
    BY <1>a, <2>2, <2>5, <2>6 DEF Disciplined, Responses, Clocks
  <2>8. CASE \E p \in PendingResponse : Queued(p, r, what)
    <3>1. PICK p \in PendingResponse : Queued(p, r, what)
      BY <2>8
    <3>2. Responses' = Responses \cup {p} /\ p.req = r /\ p.retry_count = 0
      BY <3>1 DEF Queued
    <3>3. CASE p.is_turnaround_delay = TRUE /\ p.queued_at_us = last_recv_us /\ UNCHANGED attempts
      <4>1. attempts'[r] = <<>> /\ Len(attempts'[r]) = 0
        BY <2>5, <3>3
      <4>2. p.queued_at_us <= now'
        BY <2>2, <3>3 DEF Timed, Clocks
      <4>3. Waits(p, attempts'[p.req], now')
        BY <3>2, <3>3, <4>1, <4>2 DEF Waits
      <4> QED
        BY <2>6, <2>7, <3>2, <4>3 DEF Disciplined, Responses
    <3>4. CASE /\ p.is_turnaround_delay = FALSE /\ p.queued_at_us = now
               /\ attempts' = [attempts EXCEPT ![r] = Append(@, now)]
      <4>1. Len(attempts'[r]) = 1 /\ attempts'[r] # <<>> /\ attempts'[r][1] = now
        BY <2>3, <2>5, <3>4, FirstAttempt
      <4>2. p.queued_at_us <= now'
        BY <2>2, <3>4 DEF Clocks, TypeOK
      <4>3. Waits(p, attempts'[p.req], now')
        BY <3>2, <3>4, <4>1, <4>2 DEF Waits
      <4> QED
        BY <2>6, <2>7, <3>2, <4>3 DEF Disciplined, Responses
    <3> QED
      BY <3>1, <3>3, <3>4 DEF Queued
  <2>9. CASE NotQueued(r, what)
    <3>1. Responses' = Responses
      BY <2>9 DEF NotQueued, Responses
    <3> QED
      BY <2>6, <2>7, <3>1 DEF Disciplined, Responses
  <2> QED
    BY <2>4, <2>8, <2>9
<1>7. CASE Retried
  <2>1. PICK p \in Responses :
          \/ Resent(p)
          \/ Ended({p.req}, "exhausted") /\ Responses' = Responses \ {p} /\ UNCHANGED attempts
    BY <1>7 DEF Retried
  <2>2. Clocks /\ UNCHANGED executed
    BY <1>7 DEF Retried
  <2>3. /\ p \in PendingResponse /\ p.req \in Requests /\ p.req \in Held(response_queue)
        /\ p.what \in Fate /\ p.what \in {"answer", "refusal"} /\ "exhausted" \in Fate
        /\ \A q \in Responses : q \in PendingResponse /\ (q.req = p.req => q = p)
    BY <1>a DEF Responses, PendingResponse, Fate
  <2>4. /\ Again(p) \in PendingResponse /\ Again(p).req = p.req /\ Again(p).what = p.what
        /\ Again(p).retry_count = p.retry_count + 1 /\ Again(p).queued_at_us = now
        /\ Again(p).is_turnaround_delay = FALSE
    BY <2>3, AgainFacts
  <2>5. CASE Ended({p.req}, "exhausted") /\ Responses' = Responses \ {p} /\ UNCHANGED attempts
    BY <2>2, <2>5 DEF Disciplined, RetryDiscipline, Responses, Clocks
  <2>6. CASE Resent(p)
    <3>1. attempts' = [attempts EXCEPT ![p.req] = Append(@, now)] /\ ~Exhausted(p) /\ ~Delayed(p)
      BY <2>6 DEF Resent
    <3>2. /\ Spaced(attempts'[p.req]) /\ attempts'[p.req] # <<>>
          /\ Len(attempts'[p.req]) <= p.retry_count + 2
          /\ attempts'[p.req][Len(attempts'[p.req])] = now
      BY <2>3, <3>1, RetryFacts
    <3>3. \A q \in Requests \ {p.req} : attempts'[q] = attempts[q]
      BY <2>3, <3>1, AttemptFacts
    <3>4. RetryDiscipline'
      BY <3>2, <3>3 DEF RetryDiscipline, Spaced
    <3>5. \A q \in Responses \ {p} : Waits(q, attempts'[q.req], now')
      BY <1>a, <2>2, <2>3, <3>3 DEF Disciplined, Responses, Clocks
    <3>6. Waits(Again(p), attempts'[p.req], now)
      <4>1. p.retry_count \in Nat /\ now \in Nat
        BY <2>3 DEF PendingResponse, TypeOK
      <4>2. p.retry_count + 2 = Again(p).retry_count + 1 /\ Again(p).queued_at_us <= now
        BY <2>4, <4>1
      <4> QED
        BY <2>4, <3>2, <4>2 DEF Waits
    <3>7. Disciplined'
      BY <2>2, <2>4, <2>6, <3>5, <3>6 DEF Resent, Disciplined, Responses, Clocks
    <3> QED
      BY <3>4, <3>7
  <2> QED
    BY <2>1, <2>5, <2>6
<1> QED
  BY <1>1, <1>2, <1>3, <1>4, <1>5, <1>6, <1>7 DEF Effect

(* No step breaks TurnaroundKept: the first attempt is made with the delay  *)
(* behind it, and the time a request was heard is then settled.            *)
LEMMA TurnaroundStep ==
  ASSUME TypeOK, TypeOK', Kept, Kept', Untouched, Timed, Disciplined, RetryDiscipline, TurnaroundKept, Effect
  PROVE  TurnaroundKept'
<1>a. /\ Held(response_queue) = {p.req : p \in Responses}
      /\ \A p \in Responses : p \in PendingResponse /\ p.req \in Requests /\ p.req \in Held(response_queue)
      /\ \A p, q \in Responses : p.req = q.req => p = q
  BY ResponseFacts DEF TypeOK, Kept, Once, Responses
<1>b. Held(response_queue') = {p.req : p \in Responses'}
  BY ResponseFacts DEF TypeOK, Kept, Once, Responses
<1>1. CASE Quiet
  BY <1>1 DEF Quiet, TurnaroundKept
<1>2. CASE Received
  <2>1. PICK N \in SUBSET Unheard :
          /\ heard' = [r \in Requests |-> IF r \in Buffered \cup N THEN now ELSE heard[r]]
          /\ UNCHANGED fates \/ Ended(Buffered \cup N, "lost")
    BY <1>2 DEF Received
  <2>2. last_recv_us' = now /\ UNCHANGED <<now, executed, attempts, response_queue>> /\ "lost" \in Fate
    BY <1>2 DEF Received, Fate
  <2>3. \A r \in Requests : attempts[r] # <<>> => heard'[r] = heard[r]
    <3>1. \A r \in Buffered \cup N : r \in Requests => attempts[r] = <<>>
      BY DEF Kept, Apart, Open, Untouched
    <3> QED
      BY <2>1, <3>1
  <2> QED
    BY <2>2, <2>3 DEF TurnaroundKept
<1>3. CASE Dismissed
  BY <1>3 DEF Dismissed, Clocks, TurnaroundKept
<1>4. CASE CarriedOut
  BY <1>4 DEF CarriedOut, Clocks, TurnaroundKept
<1>5. CASE Unknown
  <2>1. PICK r \in Open : /\ r.op = "unsupported"
                          /\ Ended({r}, "refusal") \/ Ended({r}, "discarded")
                          /\ attempts' \in {attempts, [attempts EXCEPT ![r] = Append(@, now)]}
    BY <1>5 DEF Unknown
  <2>2. Clocks /\ UNCHANGED <<executed, response_queue>>
    BY <1>5 DEF Unknown
  <2>3. r \in Requests /\ r \notin Held(response_queue) \cup Over
    BY OpenFacts
  <2>4. PICK fate \in {"refusal", "discarded"} : Ended({r}, fate) /\ fate \in Fate
    BY <2>1 DEF Fate
  <2>5. \A q \in Requests \ {r} : attempts'[q] = attempts[q]
    BY <2>1, <2>3, AttemptFacts
  <2> QED
    BY <2>1, <2>2, <2>5 DEF TurnaroundKept, Clocks
<1>6. CASE Handled
  <2>1. PICK r \in Open, what \in {"answer", "refusal"} :
          /\ r.unit = Own /\ Respond(r, what)
          /\ executed' = IF what = "answer" THEN [executed EXCEPT ![r] = @ + 1] ELSE executed
    BY <1>6 DEF Handled
  <2>2. Clocks
    BY <1>6 DEF Handled
  <2>3. r \in Requests /\ r \notin Held(response_queue) \cup Over
    BY OpenFacts
  <2>4. (\E p \in PendingResponse : Queued(p, r, what)) \/ NotQueued(r, what)
    BY <2>1, <2>3, RespondCases
  <2>5. \/ UNCHANGED attempts
        \/ ~TooSoon /\ attempts' = [attempts EXCEPT ![r] = Append(@, now)]
    BY <2>4 DEF Queued, NotQueued
  <2>6. CASE UNCHANGED attempts
    BY <2>2, <2>6 DEF TurnaroundKept, Clocks
  <2>7. CASE ~TooSoon /\ attempts' = [attempts EXCEPT ![r] = Append(@, now)]
    <3>1. attempts[r] = <<>>
      BY <2>3 DEF Untouched
    <3>2. attempts'[r][1] = now
      BY <2>3, <2>7, <3>1, FirstAttempt
    <3>3. \A q \in Requests \ {r} : attempts'[q] = attempts[q]
      BY <2>3, <2>7, AttemptFacts
    <3>4. now - heard[r] >= Turnaround
      BY <2>3, <2>7, NotTooSoon
    <3> QED
      BY <2>2, <3>2, <3>3, <3>4 DEF TurnaroundKept, Clocks
  <2> QED
    BY <2>5, <2>6, <2>7
<1>7. CASE Retried
  <2>1. PICK p \in Responses :
          \/ Resent(p)
          \/ Ended({p.req}, "exhausted") /\ Responses' = Responses \ {p} /\ UNCHANGED attempts
    BY <1>7 DEF Retried
  <2>2. Clocks /\ UNCHANGED executed
    BY <1>7 DEF Retried
  <2>3. /\ p \in PendingResponse /\ p.req \in Requests /\ p.req \in Held(response_queue)
        /\ p.what \in Fate /\ p.what \in {"answer", "refusal"} /\ "exhausted" \in Fate
        /\ \A q \in Responses : q \in PendingResponse /\ (q.req = p.req => q = p)
    BY <1>a DEF Responses, PendingResponse, Fate
  <2>4. /\ Again(p) \in PendingResponse /\ Again(p).req = p.req /\ Again(p).what = p.what
        /\ Again(p).retry_count = p.retry_count + 1 /\ Again(p).queued_at_us = now
        /\ Again(p).is_turnaround_delay = FALSE
    BY <2>3, AgainFacts
  <2>5. CASE UNCHANGED attempts
    BY <2>2, <2>5 DEF TurnaroundKept, Clocks
  <2>6. CASE Resent(p)
    <3>1. attempts' = [attempts EXCEPT ![p.req] = Append(@, now)] /\ ~Exhausted(p) /\ ~Delayed(p)
      BY <2>6 DEF Resent
    <3>2. /\ attempts[p.req] = <<>> => ~TooSoon
          /\ attempts[p.req] # <<>> => attempts'[p.req][1] = attempts[p.req][1]
      BY <2>3, <3>1, RetryFacts
    <3>3. \A q \in Requests \ {p.req} : attempts'[q] = attempts[q]
      BY <2>3, <3>1, AttemptFacts
    <3>4. CASE attempts[p.req] = <<>>
      <4>1. attempts'[p.req][1] = now
        BY <2>3, <3>1, <3>4, FirstAttempt
      <4>2. now - heard[p.req] >= Turnaround
        BY <2>3, <3>2, <3>4, NotTooSoon
      <4> QED
        BY <2>2, <3>3, <4>1, <4>2 DEF TurnaroundKept, Clocks
    <3>5. CASE attempts[p.req] # <<>>
      BY <2>2, <3>2, <3>3, <3>5 DEF TurnaroundKept, Clocks
    <3> QED
      BY <3>4, <3>5
  <2> QED
    BY <2>1, <2>5, <2>6
<1> QED
  BY <1>1, <1>2, <1>3, <1>4, <1>5, <1>6, <1>7 DEF Effect

(* No step touches a request addressed to another unit.                     *)
LEMMA ForeignStep ==
  ASSUME TypeOK, TypeOK', Kept, Kept', ForeignUntouched, Effect
  PROVE  ForeignUntouched'
<1>a. /\ Held(response_queue) = {p.req : p \in Responses}
      /\ \A p \in Responses : p \in PendingResponse /\ p.req \in Requests /\ p.req \in Held(response_queue)
      /\ \A p, q \in Responses : p.req = q.req => p = q
  BY ResponseFacts DEF TypeOK, Kept, Once, Responses
<1>b. Held(response_queue') = {p.req : p \in Responses'}
  BY ResponseFacts DEF TypeOK, Kept, Once, Responses
<1>1. CASE Quiet
  BY <1>1 DEF Quiet, ForeignUntouched
<1>2. CASE Received
  BY <1>2 DEF Received, ForeignUntouched
<1>3. CASE Dismissed
  BY <1>3 DEF Dismissed, ForeignUntouched
<1>4. CASE CarriedOut
  <2>1. PICK r \in Open : /\ Ended({r}, "discarded") /\ (r.unit = Own \/ IsBroadcastWrite(r))
                          /\ executed' = [executed EXCEPT ![r] = @ + 1]
    BY <1>4 DEF CarriedOut
  <2>2. Clocks /\ UNCHANGED <<attempts, response_queue>> /\ "discarded" \in Fate
    BY <1>4 DEF CarriedOut, Fate
  <2>3. r \in Requests /\ r \notin Held(response_queue) \cup Over
    BY OpenFacts
  <2>4. \A q \in Requests \ {r} : executed'[q] = executed[q]
    BY <2>1, <2>3 DEF TypeOK
  <2> QED
    BY <2>1, <2>2, <2>4 DEF ForeignUntouched, IsBroadcastWrite
<1>5. CASE Unknown
  <2>1. PICK r \in Open : /\ r.op = "unsupported"
                          /\ Ended({r}, "refusal") \/ Ended({r}, "discarded")
                          /\ attempts' \in {attempts, [attempts EXCEPT ![r] = Append(@, now)]}
    BY <1>5 DEF Unknown
  <2>2. Clocks /\ UNCHANGED <<executed, response_queue>>
    BY <1>5 DEF Unknown
  <2>3. r \in Requests /\ r \notin Held(response_queue) \cup Over
    BY OpenFacts
  <2>4. PICK fate \in {"refusal", "discarded"} : Ended({r}, fate) /\ fate \in Fate
    BY <2>1 DEF Fate
  <2>5. \A q \in Requests \ {r} : attempts'[q] = attempts[q]
    BY <2>1, <2>3, AttemptFacts
  <2> QED
    BY <2>1, <2>2, <2>5 DEF ForeignUntouched
<1>6. CASE Handled
  <2>1. PICK r \in Open, what \in {"answer", "refusal"} :
          /\ r.unit = Own /\ Respond(r, what)
          /\ executed' = IF what = "answer" THEN [executed EXCEPT ![r] = @ + 1] ELSE executed
    BY <1>6 DEF Handled
  <2>2. Clocks
    BY <1>6 DEF Handled
  <2>3. r \in Requests /\ r \notin Held(response_queue) \cup Over
    BY OpenFacts
  <2>4. (\E p \in PendingResponse : Queued(p, r, what)) \/ NotQueued(r, what)
    BY <2>1, <2>3, RespondCases
  <2>5. \A q \in Requests \ {r} : attempts'[q] = attempts[q] /\ executed'[q] = executed[q]
    <3>1. \A q \in Requests \ {r} : executed'[q] = executed[q]
      BY <2>1, <2>3 DEF TypeOK
    <3>2. \A q \in Requests \ {r} : attempts'[q] = attempts[q]
      BY <2>3, <2>4, AttemptFacts DEF Queued, NotQueued
    <3> QED
      BY <3>1, <3>2
  <2> QED
    BY <2>1, <2>5 DEF ForeignUntouched
<1>7. CASE Retried
  <2>1. PICK p \in Responses :
          \/ Resent(p)
          \/ Ended({p.req}, "exhausted") /\ Responses' = Responses \ {p} /\ UNCHANGED attempts
    BY <1>7 DEF Retried
  <2>2. Clocks /\ UNCHANGED executed
    BY <1>7 DEF Retried
  <2>3. /\ p \in PendingResponse /\ p.req \in Requests /\ p.req \in Held(response_queue)
        /\ p.what \in Fate /\ p.what \in {"answer", "refusal"} /\ "exhausted" \in Fate
        /\ \A q \in Responses : q \in PendingResponse /\ (q.req = p.req => q = p)
    BY <1>a DEF Responses, PendingResponse, Fate
  <2>4. /\ Again(p) \in PendingResponse /\ Again(p).req = p.req /\ Again(p).what = p.what
        /\ Again(p).retry_count = p.retry_count + 1 /\ Again(p).queued_at_us = now
        /\ Again(p).is_turnaround_delay = FALSE
    BY <2>3, AgainFacts
  <2>5. p.req.unit = Own
    BY <2>3 DEF Kept, Ours
  <2>6. \A q \in Requests \ {p.req} : attempts'[q] = attempts[q]
    BY <2>1, <2>3, AttemptFacts DEF Resent
  <2> QED
    BY <2>2, <2>5, <2>6 DEF ForeignUntouched
<1> QED
  BY <1>1, <1>2, <1>3, <1>4, <1>5, <1>6, <1>7 DEF Effect

-----------------------------------------------------------------------------
(* What is there once, counts as one, and what is not there, as none.       *)
LEMMA HoldingFacts ==
  ASSUME NEW s, QueueOnce(s), NEW r
  PROVE  Holding(s, r) = IF r \in Held(s) THEN 1 ELSE 0
<1> DEFINE K == {k \in DOMAIN s : s[k].req = r}
<1>1. CASE r \notin Held(s)
  <2>1. K = {}
    BY <1>1 DEF Held
  <2> QED
    BY <1>1, <2>1, FS_EmptySet DEF Holding
<1>2. CASE r \in Held(s)
  <2>1. PICK k \in DOMAIN s : s[k].req = r
    BY <1>2 DEF Held
  <2>2. K = {k}
    BY <2>1 DEF QueueOnce
  <2>3. Cardinality(K) = 1
    BY <2>2, FS_Singleton
  <2> QED
    BY <1>2, <2>3 DEF Holding
<1> QED
  BY <1>1, <1>2

(* The same of the receive buffer.                                          *)
LEMMA BufferedFacts ==
  ASSUME FramesOnce(rxed_frame), NEW r \in Requests
  PROVE  Cardinality({k \in DOMAIN rxed_frame : rxed_frame[k] = r}) = IF r \in Buffered THEN 1 ELSE 0
<1> DEFINE K == {k \in DOMAIN rxed_frame : rxed_frame[k] = r}
<1>0. r # Garbage
  BY GarbageAssumption
<1>1. CASE r \notin Buffered
  <2>1. K = {}
    BY <1>0, <1>1 DEF Buffered, Elements
  <2> QED
    BY <1>1, <2>1, FS_EmptySet
<1>2. CASE r \in Buffered
  <2>1. PICK k \in DOMAIN rxed_frame : rxed_frame[k] = r
    BY <1>2 DEF Buffered, Elements
  <2>2. K = {k}
    BY <1>0, <2>1 DEF FramesOnce
  <2>3. Cardinality(K) = 1
    BY <2>2, FS_Singleton
  <2> QED
    BY <1>2, <2>3
<1> QED
  BY <1>1, <1>2

(* What Once and Apart say, HeldOnce counts.                                *)
LEMMA KeptIsHeld ==
  ASSUME TypeOK, Kept
  PROVE  HeldOnce
<1> SUFFICES ASSUME NEW r \in Requests PROVE Places(r) = IF heard[r] = -1 THEN 0 ELSE 1
  BY DEF HeldOnce
<1>1. Cardinality({k \in DOMAIN rxed_frame : rxed_frame[k] = r}) = IF r \in Buffered THEN 1 ELSE 0
  BY BufferedFacts DEF Kept, Once
<1>2. Holding(request_queue, r) = IF r \in Held(request_queue) THEN 1 ELSE 0
  BY HoldingFacts DEF Kept, Once
<1>3. Holding(expired, r) = IF r \in Held(expired) THEN 1 ELSE 0
  BY HoldingFacts DEF Kept, Once
<1>4. Holding(response_queue, r) = IF r \in Held(response_queue) THEN 1 ELSE 0
  BY HoldingFacts DEF Kept, Once
<1>5. Len(fates[r]) = IF r \in Over THEN 1 ELSE 0
  <2>1. fates[r] \in Seq(Fate) /\ Len(fates[r]) <= 1
    BY DEF TypeOK, Kept, Once, OverOnce
  <2>2. Len(fates[r]) \in Nat /\ (fates[r] = <<>> <=> Len(fates[r]) = 0)
    BY <2>1, EmptySeq, LenProperties
  <2> QED
    BY <2>1, <2>2 DEF Over
<1>6. Places(r) = (IF r \in Buffered THEN 1 ELSE 0) + (IF r \in Held(request_queue) THEN 1 ELSE 0)
                    + (IF r \in Held(expired) THEN 1 ELSE 0)
                    + (IF r \in Held(response_queue) THEN 1 ELSE 0) + (IF r \in Over THEN 1 ELSE 0)
  BY <1>1, <1>2, <1>3, <1>4, <1>5 DEF Places
<1>7. heard[r] # -1 <=> \/ r \in Buffered \/ r \in Held(request_queue) \/ r \in Held(expired)
                        \/ r \in Held(response_queue) \/ r \in Over
  BY DEF Kept, Apart, Open, Unheard
<1>8. /\ r \in Buffered => r \notin Held(request_queue) \cup Held(expired) \cup Held(response_queue) \cup Over
      /\ r \in Held(request_queue) => r \notin Held(expired) \cup Held(response_queue) \cup Over
      /\ r \in Held(expired) => r \notin Held(response_queue) \cup Over
      /\ r \in Held(response_queue) => r \notin Over
  BY DEF Kept, Apart
<1> QED
  BY <1>6, <1>7, <1>8

(* What Honest says, the client is told.                                    *)
LEMMA HonestIsTruthful ==
  ASSUME TypeOK, Kept, Honest
  PROVE  Truthful
<1> SUFFICES ASSUME NEW r \in Requests
             PROVE  /\ executed[r] <= 1
                    /\ "refusal" \in Said(r) => executed[r] = 0 /\ Holding(request_queue, r) = 0
                    /\ "answer" \in Said(r) => executed[r] = 1
  BY DEF Truthful
<1>1. executed[r] <= 1
  BY DEF Honest
<1>2. ASSUME NEW word \in Said(r)
      PROVE  /\ r \in Held(response_queue) \cup Over
             /\ word = "answer" => executed[r] = 1
             /\ word = "refusal" => executed[r] = 0
  <2>1. CASE word \in Elements(fates[r])
    <3>1. fates[r] # <<>>
      BY <2>1 DEF Elements
    <3> QED
      BY <2>1, <3>1 DEF Honest, Over
  <2>2. CASE \E k \in DOMAIN response_queue : response_queue[k].req = r /\ response_queue[k].what = word
    <3>1. PICK k \in DOMAIN response_queue : response_queue[k].req = r /\ response_queue[k].what = word
      BY <2>2
    <3>2. response_queue[k] \in Elements(response_queue) /\ r \in Held(response_queue)
      BY <3>1 DEF Elements, Held
    <3>3. executed[r] = IF word = "answer" THEN 1 ELSE 0
      BY <3>1, <3>2 DEF Honest
    <3> QED
      BY <3>2, <3>3
  <2> QED
    BY <2>1, <2>2 DEF Said
<1>3. r \in Held(response_queue) \cup Over => Holding(request_queue, r) = 0
  <2>1. QueueOnce(request_queue)
    BY DEF Kept, Once
  <2>2. r \in Held(response_queue) \cup Over => r \notin Held(request_queue)
    BY DEF Kept, Apart
  <2> QED
    BY <2>1, <2>2, HoldingFacts
<1> QED
  BY <1>1, <1>2, <1>3

-----------------------------------------------------------------------------
(* The inductive invariant.                                                 *)
IndInv ==
  /\ TypeOK /\ Cursor /\ Kept /\ Untouched /\ Honest
  /\ Timed /\ Disciplined /\ RetryDiscipline /\ TurnaroundKept /\ ForeignUntouched

(* It holds in the initial state.                                           *)
LEMMA InitInv ==
  ASSUME Init
  PROVE  IndInv
<1>1. /\ rxed_frame = <<>> /\ request_queue = <<>> /\ response_queue = <<>> /\ expired = <<>>
      /\ heard = [r \in Requests |-> -1] /\ executed = [r \in Requests |-> 0]
      /\ fates = [r \in Requests |-> <<>>] /\ attempts = [r \in Requests |-> <<>>]
      /\ now = 0 /\ last_recv_us = 0 /\ pc = "idle" /\ todo = 0 /\ i = 1
      /\ partial = FALSE /\ connected = TRUE /\ listen_only_mode = FALSE
  BY DEF Init
<1>2. TypeOK
  <2>1. /\ rxed_frame \in Seq(Requests \cup {Garbage}) /\ Len(rxed_frame) <= RxCapacity
        /\ request_queue \in Seq(PendingRequest) /\ Len(request_queue) <= QueueDepth
        /\ response_queue \in Seq(PendingResponse) /\ Len(response_queue) <= QueueDepth
        /\ expired \in Seq(PendingRequest)
    BY <1>1, ConfigAssumption
  <2>2. /\ heard \in [Requests -> Int] /\ executed \in [Requests -> Nat]
        /\ fates \in [Requests -> Seq(Fate)] /\ attempts \in [Requests -> Seq(Nat)]
    BY <1>1
  <2>3. /\ now \in Nat /\ last_recv_us \in Nat /\ todo \in 0..QueueDepth /\ i \in 1..(QueueDepth + 1)
        /\ pc \in {"idle", "drain", "ingest", "expire", "dispatch"}
    BY <1>1, ConfigAssumption
  <2>4. partial \in BOOLEAN /\ connected \in BOOLEAN /\ listen_only_mode \in BOOLEAN
    BY <1>1
  <2> QED
    BY <2>1, <2>2, <2>3, <2>4 DEF TypeOK
<1>3. /\ Elements(rxed_frame) = {} /\ Elements(response_queue) = {} /\ Held(request_queue) = {}
      /\ Held(expired) = {} /\ Held(response_queue) = {} /\ Over = {} /\ Unheard = Requests
      /\ \A r \in Requests : Elements(fates[r]) = {} /\ Len(fates[r]) = 0 /\ Len(attempts[r]) = 0
  BY <1>1 DEF Elements, Held, Over, Unheard
<1>4. Cursor
  BY <1>1 DEF Cursor
<1>5. Kept
  <2>1. Once
    BY <1>1, <1>3 DEF Once, FramesOnce, QueueOnce, OverOnce
  <2>2. Apart /\ Ours
    BY <1>3 DEF Apart, Ours, Open, Buffered
  <2> QED
    BY <2>1, <2>2 DEF Kept
<1>6. Untouched /\ Honest
  <2>1. \A r \in Requests : executed[r] = 0 /\ attempts[r] = <<>>
    BY <1>1
  <2> QED
    BY <1>3, <2>1 DEF Untouched, Honest
<1>7. Timed /\ Disciplined
  BY <1>1, <1>3 DEF Timed, Disciplined
<1>8. RetryDiscipline
  BY <1>3, ConfigAssumption DEF RetryDiscipline
<1>9. TurnaroundKept /\ ForeignUntouched
  <2>1. \A r \in Requests : executed[r] = 0 /\ attempts[r] = <<>>
    BY <1>1
  <2> QED
    BY <2>1 DEF TurnaroundKept, ForeignUntouched
<1> QED
  BY <1>2, <1>4, <1>5, <1>6, <1>7, <1>8, <1>9 DEF IndInv

(* Every step keeps it.                                                     *)
LEMMA InvStep ==
  ASSUME IndInv, [Next]_vars
  PROVE  IndInv'
<1> USE DEF IndInv
<1>1. TypeOK'
  BY TypeStep
<1>2. Cursor'
  BY <1>1, CursorStep
<1>3. Kept' /\ Effect
  BY KeptStep
<1>4. Untouched' /\ Honest'
  BY <1>1, <1>3, UntouchedStep, HonestStep
<1>5. Timed' /\ Disciplined' /\ RetryDiscipline'
  BY <1>1, <1>3, TimedStep, DisciplineStep
<1>6. TurnaroundKept' /\ ForeignUntouched'
  BY <1>1, <1>3, TurnaroundStep, ForeignStep
<1> QED
  BY <1>1, <1>2, <1>3, <1>4, <1>5, <1>6

(* It holds in every reachable state.                                       *)
LEMMA Invariance == Spec => []IndInv
<1>1. Init => IndInv
  BY InitInv
<1>2. IndInv /\ [Next]_vars => IndInv'
  BY InvStep
<1> QED
  BY <1>1, <1>2, PTL DEF Spec

-----------------------------------------------------------------------------
(* The server's queues never exceed QUEUE_DEPTH nor its buffer its          *)
(* capacity, the cursors of its loops stay within what they loop over, and  *)
(* every variable keeps its type.                                           *)
THEOREM TypeCorrect == Spec => []TypeOK
<1>1. IndInv => TypeOK
  BY DEF IndInv
<1> QED
  BY <1>1, Invariance, PTL

(* poll() loses no request it received and duplicates none: through full    *)
(* queues, swap_remove, expiry, retries, receive errors and reconnects,     *)
(* each is in one place or has ended once.                                  *)
THEOREM RequestsKept == Spec => []HeldOnce
<1>1. IndInv => HeldOnce
  BY KeptIsHeld DEF IndInv
<1> QED
  BY <1>1, Invariance, PTL

(* No handler runs twice for a request or after it was refused, and nothing *)
(* is answered that was not carried out, at whatever moment the request is  *)
(* rejected, expires or overflows a queue.                                  *)
THEOREM ClientsToldTruth == Spec => []Truthful
<1>1. IndInv => Truthful
  BY HonestIsTruthful DEF IndInv
<1> QED
  BY <1>1, Invariance, PTL

(* drain_response_queue sends a response at most 1 + max_send_retries times *)
(* and never earlier than the retry interval after the attempt before,      *)
(* however the queue is rotated.                                            *)
THEOREM RetriesDisciplined == Spec => []RetryDiscipline
<1>1. IndInv => RetryDiscipline
  BY DEF IndInv
<1> QED
  BY <1>1, Invariance, PTL

(* No response is sent before the turnaround delay has passed since the     *)
(* last bytes of its request, on the direct way or from the queue.          *)
THEOREM TurnaroundsKept == Spec => []TurnaroundKept
<1>1. IndInv => TurnaroundKept
  BY DEF IndInv
<1> QED
  BY <1>1, Invariance, PTL

(* What is addressed to another unit has no effect and gets no answer, a    *)
(* broadcast only the effect of an enabled write.                           *)
THEOREM ForeignersUntouched == Spec => []ForeignUntouched
<1>1. IndInv => ForeignUntouched
  BY DEF IndInv
<1> QED
  BY <1>1, Invariance, PTL
=============================================================================
