-------------------------- MODULE AsyncClientProofs --------------------------
(***************************************************************************)
(* Proofs about AsyncClient, for any number of requests, retries,          *)
(* transaction ids and commands, any depth of the pipeline and of the      *)
(* channel.                                                                *)
(*                                                                         *)
(* IndInv says where requests are: the channel, the backlog, the pending   *)
(* map and dispatch_request hold no request twice (Once), no two of them   *)
(* the same one (Apart), and a request the channel took is held by one of  *)
(* them exactly until the task replies to it (Settled). Moved sums up what *)
(* a step does to that, and LedgerImplemented follows from it.             *)
(*                                                                         *)
(* Spent adds what a request has used up and what its entry may still use, *)
(* which bounds the tries. InOrder adds the order of the requests still to *)
(* be tried for the first time, over the three places where they can be.   *)
(*                                                                         *)
(* Two results have a hypothesis. InFlightKept excludes the use of a       *)
(* transaction id that is still in the pending map (which cannot happen    *)
(* without a pipeline: InFlightKeptUnpipelined), and ResponsesMatch the    *)
(* use of one under which the server still owes a response. Both take more *)
(* requests in the time of one than there are ids, 65535 in the code.      *)
(***************************************************************************)
EXTENDS AsyncClient, FiniteSetTheorems, SequenceTheorems, TLAPS

(* Where requests are: in the channel, in the backlog, in the pending map,  *)
(* in the hands of dispatch_request; and in any of these.                   *)
Backlog == {queued[k].req : k \in DOMAIN queued}
InFlight == {pending[k].req : k \in InMap}
InHand == {e.req : e \in {cur} \ {None}}
Kept == InChannel \cup Backlog \cup InFlight \cup InHand

(* A dispatch starts only while the pipeline has room.                      *)
HasSlot == pc = "dispatch" => in_flight < N

(* The requests of a channel, of a backlog, of a map, and in a hand.        *)
ReqsIn(s) == {s[k].req : k \in {k \in DOMAIN s : s[k].op = "Request"}}
EntriesIn(q) == {q[k].req : k \in DOMAIN q}
MappedIn(p) == {p[k].req : k \in {k \in TxnIds : p[k] # None}}
HandOf(c) == {e.req : e \in {c} \ {None}}

(* None of them holds a request twice, and no request is in two of them.    *)
ReqsOnce(s) == \A i, j \in DOMAIN s : s[i].op = "Request" /\ s[i] = s[j] => i = j
EntriesOnce(q) == \A i, j \in DOMAIN q : q[i].req = q[j].req => i = j
MappedOnce(p) == \A i, j \in TxnIds :
  p[i] # None /\ p[j] # None /\ p[i].req = p[j].req => i = j
Once == ReqsOnce(cmd) /\ EntriesOnce(queued) /\ MappedOnce(pending)
Apart ==
  /\ InChannel \cap (Backlog \cup InFlight \cup InHand) = {}
  /\ Backlog \cap (InFlight \cup InHand) = {}
  /\ InFlight \cap InHand = {}

(* A request the channel took is kept until it is replied to, and not       *)
(* replied to while it is kept.                                             *)
Taken(r) == outcome[r] \notin {"idle", "refused"}
Settled ==
  \A r \in Requests :
    /\ r \in Kept <=> Taken(r) /\ replies[r] = <<>>
    /\ ~Taken(r) => replies[r] = <<>>
    /\ Len(replies[r]) <= 1

(* What a request has spent, and what its entry may still spend: before a   *)
(* send, and while it is in flight.                                         *)
Entries(q) == {q[k] : k \in DOMAIN q}
Mapped(p) == {p[k] : k \in TxnIds} \ {None}
Funded(e) == tries[e.req] + e.retry_attempts <= Attempts[e.req]
Charged(e) == tries[e.req] > 0 /\ tries[e.req] + e.retry_attempts <= Attempts[e.req] + 1
Spent ==
  /\ \A e \in Entries(queued) : Funded(e)
  /\ cur # None => Funded(cur)
  /\ \A e \in Mapped(pending) : Charged(e)
  /\ \A r \in Requests : r \in InChannel \/ outcome[r] = "idle" => tries[r] = 0
  /\ RetryBudget

(* A request still to be tried for the first time; a was submitted before b *)
Untried(r) == tries[r] = 0 /\ replies[r] = <<>>
Before(a, b) == \E i, j \in DOMAIN asked : i < j /\ asked[i] = a /\ asked[j] = b

(* What callers submitted, the channel took, and no request twice.          *)
Submitted ==
  /\ \A i \in DOMAIN asked : Taken(asked[i])
  /\ \A i, j \in DOMAIN asked : asked[i] = asked[j] => i = j

(* The requests still to be tried for the first time are in order: the one  *)
(* in hand, then the backlog, then the channel.                             *)
HandFirst ==
  \A r \in InHand, q \in Backlog \cup InChannel : Untried(r) /\ Untried(q) => ~Before(q, r)
BacklogFirst == \A r \in Backlog, q \in InChannel : Untried(r) => ~Before(q, r)
BacklogSorted(s) ==
  \A i, j \in DOMAIN s :
    i < j /\ Untried(s[i].req) /\ Untried(s[j].req) => ~Before(s[j].req, s[i].req)
ChannelSorted(s) ==
  \A i, j \in DOMAIN s :
    i < j /\ s[i].op = "Request" /\ s[j].op = "Request" => ~Before(s[j].req, s[i].req)

(* Commands are taken straight to dispatch_request only while the backlog   *)
(* has no request to be tried for the first time.                           *)
StraightThrough == \/ pc \in {"select", "batch", "connect"} /\ in_flight < N
                   \/ pc = "dispatch" /\ back = "batch"
BacklogTried == StraightThrough => \A r \in Backlog : ~Untried(r)

InOrder ==
  /\ Submitted /\ HandFirst /\ BacklogFirst
  /\ BacklogSorted(queued) /\ ChannelSorted(cmd) /\ BacklogTried

(* What the server has still to say under a transaction id in use is the    *)
(* response to the request that is pending under it.                        *)
Expected == \A m \in peer : pending[m.txn_id] # None => pending[m.txn_id].req = m.req

(* The transaction id about to be used is free: nothing is pending under it *)
(* and (on TCP) the server owes nothing under it.                           *)
IdFree == SendOk => pending[next_txn_id] = None
IdQuiet == SendOk => \A m \in peer : m.txn_id # next_txn_id

-----------------------------------------------------------------------------
(* Taking the head of a sequence moves every other element by one.          *)
LEMMA TailFacts ==
  ASSUME NEW S, NEW s \in Seq(S), s # <<>>
  PROVE  /\ Head(s) \in S /\ Head(s) = s[1] /\ 1 \in DOMAIN s /\ Tail(s) \in Seq(S)
         /\ Len(s) \in Nat /\ DOMAIN s = 1..Len(s) /\ DOMAIN Tail(s) = 1..(Len(s) - 1)
         /\ Len(Tail(s)) = Len(s) - 1
         /\ \A k \in 1..(Len(s) - 1) : Tail(s)[k] = s[k + 1]
<1>1. Len(s) \in Nat \ {0} /\ DOMAIN s = 1..Len(s)
  BY EmptySeq, LenProperties
<1>2. /\ Head(s) \in S /\ Tail(s) \in Seq(S) /\ Len(Tail(s)) = Len(s) - 1
      /\ \A k \in 1..Len(Tail(s)) : Tail(s)[k] = s[k + 1]
  BY HeadTailProperties
<1>3. DOMAIN Tail(s) = 1..Len(Tail(s))
  BY <1>2, LenProperties
<1>4. Head(s) = s[1]
  OBVIOUS
<1> QED
  BY <1>1, <1>2, <1>3, <1>4

(* Appending leaves the other elements where they are.                      *)
LEMMA AppendFacts ==
  ASSUME NEW S, NEW s \in Seq(S), NEW x \in S
  PROVE  /\ Append(s, x) \in Seq(S) /\ Append(s, x) # <<>>
         /\ Len(s) \in Nat /\ DOMAIN s = 1..Len(s) /\ DOMAIN Append(s, x) = 1..(Len(s) + 1)
         /\ Len(Append(s, x)) = Len(s) + 1
         /\ \A k \in 1..Len(s) : Append(s, x)[k] = s[k]
         /\ Append(s, x)[Len(s) + 1] = x
BY AppendProperties, LenProperties

(* The elements of a concatenation.                                         *)
LEMMA ConcatFacts ==
  ASSUME NEW S, NEW s \in Seq(S), NEW t \in Seq(S)
  PROVE  /\ s \o t \in Seq(S)
         /\ Len(s) \in Nat /\ DOMAIN s = 1..Len(s)
         /\ Len(t) \in Nat /\ DOMAIN t = 1..Len(t)
         /\ DOMAIN (s \o t) = 1..(Len(s) + Len(t))
         /\ \A i \in 1..Len(s) : (s \o t)[i] = s[i]
         /\ \A i \in 1..Len(t) : (s \o t)[Len(s) + i] = t[i]
<1>1. /\ s \o t \in Seq(S) /\ Len(s \o t) = Len(s) + Len(t)
      /\ \A i \in 1..(Len(s) + Len(t)) : (s \o t)[i] = IF i <= Len(s) THEN s[i] ELSE t[i - Len(s)]
  BY ConcatProperties
<1>2. /\ Len(s) \in Nat /\ DOMAIN s = 1..Len(s)
      /\ Len(t) \in Nat /\ DOMAIN t = 1..Len(t)
      /\ DOMAIN (s \o t) = 1..Len(s \o t)
  BY <1>1, LenProperties
<1>3. \A i \in 1..Len(t) : (s \o t)[Len(s) + i] = t[i]
  <2> SUFFICES ASSUME NEW i \in 1..Len(t) PROVE (s \o t)[Len(s) + i] = t[i]
    OBVIOUS
  <2>1. /\ Len(s) + i \in 1..(Len(s) + Len(t)) /\ ~(Len(s) + i <= Len(s))
        /\ (Len(s) + i) - Len(s) = i
    BY <1>2
  <2> QED
    BY <1>1, <2>1
<1> QED
  BY <1>1, <1>2, <1>3

(* Ascending enumerates a finite set of integers: every element, once. The  *)
(* rank of an element is injective, so it takes every value up to the size  *)
(* of the set.                                                              *)
LEMMA AscendingFacts ==
  ASSUME NEW S \in SUBSET Int, IsFiniteSet(S)
  PROVE  /\ Cardinality(S) \in Nat
         /\ \A i \in 1..Cardinality(S) : Ascending(S)[i] \in S
         /\ \A i, j \in 1..Cardinality(S) : Ascending(S)[i] = Ascending(S)[j] => i = j
         /\ \A k \in S : \E i \in 1..Cardinality(S) : Ascending(S)[i] = k
<1> DEFINE Upto(k) == {j \in S : j <= k}
           n == Cardinality(S)
           rank == [k \in S |-> Cardinality(Upto(k))]
<1>1. n \in Nat /\ IsFiniteSet(1..n) /\ Cardinality(1..n) = n
  BY FS_CardinalityType, FS_Interval
<1>2. \A k \in S : /\ IsFiniteSet(Upto(k)) /\ Cardinality(Upto(k)) \in 1..n
  <2> SUFFICES ASSUME NEW k \in S
               PROVE  IsFiniteSet(Upto(k)) /\ Cardinality(Upto(k)) \in 1..n
    OBVIOUS
  <2>1. IsFiniteSet(Upto(k)) /\ Cardinality(Upto(k)) <= n
    BY FS_Subset
  <2>2. Cardinality(Upto(k)) \in Nat
    BY <2>1, FS_CardinalityType
  <2>3. k \in Upto(k)
    OBVIOUS
  <2>4. Cardinality(Upto(k)) # 0
    BY <2>1, <2>3, FS_EmptySet
  <2> QED
    BY <1>1, <2>1, <2>2, <2>4
<1>3. \A a, b \in S : a < b => Cardinality(Upto(a)) < Cardinality(Upto(b))
  <2> SUFFICES ASSUME NEW a \in S, NEW b \in S, a < b
               PROVE  Cardinality(Upto(a)) < Cardinality(Upto(b))
    OBVIOUS
  <2>0. a \in Int /\ b \in Int
    OBVIOUS
  <2>1. Upto(a) \in SUBSET Upto(b) /\ b \in Upto(b) /\ b \notin Upto(a)
    <3>1. \A j \in S : j <= a => j <= b
      BY <2>0
    <3>2. Upto(a) \in SUBSET Upto(b)
      BY <3>1
    <3>3. b <= b /\ ~(b <= a)
      BY <2>0
    <3> QED
      BY <3>2, <3>3
  <2>2. /\ Cardinality(Upto(a)) <= Cardinality(Upto(b))
        /\ Cardinality(Upto(b)) # Cardinality(Upto(a))
    BY <1>2, <2>1, FS_Subset
  <2>3. Cardinality(Upto(a)) \in Int /\ Cardinality(Upto(b)) \in Int
    BY <1>2
  <2> QED
    BY <2>2, <2>3
<1>4. \A a, b \in S : rank[a] = rank[b] => a = b
  <2> SUFFICES ASSUME NEW a \in S, NEW b \in S, rank[a] = rank[b], a # b
               PROVE  FALSE
    OBVIOUS
  <2>1. a < b \/ b < a
    OBVIOUS
  <2>2. /\ a < b => Cardinality(Upto(a)) < Cardinality(Upto(b))
        /\ b < a => Cardinality(Upto(b)) < Cardinality(Upto(a))
    BY <1>3
  <2>3. Cardinality(Upto(a)) \in Int /\ Cardinality(Upto(a)) = Cardinality(Upto(b))
    BY <1>2
  <2> QED
    BY <2>1, <2>2, <2>3
<1>5. rank \in Injection(S, 1..n)
  BY <1>2, <1>4 DEF Injection, IsInjective
<1>6. rank \in Surjection(S, 1..n)
  BY <1>1, <1>5, FS_Injection
<1>7. \A i \in 1..n : \E k \in S : rank[k] = i
  BY <1>6 DEF Surjection
<1>8. \A i \in 1..n : Ascending(S)[i] \in S /\ rank[Ascending(S)[i]] = i
  <2> SUFFICES ASSUME NEW i \in 1..n PROVE Ascending(S)[i] \in S /\ rank[Ascending(S)[i]] = i
    OBVIOUS
  <2>1. Ascending(S)[i] = CHOOSE k \in S : Cardinality(Upto(k)) = i
    BY DEF Ascending
  <2>2. \E k \in S : Cardinality(Upto(k)) = i
    BY <1>7
  <2> QED
    BY <2>1, <2>2
<1>9. \A k \in S : rank[k] \in 1..n
  BY <1>2
<1> HIDE DEF rank, n
<1>10. \A k \in S : Ascending(S)[rank[k]] = k
  BY <1>4, <1>8, <1>9
<1> QED
  BY <1>1, <1>8, <1>9, <1>10 DEF n

(* The entries to queue again are some of those in flight.                  *)
LEMMA AgainFacts ==
  /\ Again \in SUBSET Int /\ IsFiniteSet(Again)
  /\ Again \subseteq InMap
<1>1. TxnIds \in SUBSET Int /\ IsFiniteSet(TxnIds)
  BY ParametersAssumption, FS_Interval DEF TxnIds
<1>2. Again \in SUBSET TxnIds /\ Again \subseteq InMap
  BY DEF Again, InMap
<1> QED
  BY <1>1, <1>2, FS_Subset

(* What handle_connection_loss puts back: exactly the entries with an       *)
(* attempt left, with one attempt less, none of them twice.                 *)
LEMMA RequeuedFacts ==
  ASSUME TypeOK
  PROVE  /\ Requeued \in Seq(Entry)
         /\ \A i \in DOMAIN Requeued : \E k \in InMap :
              /\ pending[k].retry_attempts > 0
              /\ Requeued[i].req = pending[k].req
              /\ Requeued[i].retry_attempts = pending[k].retry_attempts - 1
         /\ \A k \in InMap : pending[k].retry_attempts > 0 =>
              \E i \in DOMAIN Requeued : Requeued[i].req = pending[k].req
         /\ MappedOnce(pending) => \A i, j \in DOMAIN Requeued : Requeued[i].req = Requeued[j].req => i = j
<1> DEFINE n == Cardinality(Again)
           order == Ascending(Again)
<1>1. /\ n \in Nat
      /\ \A i \in 1..n : order[i] \in Again
      /\ \A i, j \in 1..n : order[i] = order[j] => i = j
      /\ \A k \in Again : \E i \in 1..n : order[i] = k
  BY AgainFacts, AscendingFacts
<1>2. \A k \in Again : /\ k \in InMap /\ pending[k] \in Entry /\ pending[k].retry_attempts > 0
  BY DEF Again, InMap, TypeOK
<1>3. Requeued = [i \in 1..n |-> [pending[order[i]] EXCEPT !.retry_attempts = @ - 1]]
  BY DEF Requeued
<1> HIDE DEF n, order
<1>4. DOMAIN Requeued = 1..n
  BY <1>3
<1>5. \A i \in 1..n : /\ Requeued[i] \in Entry
                      /\ Requeued[i].req = pending[order[i]].req
                      /\ Requeued[i].retry_attempts = pending[order[i]].retry_attempts - 1
  BY <1>1, <1>2, <1>3 DEF Entry
<1>6. Requeued \in [1..n -> Entry]
  BY <1>3, <1>4, <1>5
<1>7. Requeued \in Seq(Entry)
  BY <1>1, <1>6, SeqDef
<1>8. \A i, j \in 1..n : MappedOnce(pending) /\ Requeued[i].req = Requeued[j].req => i = j
  BY <1>1, <1>2, <1>5 DEF MappedOnce, InMap
<1>9. \A k \in InMap : pending[k].retry_attempts > 0 => k \in Again
  BY DEF Again
<1>10. \A k \in Again : \E i \in 1..n : Requeued[i].req = pending[k].req
  BY <1>1, <1>5
<1> QED
  BY <1>1, <1>2, <1>4, <1>5, <1>7, <1>8, <1>9, <1>10

(* The backlog stays typed when entries are put back.                       *)
LEMMA BacklogType ==
  ASSUME TypeOK
  PROVE  /\ Requeued \o queued \in Seq(Entry)
         /\ \A k \in DOMAIN queued : queued[k] \in Entry
BY RequeuedFacts, ConcatFacts, ElementOfSeq, LenProperties DEF TypeOK

(* Replying keeps replies and outcomes typed.                               *)
LEMMA ReplyType ==
  ASSUME TypeOK, NEW S, NEW T, NEW res \in Result, NEW err \in Result, Reply2(S, res, T, err)
  PROVE  /\ replies' \in [Requests -> Seq(Result)]
         /\ outcome' \in [Requests -> {"idle", "waiting", "returned", "Timeout", "refused"}]
<1>1. \A r \in Requests : /\ Append(replies[r], res) \in Seq(Result)
                          /\ Append(replies[r], err) \in Seq(Result)
  BY AppendFacts DEF TypeOK
<1>2. replies' \in [Requests -> Seq(Result)]
  BY <1>1 DEF Reply2, TypeOK
<1> QED
  BY <1>2 DEF Reply2, TypeOK

(* An entry with one attempt less.                                          *)
LEMMA EntryLess ==
  ASSUME NEW e \in Entry, e.retry_attempts > 0
  PROVE  LET f == [e EXCEPT !.retry_attempts = @ - 1]
         IN  /\ f \in Entry /\ f # None
             /\ f.req = e.req /\ f.retry_attempts = e.retry_attempts - 1
<1>1. [e EXCEPT !.retry_attempts = @ - 1] \in Entry
  BY DEF Entry
<1> QED
  BY <1>1, NoneAssumption DEF Entry

(* What taking a command leaves.                                            *)
LEMMA TakesType ==
  ASSUME TypeOK, NEW op, TakesCommand(op)
  PROVE  /\ cmd # <<>> /\ Head(cmd) \in Command /\ Head(cmd).op = op
         /\ cmd' \in Seq(Command) /\ Len(cmd') <= Capacity
         /\ count' \in 0..BatchMax
         /\ pc \in {"select", "batch"} /\ (pc = "batch" => in_flight < N)
<1>1. /\ cmd # <<>> /\ Head(cmd).op = op /\ cmd' = Tail(cmd)
      /\ pc \in {"select", "batch"} /\ (pc = "batch" => in_flight < N /\ count < BatchMax)
      /\ count' = IF pc = "select" THEN 1 ELSE count + 1
  BY DEF TakesCommand, BatchGoesOn, PipelineHasRoom
<1>2. cmd \in Seq(Command) /\ Len(cmd) <= Capacity
  BY DEF TypeOK
<1>3. /\ Head(cmd) \in Command /\ Tail(cmd) \in Seq(Command) /\ Len(Tail(cmd)) = Len(cmd) - 1
      /\ Len(cmd) \in Nat
  BY <1>1, <1>2, TailFacts
<1>4. count' \in 0..BatchMax
  BY <1>1, ParametersAssumption DEF TypeOK
<1> QED
  BY <1>1, <1>2, <1>3, <1>4, ParametersAssumption

(* A command is added only while there is room.                             *)
LEMMA AddsType ==
  ASSUME TypeOK, HasRoom, NEW c \in Command, cmd' = Append(cmd, c)
  PROVE  cmd' \in Seq(Command) /\ Len(cmd') <= Capacity
<1>1. cmd \in Seq(Command) /\ Len(cmd) < Capacity
  BY DEF TypeOK, HasRoom
<1>2. Append(cmd, c) \in Seq(Command) /\ Len(Append(cmd, c)) = Len(cmd) + 1 /\ Len(cmd) \in Nat
  BY <1>1, AppendFacts
<1> QED
  BY <1>1, <1>2, ParametersAssumption

(* The commands callers send.                                               *)
LEMMA CommandTypes ==
  /\ \A r \in Requests : Req(r) \in Command
  /\ \A op \in {"Connect", "Disconnect", "Shutdown"} : Cmd(op) \in Command
BY DEF Command, Req, Cmd

(* Types after the helpers of the task.                                     *)
LEMMA LostType ==
  ASSUME TypeOK
  PROVE  /\ handle_connection_loss =>
              /\ pending' \in [TxnIds -> Entry \cup {None}]
              /\ queued' \in Seq(Entry) /\ in_flight' = 0
         /\ TransportDropped =>
              /\ transport' = FALSE
              /\ peer' \subseteq [txn_id : TxnIds, req : Requests]
         /\ \A k \in InMap : RemoveEntry(k) =>
              /\ pending' \in [TxnIds -> Entry \cup {None}] /\ in_flight' \in 0..N
         /\ advance_txn_id => next_txn_id' \in TxnIds
<1>1. handle_connection_loss => /\ pending' \in [TxnIds -> Entry \cup {None}]
                                /\ queued' \in Seq(Entry) /\ in_flight' = 0
  BY BacklogType DEF handle_connection_loss
<1>2. TransportDropped => transport' = FALSE /\ peer' \subseteq [txn_id : TxnIds, req : Requests]
  BY DEF TransportDropped, TypeOK
<1>3. pending \in [TxnIds -> Entry \cup {None}] /\ in_flight \in 0..N /\ next_txn_id \in TxnIds
  BY DEF TypeOK
<1>4. \A k \in InMap : RemoveEntry(k) =>
        /\ pending' \in [TxnIds -> Entry \cup {None}] /\ in_flight' \in 0..N
  <2> SUFFICES ASSUME NEW k \in InMap, RemoveEntry(k)
               PROVE  pending' \in [TxnIds -> Entry \cup {None}] /\ in_flight' \in 0..N
    OBVIOUS
  <2>1. pending' \in [TxnIds -> Entry \cup {None}]
    BY <1>3 DEF RemoveEntry
  <2>2. in_flight' = IF in_flight = 0 THEN 0 ELSE in_flight - 1
    BY DEF RemoveEntry
  <2> QED
    BY <1>3, <2>1, <2>2, ParametersAssumption
<1>5. advance_txn_id => next_txn_id' \in TxnIds
  BY <1>3, ParametersAssumption DEF advance_txn_id, TxnIds
<1> QED
  BY <1>1, <1>2, <1>4, <1>5

(* The parts of the typed state.                                            *)
LEMMA TypeFacts ==
  ASSUME TypeOK
  PROVE  /\ cur # None => cur \in Entry /\ cur.req \in Requests /\ cur.retry_attempts \in Nat
         /\ \A k \in InMap : /\ k \in TxnIds /\ pending[k] \in Entry
                             /\ pending[k].req \in Requests /\ pending[k].retry_attempts \in Nat
         /\ \A k \in DOMAIN queued : /\ queued[k] \in Entry /\ queued[k].req \in Requests
                                     /\ queued[k].retry_attempts \in Nat
         /\ \A k \in DOMAIN cmd : /\ cmd[k] \in Command
                                  /\ cmd[k].op = "Request" =>
                                       cmd[k].req \in Requests /\ cmd[k] = Req(cmd[k].req)
         /\ "Failed" \in Result /\ "GaveUp" \in Result /\ Requests \subseteq Result
<1>1. \A k \in DOMAIN queued : queued[k] \in Entry
  BY BacklogType
<1>2. \A k \in DOMAIN cmd : cmd[k] \in Command
  BY ElementOfSeq, LenProperties DEF TypeOK
<1>3. \A e \in Entry : e.req \in Requests /\ e.retry_attempts \in Nat
  BY DEF Entry
<1>4. \A c \in Command : c.op = "Request" => c.req \in Requests /\ c = Req(c.req)
  BY DEF Command, Req
<1>5. \A k \in InMap : k \in TxnIds /\ pending[k] \in Entry
  BY DEF InMap, TypeOK
<1>6. cur # None => cur \in Entry
  BY DEF TypeOK
<1> QED
  BY <1>1, <1>2, <1>3, <1>4, <1>5, <1>6 DEF Result

(* Every step keeps the types and the slot of the dispatch.                 *)
LEMMA TypeStep ==
  ASSUME TypeOK, HasSlot, [Next]_vars
  PROVE  TypeOK' /\ HasSlot'
<1>1. ASSUME NEW r \in Requests, SendRequest(r) PROVE TypeOK' /\ HasSlot'
  <2>1. cmd' \in Seq(Command) /\ Len(cmd') <= Capacity
    BY <1>1, AddsType, CommandTypes DEF SendRequest
  <2>2. asked' \in Seq(Requests)
    BY <1>1, AppendFacts DEF SendRequest, TypeOK
  <2>3. outcome' \in [Requests -> {"idle", "waiting", "returned", "Timeout", "refused"}]
    BY <1>1 DEF SendRequest, TypeOK
  <2> QED
    BY <1>1, <2>1, <2>2, <2>3 DEF SendRequest, taskVars, TypeOK, HasSlot
<1>2. ASSUME NEW r \in Requests, SendRequestClosed(r) PROVE TypeOK' /\ HasSlot'
  BY <1>2, ParametersAssumption DEF SendRequestClosed, TypeOK, HasSlot, taskVars, callerVars,
     TaskAlive
<1>3. ASSUME NEW r \in Requests, Timeout(r) PROVE TypeOK' /\ HasSlot'
  <2>1. cmd' \in Seq(Command) /\ Len(cmd') <= Capacity
    <3>1. CASE HasRoom /\ TaskAlive
      BY <1>3, <3>1, AddsType, CommandTypes DEF Timeout
    <3>2. CASE ~(HasRoom /\ TaskAlive)
      BY <1>3, <3>2 DEF Timeout, TypeOK
    <3> QED
      BY <3>1, <3>2
  <2>2. outcome' \in [Requests -> {"idle", "waiting", "returned", "Timeout", "refused"}]
    BY <1>3 DEF Timeout, TypeOK
  <2> QED
    BY <1>3, <2>1, <2>2 DEF Timeout, taskVars, callerVars, TypeOK, HasSlot
<1>4. CASE CallConnect
  <2>1. cmd' \in Seq(Command) /\ Len(cmd') <= Capacity
    BY <1>4, AddsType, CommandTypes DEF CallConnect
  <2>2. budget' \in [connect : 0..MaxConnects, disconnect : 0..MaxDisconnects]
    <3>1. /\ budget \in [connect : 0..MaxConnects, disconnect : 0..MaxDisconnects]
          /\ budget.connect - 1 \in 0..MaxConnects
          /\ budget' = [budget EXCEPT !.connect = @ - 1]
      BY <1>4, ParametersAssumption DEF CallConnect, TypeOK
    <3> QED
      BY <3>1
  <2> QED
    BY <1>4, <2>1, <2>2 DEF CallConnect, taskVars, TypeOK, HasSlot
<1>5. CASE CallDisconnect
  <2>1. cmd' \in Seq(Command) /\ Len(cmd') <= Capacity
    BY <1>5, AddsType, CommandTypes DEF CallDisconnect
  <2>2. budget' \in [connect : 0..MaxConnects, disconnect : 0..MaxDisconnects]
    <3>1. /\ budget \in [connect : 0..MaxConnects, disconnect : 0..MaxDisconnects]
          /\ budget.disconnect - 1 \in 0..MaxDisconnects
          /\ budget' = [budget EXCEPT !.disconnect = @ - 1]
      BY <1>5, ParametersAssumption DEF CallDisconnect, TypeOK
    <3> QED
      BY <3>1
  <2> QED
    BY <1>5, <2>1, <2>2 DEF CallDisconnect, taskVars, TypeOK, HasSlot
<1>6. CASE DropHandles
  BY <1>6, ParametersAssumption DEF DropHandles, TypeOK, HasSlot, taskVars
<1>7. CASE FillFromBacklog
  <2>1. /\ Head(queued) \in Entry /\ Tail(queued) \in Seq(Entry)
    BY <1>7, TailFacts DEF FillFromBacklog, TypeOK
  <2> QED
    BY <1>7, <2>1, NoneAssumption DEF FillFromBacklog, callerVars, PipelineHasRoom, TypeOK, HasSlot, Entry
<1>8. CASE FillDone
  BY <1>8, ParametersAssumption DEF FillDone, TypeOK, HasSlot, callerVars, PipelineHasRoom
<1>9. CASE DispatchGivesUp
  <2>1. /\ replies' \in [Requests -> Seq(Result)]
        /\ outcome' \in [Requests -> {"idle", "waiting", "returned", "Timeout", "refused"}]
    BY <1>9, TypeFacts, ReplyType DEF DispatchGivesUp, Reply, NoReply
  <2> QED
    BY <1>9, <2>1 DEF DispatchGivesUp, callerVars, TypeOK, HasSlot, Dispatched
<1>10. CASE Reconnect
  BY <1>10, ParametersAssumption DEF Reconnect, TypeOK, HasSlot, callerVars
<1>11. CASE ReconnectFails
  <2>1. /\ replies' \in [Requests -> Seq(Result)]
        /\ outcome' \in [Requests -> {"idle", "waiting", "returned", "Timeout", "refused"}]
    <3>1. Reply({cur.req}, "Failed") \/ NoReply
      BY <1>11 DEF ReconnectFails
    <3>2. CASE Reply({cur.req}, "Failed")
      BY <3>2, TypeFacts, ReplyType DEF Reply
    <3>3. CASE NoReply
      BY <3>3 DEF NoReply, TypeOK
    <3> QED
      BY <3>1, <3>2, <3>3
  <2>2. /\ cur # None /\ cur \in Entry /\ cur.req \in Requests
        /\ cur.retry_attempts \in Nat
    BY <1>11, TypeFacts DEF ReconnectFails, TypeOK
  <2>3. tries' \in [Requests -> Nat]
    BY <1>11, <2>2 DEF ReconnectFails, Spend, TypeOK
  <2>4. /\ pc' = "dispatch" <=> cur' # None
        /\ cur' \in Entry \cup {None}
        /\ pc' \in {"fill", "dispatch", "batch"} /\ back' \in {"fill", "batch"}
        /\ pc' = "dispatch" => pc' = pc
    BY <1>11, <2>2, EntryLess DEF ReconnectFails, Dispatched, TypeOK
  <2> QED
    BY <1>11, <2>1, <2>2, <2>3, <2>4 DEF ReconnectFails, callerVars, TypeOK, HasSlot
<1>12. CASE EncodeFails
  <2>1. /\ replies' \in [Requests -> Seq(Result)]
        /\ outcome' \in [Requests -> {"idle", "waiting", "returned", "Timeout", "refused"}]
    BY <1>12, TypeFacts, ReplyType DEF EncodeFails, Reply, NoReply
  <2>2. next_txn_id' \in TxnIds
    BY <1>12, LostType DEF EncodeFails
  <2> QED
    BY <1>12, <2>1, <2>2 DEF EncodeFails, callerVars, TypeOK, HasSlot, Dispatched
<1>13. CASE SendOk
  <2>1. /\ replies' \in [Requests -> Seq(Result)]
        /\ outcome' \in [Requests -> {"idle", "waiting", "returned", "Timeout", "refused"}]
    BY <1>13, TypeFacts, ReplyType DEF SendOk, Reply, NoReply
  <2>2. /\ cur # None /\ cur \in Entry /\ cur.req \in Requests
        /\ cur.retry_attempts \in Nat
    BY <1>13, TypeFacts DEF SendOk, TypeOK
  <2>3. tries' \in [Requests -> Nat]
    BY <1>13, <2>2 DEF SendOk, Spend, TypeOK
  <2>4. next_txn_id \in TxnIds /\ next_txn_id' \in TxnIds
    BY <1>13, LostType DEF SendOk, TypeOK
  <2>5. peer' \subseteq [txn_id : TxnIds, req : Requests]
    BY <1>13, <2>2, <2>4 DEF SendOk, TypeOK
  <2>6. in_flight' \in 0..N
    BY <1>13, ParametersAssumption DEF HasSlot, SendOk, TypeOK
  <2>7. pending' \in [TxnIds -> Entry \cup {None}]
    BY <1>13, <2>2 DEF SendOk, TypeOK
  <2> QED
    BY <1>13, <2>1, <2>3, <2>4, <2>5, <2>6, <2>7 DEF SendOk, callerVars, TypeOK, HasSlot,
       Dispatched
<1>14. CASE SendFails
  <2>1. /\ replies' \in [Requests -> Seq(Result)]
        /\ outcome' \in [Requests -> {"idle", "waiting", "returned", "Timeout", "refused"}]
    BY <1>14, TypeFacts, ReplyType DEF SendFails, Reply, NoReply
  <2>2. /\ cur # None /\ cur \in Entry /\ cur.req \in Requests
        /\ cur.retry_attempts \in Nat
    BY <1>14, TypeFacts DEF SendFails, TypeOK
  <2>3. tries' \in [Requests -> Nat]
    BY <1>14, <2>2 DEF SendFails, Spend, TypeOK
  <2>0. \/ cur.retry_attempts = 0 /\ Dispatched
        \/ cur.retry_attempts > 0 /\ cur' = [cur EXCEPT !.retry_attempts = @ - 1] /\ UNCHANGED <<pc, back>>
    BY <1>14, <2>2 DEF SendFails
  <2>4. /\ pc' = "dispatch" <=> cur' # None
        /\ cur' \in Entry \cup {None}
        /\ pc' \in {"fill", "dispatch", "batch"} /\ back' \in {"fill", "batch"}
        /\ pc' = "dispatch" => pc' = pc
    BY <2>0, <2>2, EntryLess DEF Dispatched, TypeOK
  <2>5. next_txn_id' \in TxnIds
    BY <1>14, LostType DEF SendFails
  <2>6. /\ pending' \in [TxnIds -> Entry \cup {None}] /\ queued' \in Seq(Entry) /\ in_flight' = 0
        /\ transport' = FALSE /\ peer' \subseteq [txn_id : TxnIds, req : Requests]
    BY <1>14, LostType DEF SendFails
  <2>7. 0 \in 0..N /\ 0 < N
    BY ParametersAssumption
  <2> QED
    BY <1>14, <2>1, <2>3, <2>4, <2>5, <2>6, <2>7 DEF SendFails, callerVars, TypeOK, HasSlot
<1>15. CASE HandleRequest
  <2>2. /\ cmd # <<>> /\ Head(cmd) \in Command /\ Head(cmd).op = "Request"
        /\ cmd' \in Seq(Command) /\ Len(cmd') <= Capacity /\ count' \in 0..BatchMax
        /\ pc \in {"select", "batch"}
    BY <1>15, TakesType DEF HandleRequest
  <2>3. Head(cmd).req \in Requests
    BY <2>2 DEF Command
  <2> DEFINE e == [req |-> Head(cmd).req, retry_attempts |-> Attempts[Head(cmd).req]]
  <2>4. e \in Entry /\ e # None
    BY <2>3, RequestsAssumption, NoneAssumption DEF Entry
  <2>5. Append(queued, e) \in Seq(Entry)
    BY <2>4, AppendFacts DEF TypeOK
  <2>6. \/ in_flight < N /\ cur' = e /\ pc' = "dispatch" /\ back' = "batch" /\ UNCHANGED queued
        \/ queued' = Append(queued, e) /\ pc' = "batch" /\ UNCHANGED <<cur, back>>
    BY <1>15 DEF HandleRequest, PipelineHasRoom
  <2> HIDE DEF e
  <2>7. /\ queued' \in Seq(Entry) /\ cur' \in Entry \cup {None} /\ (pc' = "dispatch" <=> cur' # None)
        /\ pc' \in {"dispatch", "batch"} /\ back' \in {"fill", "batch"}
        /\ pc' = "dispatch" => in_flight < N
    BY <2>2, <2>4, <2>5, <2>6 DEF TypeOK
  <2> QED
    BY <1>15, <2>2, <2>7 DEF HandleRequest, callerVars, TypeOK, HasSlot
<1>16. CASE HandleConnect
  <2>2. /\ cmd # <<>> /\ Head(cmd) \in Command /\ Head(cmd).op = "Connect"
        /\ cmd' \in Seq(Command) /\ Len(cmd') <= Capacity /\ count' \in 0..BatchMax
        /\ pc \in {"select", "batch"}
    BY <1>16, TakesType DEF HandleConnect
  <2>3. transport' = FALSE /\ peer' \subseteq [txn_id : TxnIds, req : Requests]
    BY <1>16, LostType DEF HandleConnect
  <2> QED
    BY <1>16, <2>2, <2>3 DEF HandleConnect, callerVars, TypeOK, HasSlot
<1>17. ASSUME NEW ok \in BOOLEAN, ConnectDone(ok) PROVE TypeOK' /\ HasSlot'
  BY <1>17, ParametersAssumption DEF ConnectDone, TypeOK, HasSlot
<1>18. CASE HandleDisconnect
  <2>1. /\ replies' \in [Requests -> Seq(Result)]
        /\ outcome' \in [Requests -> {"idle", "waiting", "returned", "Timeout", "refused"}]
    BY <1>18, TypeFacts, ReplyType DEF HandleDisconnect, drain_all, Reply, NoReply
  <2>2. /\ cmd # <<>> /\ Head(cmd) \in Command /\ Head(cmd).op = "Disconnect"
        /\ cmd' \in Seq(Command) /\ Len(cmd') <= Capacity /\ count' \in 0..BatchMax
        /\ pc \in {"select", "batch"}
    BY <1>18, TakesType DEF HandleDisconnect
  <2>3. transport' = FALSE /\ peer' \subseteq [txn_id : TxnIds, req : Requests]
    BY <1>18, LostType DEF HandleDisconnect
  <2>4. pending' \in [TxnIds -> Entry \cup {None}] /\ queued' \in Seq(Entry) /\ in_flight' \in 0..N
    BY <1>18, EmptySeq, ParametersAssumption DEF HandleDisconnect, drain_all
  <2> QED
    BY <1>18, <2>1, <2>2, <2>3, <2>4 DEF HandleDisconnect, callerVars, TypeOK, HasSlot
<1>19. CASE HandleShutdown
  <2>1. /\ replies' \in [Requests -> Seq(Result)]
        /\ outcome' \in [Requests -> {"idle", "waiting", "returned", "Timeout", "refused"}]
    BY <1>19, TypeFacts, ReplyType DEF HandleShutdown, Reply, NoReply
  <2>2. transport' = FALSE /\ peer' \subseteq [txn_id : TxnIds, req : Requests]
    BY <1>19, LostType DEF HandleShutdown, TaskEnds
  <2>3. pending' \in [TxnIds -> Entry \cup {None}] /\ queued' \in Seq(Entry) /\ in_flight' \in 0..N
    BY <1>19, EmptySeq, ParametersAssumption DEF HandleShutdown, TaskEnds
  <2>4. cmd' \in Seq(Command) /\ Len(cmd') <= Capacity /\ count' \in 0..BatchMax
    BY <1>19, EmptySeq, ParametersAssumption DEF HandleShutdown, TaskEnds
  <2>5. cur = None /\ pc' = "ended" /\ connector' = FALSE
    BY <1>19 DEF HandleShutdown, TaskEnds, BatchGoesOn, TypeOK
  <2> QED
    BY <1>19, <2>1, <2>2, <2>3, <2>4, <2>5 DEF HandleShutdown, TaskEnds, TypeOK, HasSlot
<1>20. CASE ChannelClosed
  <2>1. /\ replies' \in [Requests -> Seq(Result)]
        /\ outcome' \in [Requests -> {"idle", "waiting", "returned", "Timeout", "refused"}]
    BY <1>20, TypeFacts, ReplyType DEF ChannelClosed, Reply, NoReply
  <2>2. transport' = FALSE /\ peer' \subseteq [txn_id : TxnIds, req : Requests]
    BY <1>20, LostType DEF ChannelClosed, TaskEnds
  <2>3. pending' \in [TxnIds -> Entry \cup {None}] /\ queued' \in Seq(Entry) /\ in_flight' \in 0..N
    BY <1>20, EmptySeq, ParametersAssumption DEF ChannelClosed, TaskEnds
  <2>4. cmd' \in Seq(Command) /\ Len(cmd') <= Capacity /\ count' \in 0..BatchMax
    BY <1>20, EmptySeq, ParametersAssumption DEF ChannelClosed, TaskEnds
  <2>5. cur = None /\ pc' = "ended" /\ connector' = FALSE
    BY <1>20 DEF ChannelClosed, TaskEnds, BatchGoesOn, TypeOK
  <2> QED
    BY <1>20, <2>1, <2>2, <2>3, <2>4, <2>5 DEF ChannelClosed, TaskEnds, TypeOK, HasSlot
<1>21. CASE BatchDone
  BY <1>21, ParametersAssumption DEF BatchDone, TypeOK, HasSlot, callerVars
<1>22. CASE ReceiveFails
  <2>1. /\ replies' \in [Requests -> Seq(Result)]
        /\ outcome' \in [Requests -> {"idle", "waiting", "returned", "Timeout", "refused"}]
    BY <1>22, TypeFacts, ReplyType DEF ReceiveFails, Reply, NoReply
  <2>2. /\ pending' \in [TxnIds -> Entry \cup {None}] /\ queued' \in Seq(Entry) /\ in_flight' = 0
        /\ transport' = FALSE /\ peer' \subseteq [txn_id : TxnIds, req : Requests]
    BY <1>22, LostType DEF ReceiveFails
  <2>3. 0 \in 0..N
    BY ParametersAssumption
  <2> QED
    BY <1>22, <2>1, <2>2, <2>3 DEF ReceiveFails, callerVars, TypeOK, HasSlot, Receiving
<1>23. ASSUME NEW m \in peer, process_frame(m) PROVE TypeOK' /\ HasSlot'
  <2>1. /\ replies' \in [Requests -> Seq(Result)]
        /\ outcome' \in [Requests -> {"idle", "waiting", "returned", "Timeout", "refused"}]
    BY <1>23, TypeFacts, ReplyType DEF process_frame, Reply, resolve_key, TypeOK, NoReply
  <2>2. pending' \in [TxnIds -> Entry \cup {None}] /\ in_flight' \in 0..N
    BY <1>23, LostType DEF process_frame, resolve_key, TypeOK
  <2>3. peer' \subseteq [txn_id : TxnIds, req : Requests]
    BY <1>23 DEF process_frame, TypeOK
  <2> QED
    BY <1>23, <2>1, <2>2, <2>3 DEF process_frame, callerVars, TypeOK, HasSlot, Receiving
<1>24. ASSUME NEW m \in peer, ReceiveDamaged(m) PROVE TypeOK' /\ HasSlot'
  <2>1. /\ replies' \in [Requests -> Seq(Result)]
        /\ outcome' \in [Requests -> {"idle", "waiting", "returned", "Timeout", "refused"}]
    BY <1>24, TypeFacts, ReplyType DEF ReceiveDamaged, Reply, resolve_key, TypeOK, NoReply
  <2>2. pending' \in [TxnIds -> Entry \cup {None}] /\ in_flight' \in 0..N
    BY <1>24, LostType DEF ReceiveDamaged, resolve_key, TypeOK
  <2>3. peer' \subseteq [txn_id : TxnIds, req : Requests]
    BY <1>24 DEF ReceiveDamaged, TypeOK
  <2> QED
    BY <1>24, <2>1, <2>2, <2>3 DEF ReceiveDamaged, callerVars, TypeOK, HasSlot, Receiving
<1>25. CASE UNCHANGED vars
  BY <1>25 DEF TypeOK, HasSlot, vars, taskVars, callerVars
<1> QED
  BY <1>1, <1>2, <1>3, <1>4, <1>5, <1>6, <1>7, <1>8, <1>9, <1>10, <1>11, <1>12, <1>13, <1>14,
     <1>15, <1>16, <1>17, <1>18, <1>19, <1>20, <1>21, <1>22, <1>23, <1>24, <1>25 DEF Next,
     CallerStep, TaskStep, LinkStep

(* They hold initially.                                                     *)
LEMMA TypeInit ==
  ASSUME Init
  PROVE  TypeOK /\ HasSlot
<1>1. /\ cmd \in Seq(Command) /\ Len(cmd) = 0 /\ queued \in Seq(Entry) /\ asked \in Seq(Requests)
      /\ \A r \in Requests : replies[r] \in Seq(Result)
  BY EmptySeq DEF Init
<1>2. replies \in [Requests -> Seq(Result)]
  BY <1>1 DEF Init
<1>3. next_txn_id \in TxnIds /\ in_flight \in 0..N /\ in_flight < N /\ count \in 0..BatchMax
  BY ParametersAssumption DEF Init, TxnIds
<1>4. budget \in [connect : 0..MaxConnects, disconnect : 0..MaxDisconnects]
  BY ParametersAssumption DEF Init
<1>5. pending \in [TxnIds -> Entry \cup {None}] /\ tries \in [Requests -> Nat]
  BY DEF Init
<1>6. outcome \in [Requests -> {"idle", "waiting", "returned", "Timeout", "refused"}]
  BY DEF Init
<1>7. Len(cmd) <= Capacity
  BY <1>1, ParametersAssumption
<1> QED
  BY <1>1, <1>2, <1>3, <1>4, <1>5, <1>6, <1>7 DEF Init, TypeOK, HasSlot

(* The state of the client stays typed, and dispatch_request runs only      *)
(* while the pipeline has a free slot, at every await of run(): in_flight   *)
(* never exceeds N.                                                         *)
THEOREM TypeCorrect == Spec => [](TypeOK /\ HasSlot)
<1>1. Init => TypeOK /\ HasSlot
  BY TypeInit
<1>2. TypeOK /\ HasSlot /\ [Next]_vars => (TypeOK /\ HasSlot)'
  BY TypeStep
<1> QED
  BY <1>1, <1>2, PTL DEF Spec

-----------------------------------------------------------------------------
(* The requests of a channel, after a command was added or taken.           *)
LEMMA ChannelFacts ==
  ASSUME NEW s \in Seq(Command)
  PROVE  /\ \A r \in Requests :
              /\ ReqsIn(Append(s, Req(r))) = ReqsIn(s) \cup {r}
              /\ ReqsOnce(s) /\ r \notin ReqsIn(s) => ReqsOnce(Append(s, Req(r)))
         /\ \A c \in Command : c.op # "Request" =>
              /\ ReqsIn(Append(s, c)) = ReqsIn(s)
              /\ ReqsOnce(s) => ReqsOnce(Append(s, c))
         /\ s # <<>> /\ ReqsOnce(s) =>
              /\ ReqsOnce(Tail(s))
              /\ Head(s).op = "Request" =>
                   Head(s).req \in ReqsIn(s) /\ ReqsIn(Tail(s)) = ReqsIn(s) \ {Head(s).req}
              /\ Head(s).op # "Request" => ReqsIn(Tail(s)) = ReqsIn(s)
<1>1. /\ Len(s) \in Nat /\ DOMAIN s = 1..Len(s)
      /\ \A k \in DOMAIN s : s[k] \in Command
  BY LenProperties, ElementOfSeq
<1>2. \A c \in Command :
        /\ c.op = "Request" => c.req \in Requests /\ c = Req(c.req)
        /\ c.op # "Request" => \A r \in Requests : c # Req(r)
  BY DEF Command, Req
<1>3. ASSUME NEW c \in Command
      PROVE  /\ DOMAIN Append(s, c) = 1..(Len(s) + 1)
             /\ \A k \in 1..Len(s) : Append(s, c)[k] = s[k]
             /\ Append(s, c)[Len(s) + 1] = c
  BY AppendFacts
<1>4. ASSUME NEW c \in Command, c.op # "Request"
      PROVE  /\ ReqsIn(Append(s, c)) = ReqsIn(s)
             /\ ReqsOnce(s) => ReqsOnce(Append(s, c))
  BY <1>1, <1>3, <1>4 DEF ReqsIn, ReqsOnce
<1>5. ASSUME NEW r \in Requests
      PROVE  /\ ReqsIn(Append(s, Req(r))) = ReqsIn(s) \cup {r}
             /\ ReqsOnce(s) /\ r \notin ReqsIn(s) => ReqsOnce(Append(s, Req(r)))
  <2> DEFINE t == Append(s, Req(r))
  <2>1. /\ DOMAIN t = 1..(Len(s) + 1)
        /\ \A k \in 1..Len(s) : t[k] = s[k]
        /\ t[Len(s) + 1] = Req(r)
    BY <1>3, CommandTypes
  <2>2. Req(r).op = "Request" /\ Req(r).req = r
    BY DEF Req
  <2> HIDE DEF t
  <2>3. ReqsIn(t) = ReqsIn(s) \cup {r}
    BY <1>1, <2>1, <2>2 DEF ReqsIn
  <2>4. ASSUME ReqsOnce(s), r \notin ReqsIn(s) PROVE ReqsOnce(t)
    <3>1. \A k \in 1..Len(s) : s[k] # Req(r)
      BY <1>1, <2>2, <2>4 DEF ReqsIn
    <3> QED
      BY <1>1, <2>1, <2>4, <3>1 DEF ReqsOnce
  <2> QED
    BY <2>3, <2>4 DEF t
<1>6. ASSUME s # <<>>, ReqsOnce(s)
      PROVE  /\ ReqsOnce(Tail(s))
             /\ Head(s).op = "Request" =>
                  Head(s).req \in ReqsIn(s) /\ ReqsIn(Tail(s)) = ReqsIn(s) \ {Head(s).req}
             /\ Head(s).op # "Request" => ReqsIn(Tail(s)) = ReqsIn(s)
  <2> DEFINE t == Tail(s)
  <2>1. /\ Head(s) = s[1] /\ 1 \in DOMAIN s
        /\ DOMAIN t = 1..(Len(s) - 1)
        /\ \A k \in 1..(Len(s) - 1) : t[k] = s[k + 1]
    BY <1>6, TailFacts
  <2> HIDE DEF t
  <2>2. ReqsOnce(t)
    BY <1>1, <1>6, <2>1 DEF ReqsOnce
  <2>3. \A k \in DOMAIN s : k = 1 \/ (k - 1 \in DOMAIN t /\ t[k - 1] = s[k])
    BY <1>1, <2>1
  <2>4. \A k \in DOMAIN t : k + 1 \in DOMAIN s /\ k + 1 # 1 /\ t[k] = s[k + 1]
    BY <1>1, <2>1
  <2>5. \A k \in DOMAIN s : s[1].op = "Request" /\ s[k].op = "Request" /\ s[k].req = s[1].req => k = 1
    BY <1>1, <1>2, <1>6, <2>1 DEF ReqsOnce
  <2>8. \A k \in DOMAIN t : t[k].op = "Request" =>
          t[k].req \in ReqsIn(s) /\ (s[1].op = "Request" => t[k].req # s[1].req)
    BY <2>4, <2>5 DEF ReqsIn
  <2>9. \A k \in DOMAIN s : s[k].op = "Request" /\ k # 1 => s[k].req \in ReqsIn(t)
    BY <2>3 DEF ReqsIn
  <2>10. \A x \in ReqsIn(t) : x \in ReqsIn(s) /\ (s[1].op = "Request" => x # s[1].req)
    BY <2>8 DEF ReqsIn
  <2>11. \A x \in ReqsIn(s) : x \in ReqsIn(t) \/ (s[1].op = "Request" /\ x = s[1].req)
    BY <2>9 DEF ReqsIn
  <2>6. s[1].op # "Request" => ReqsIn(t) = ReqsIn(s)
    BY <2>10, <2>11
  <2>12. s[1].op = "Request" => s[1].req \in ReqsIn(s)
    BY <2>1 DEF ReqsIn
  <2>7. s[1].op = "Request" => s[1].req \in ReqsIn(s) /\ ReqsIn(t) = ReqsIn(s) \ {s[1].req}
    BY <2>10, <2>11, <2>12
  <2> QED
    BY <2>1, <2>2, <2>6, <2>7 DEF t
<1> QED
  BY <1>4, <1>5, <1>6

(* The requests of a backlog, after an entry was added or taken.            *)
LEMMA BacklogFacts ==
  ASSUME NEW q \in Seq(Entry)
  PROVE  /\ \A e \in Entry :
              /\ EntriesIn(Append(q, e)) = EntriesIn(q) \cup {e.req}
              /\ EntriesOnce(q) /\ e.req \notin EntriesIn(q) => EntriesOnce(Append(q, e))
         /\ q # <<>> /\ EntriesOnce(q) =>
              /\ EntriesOnce(Tail(q)) /\ Head(q).req \in EntriesIn(q)
              /\ EntriesIn(Tail(q)) = EntriesIn(q) \ {Head(q).req}
<1>1. Len(q) \in Nat /\ DOMAIN q = 1..Len(q)
  BY LenProperties
<1>2. ASSUME NEW e \in Entry
      PROVE  /\ EntriesIn(Append(q, e)) = EntriesIn(q) \cup {e.req}
             /\ EntriesOnce(q) /\ e.req \notin EntriesIn(q) => EntriesOnce(Append(q, e))
  <2> DEFINE t == Append(q, e)
  <2>1. /\ DOMAIN t = 1..(Len(q) + 1)
        /\ \A k \in 1..Len(q) : t[k] = q[k]
        /\ t[Len(q) + 1] = e
    BY AppendFacts
  <2> HIDE DEF t
  <2>2. EntriesIn(t) = EntriesIn(q) \cup {e.req}
    BY <1>1, <2>1 DEF EntriesIn
  <2>3. EntriesOnce(q) /\ e.req \notin EntriesIn(q) => EntriesOnce(t)
    BY <1>1, <2>1 DEF EntriesOnce, EntriesIn
  <2> QED
    BY <2>2, <2>3 DEF t
<1>3. ASSUME q # <<>>, EntriesOnce(q)
      PROVE  /\ EntriesOnce(Tail(q)) /\ Head(q).req \in EntriesIn(q)
             /\ EntriesIn(Tail(q)) = EntriesIn(q) \ {Head(q).req}
  <2> DEFINE t == Tail(q)
  <2>1. /\ Head(q) = q[1] /\ 1 \in DOMAIN q
        /\ DOMAIN t = 1..(Len(q) - 1)
        /\ \A k \in 1..(Len(q) - 1) : t[k] = q[k + 1]
    BY <1>3, TailFacts
  <2> HIDE DEF t
  <2>2. EntriesOnce(t)
    <3> SUFFICES ASSUME NEW i \in DOMAIN t, NEW j \in DOMAIN t, t[i].req = t[j].req
                 PROVE  i = j
      BY DEF EntriesOnce
    <3>1. /\ i + 1 \in DOMAIN q /\ j + 1 \in DOMAIN q
          /\ t[i] = q[i + 1] /\ t[j] = q[j + 1]
      BY <1>1, <2>1
    <3>2. i + 1 = j + 1
      BY <1>3, <3>1 DEF EntriesOnce
    <3> QED
      BY <1>1, <2>1, <3>2
  <2>3. \A k \in DOMAIN q : k = 1 \/ (k - 1 \in DOMAIN t /\ t[k - 1] = q[k])
    BY <1>1, <2>1
  <2>4. \A k \in DOMAIN t : k + 1 \in DOMAIN q /\ k + 1 # 1 /\ t[k] = q[k + 1]
    BY <1>1, <2>1
  <2>5. \A k \in DOMAIN q : q[k].req = q[1].req => k = 1
    BY <1>1, <1>3, <2>1 DEF EntriesOnce
  <2>7. \A x \in EntriesIn(t) : x \in EntriesIn(q) /\ x # q[1].req
    BY <2>4, <2>5 DEF EntriesIn
  <2>8. \A x \in EntriesIn(q) : x \in EntriesIn(t) \/ x = q[1].req
    BY <2>3 DEF EntriesIn
  <2>9. q[1].req \in EntriesIn(q)
    BY <2>1 DEF EntriesIn
  <2>6. q[1].req \in EntriesIn(q) /\ EntriesIn(t) = EntriesIn(q) \ {q[1].req}
    BY <2>7, <2>8, <2>9
  <2> QED
    BY <2>1, <2>2, <2>6 DEF t
<1> QED
  BY <1>2, <1>3

(* The requests of two backlogs one after the other.                        *)
LEMMA JoinFacts ==
  ASSUME NEW p \in Seq(Entry), NEW q \in Seq(Entry)
  PROVE  /\ EntriesIn(p \o q) = EntriesIn(p) \cup EntriesIn(q)
         /\ EntriesOnce(p) /\ EntriesOnce(q) /\ EntriesIn(p) \cap EntriesIn(q) = {}
              => EntriesOnce(p \o q)
<1> DEFINE t == p \o q
<1>1. /\ Len(p) \in Nat /\ DOMAIN p = 1..Len(p)
      /\ Len(q) \in Nat /\ DOMAIN q = 1..Len(q)
      /\ DOMAIN t = 1..(Len(p) + Len(q))
      /\ \A i \in 1..Len(p) : t[i] = p[i]
      /\ \A i \in 1..Len(q) : t[Len(p) + i] = q[i]
  BY ConcatFacts
<1> HIDE DEF t
<1>2. \A i \in DOMAIN t : \/ i \in DOMAIN p /\ t[i] = p[i]
                          \/ i - Len(p) \in DOMAIN q /\ t[i] = q[i - Len(p)]
  <2> SUFFICES ASSUME NEW i \in DOMAIN t, i \notin DOMAIN p
               PROVE  i - Len(p) \in DOMAIN q /\ t[i] = q[i - Len(p)]
    BY <1>1
  <2>1. i - Len(p) \in 1..Len(q) /\ Len(p) + (i - Len(p)) = i
    BY <1>1
  <2> QED
    BY <1>1, <2>1
<1>3. \A i \in DOMAIN q : Len(p) + i \in DOMAIN t /\ t[Len(p) + i] = q[i]
  BY <1>1
<1>4. \A i \in DOMAIN p : i \in DOMAIN t /\ t[i] = p[i]
  BY <1>1
<1>5. EntriesIn(t) = EntriesIn(p) \cup EntriesIn(q)
  <2>1. \A i \in DOMAIN t : t[i].req \in EntriesIn(p) \cup EntriesIn(q)
    BY <1>2 DEF EntriesIn
  <2>2. \A i \in DOMAIN p : p[i].req \in EntriesIn(t)
    BY <1>4 DEF EntriesIn
  <2>3. \A i \in DOMAIN q : q[i].req \in EntriesIn(t)
    BY <1>3 DEF EntriesIn
  <2> QED
    BY <2>1, <2>2, <2>3 DEF EntriesIn
<1>6. ASSUME EntriesOnce(p), EntriesOnce(q), EntriesIn(p) \cap EntriesIn(q) = {}
      PROVE  EntriesOnce(t)
  <2> SUFFICES ASSUME NEW i \in DOMAIN t, NEW j \in DOMAIN t, t[i].req = t[j].req
               PROVE  i = j
    BY DEF EntriesOnce
  <2>1. \A a \in DOMAIN p, b \in DOMAIN q : p[a].req # q[b].req
    BY <1>6 DEF EntriesIn
  <2>2. CASE i \in DOMAIN p /\ t[i] = p[i] /\ j \in DOMAIN p /\ t[j] = p[j]
    BY <1>6, <2>2 DEF EntriesOnce
  <2>3. CASE /\ i - Len(p) \in DOMAIN q /\ t[i] = q[i - Len(p)]
             /\ j - Len(p) \in DOMAIN q /\ t[j] = q[j - Len(p)]
    <3>1. i - Len(p) = j - Len(p)
      BY <1>6, <2>3 DEF EntriesOnce
    <3> QED
      BY <1>1, <3>1
  <2> QED
    BY <1>2, <2>1, <2>2, <2>3
<1> QED
  BY <1>5, <1>6 DEF t

(* The requests of a map, after an entry was removed or written.            *)
LEMMA MapFacts ==
  ASSUME NEW p \in [TxnIds -> Entry \cup {None}], NEW k \in TxnIds, MappedOnce(p)
  PROVE  /\ p[k] # None =>
              /\ p[k].req \in MappedIn(p)
              /\ MappedIn([p EXCEPT ![k] = None]) = MappedIn(p) \ {p[k].req}
         /\ MappedOnce([p EXCEPT ![k] = None])
         /\ \A e \in Entry :
              /\ MappedIn([p EXCEPT ![k] = e]) = (MappedIn(p) \ HandOf(p[k])) \cup {e.req}
              /\ e.req \notin MappedIn(p) => MappedOnce([p EXCEPT ![k] = e])
<1>1. ASSUME p[k] # None
      PROVE  /\ p[k].req \in MappedIn(p)
             /\ MappedIn([p EXCEPT ![k] = None]) = MappedIn(p) \ {p[k].req}
  BY <1>1 DEF MappedIn, MappedOnce
<1>2. MappedOnce([p EXCEPT ![k] = None])
  BY DEF MappedOnce
<1>3. ASSUME NEW e \in Entry
      PROVE  /\ MappedIn([p EXCEPT ![k] = e]) = (MappedIn(p) \ HandOf(p[k])) \cup {e.req}
             /\ e.req \notin MappedIn(p) => MappedOnce([p EXCEPT ![k] = e])
  <2> DEFINE f == [p EXCEPT ![k] = e]
  <2>1. f[k] = e /\ e # None /\ \A j \in TxnIds : j # k => f[j] = p[j]
    BY NoneAssumption DEF Entry
  <2> HIDE DEF f
  <2>2. HandOf(p[k]) = IF p[k] = None THEN {} ELSE {p[k].req}
    BY DEF HandOf
  <2>3. MappedIn(f) = (MappedIn(p) \ HandOf(p[k])) \cup {e.req}
    BY <2>1, <2>2 DEF MappedIn, MappedOnce
  <2>4. e.req \notin MappedIn(p) => MappedOnce(f)
    BY <2>1 DEF MappedIn, MappedOnce
  <2> QED
    BY <2>3, <2>4 DEF f
<1> QED
  BY <1>1, <1>2, <1>3

(* Nothing is in an empty channel, backlog, map or hand.                    *)
LEMMA EmptyFacts ==
  /\ ReqsIn(<<>>) = {} /\ ReqsOnce(<<>>)
  /\ EntriesIn(<<>>) = {} /\ EntriesOnce(<<>>)
  /\ MappedIn([k \in TxnIds |-> None]) = {} /\ MappedOnce([k \in TxnIds |-> None])
  /\ HandOf(None) = {}
  /\ \A e : e # None => HandOf(e) = {e.req}
BY DEF ReqsIn, ReqsOnce, EntriesIn, EntriesOnce, MappedIn, MappedOnce, HandOf

(* A lost connection divides the requests in flight into those put back and *)
(* those given up.                                                          *)
LEMMA LossFacts ==
  ASSUME TypeOK, Once
  PROVE  /\ EntriesOnce(Requeued) /\ Requeued \in Seq(Entry)
         /\ EntriesIn(Requeued) \cup GivenUp = InFlight
         /\ EntriesIn(Requeued) \cap GivenUp = {}
<1>1. /\ EntriesOnce(Requeued) /\ Requeued \in Seq(Entry)
      /\ \A i \in DOMAIN Requeued : \E k \in InMap :
           pending[k].retry_attempts > 0 /\ Requeued[i].req = pending[k].req
      /\ \A k \in InMap : pending[k].retry_attempts > 0 =>
           \E i \in DOMAIN Requeued : Requeued[i].req = pending[k].req
  BY RequeuedFacts DEF Once, EntriesOnce
<1>2. EntriesIn(Requeued) = {pending[k].req : k \in {k \in InMap : pending[k].retry_attempts > 0}}
  BY <1>1 DEF EntriesIn
<1>3. \A k \in InMap : pending[k].retry_attempts \in Nat
  BY TypeFacts
<1>4. \A i, j \in InMap : pending[i].req = pending[j].req => i = j
  BY DEF Once, MappedOnce, InMap
<1>5. EntriesIn(Requeued) \cup GivenUp = InFlight
  BY <1>2, <1>3 DEF GivenUp, InFlight
<1>6. EntriesIn(Requeued) \cap GivenUp = {}
  BY <1>2, <1>3, <1>4 DEF GivenUp
<1> QED
  BY <1>1, <1>5, <1>6

(* The four places, now and next.                                           *)
LEMMA ViewFacts ==
  /\ InChannel = ReqsIn(cmd) /\ Backlog = EntriesIn(queued)
  /\ InFlight = MappedIn(pending) /\ InHand = HandOf(cur)
  /\ InChannel' = ReqsIn(cmd') /\ Backlog' = EntriesIn(queued')
  /\ InFlight' = MappedIn(pending') /\ InHand' = HandOf(cur')
  /\ Held = InFlight \cup Backlog
BY DEF InChannel, ReqsIn, Backlog, EntriesIn, InFlight, InMap, MappedIn, InHand, HandOf, Held

(* They hold requests.                                                      *)
LEMMA ViewTypes ==
  ASSUME TypeOK
  PROVE  Kept \subseteq Requests /\ GivenUp \subseteq Requests
BY TypeFacts DEF Kept, InChannel, Backlog, InFlight, InHand, GivenUp


(* What a step does to the ledger of a request: it is submitted, refused,   *)
(* or, for any number of requests, replied to and let go.                   *)
Submits(r) ==
  /\ outcome[r] = "idle" /\ outcome' = [outcome EXCEPT ![r] = "waiting"]
  /\ replies' = replies
  /\ Kept' = Kept \cup {r}
Refuses(r) ==
  /\ outcome[r] = "idle" /\ outcome' = [outcome EXCEPT ![r] = "refused"]
  /\ replies' = replies
  /\ Kept' = Kept
Answered(R) ==
  \A r \in Requests :
    /\ r \in R => \E x \in Result : replies'[r] = Append(replies[r], x)
    /\ r \notin R => replies'[r] = replies[r]
    /\ outcome[r] \in {"idle", "refused"} \/ outcome'[r] \in {"idle", "refused"}
         => outcome'[r] = outcome[r]
Answers(R) == Kept' = Kept \ R /\ Answered(R)
Moved == \/ \E r \in Requests : Submits(r) \/ Refuses(r)
         \/ \E R \in SUBSET Kept : Answers(R)

(* What replying does to the ledger.                                        *)
LEMMA ReplyFacts ==
  ASSUME TypeOK
  PROVE  /\ \A S, T \in SUBSET Requests : \A res, err \in Result :
              S \cap T = {} /\ Reply2(S, res, T, err) => Answered(S \cup T)
         /\ \A S \in SUBSET Requests : \A res \in Result : Reply(S, res) => Answered(S)
         /\ NoReply => Answered({})
         /\ UNCHANGED <<replies, outcome>> => Answered({})
         /\ \A r \in Requests :
              replies' = replies /\ outcome[r] = "waiting" /\ outcome' = [outcome EXCEPT ![r] = "Timeout"]
                => Answered({})
<1>1. ASSUME NEW S \in SUBSET Requests, NEW T \in SUBSET Requests,
             NEW res \in Result, NEW err \in Result, S \cap T = {}, Reply2(S, res, T, err)
      PROVE  Answered(S \cup T)
  <2> SUFFICES ASSUME NEW r \in Requests
               PROVE  /\ r \in S \cup T => \E x \in Result : replies'[r] = Append(replies[r], x)
                      /\ r \notin S \cup T => replies'[r] = replies[r]
                      /\ outcome[r] \in {"idle", "refused"} \/ outcome'[r] \in {"idle", "refused"}
                           => outcome'[r] = outcome[r]
    BY DEF Answered
  <2>1. /\ replies'[r] = CASE r \in S -> Append(replies[r], res)
                           [] r \in T -> Append(replies[r], err)
                           [] OTHER   -> replies[r]
        /\ outcome'[r] = IF r \in S \cup T /\ outcome[r] = "waiting" THEN "returned" ELSE outcome[r]
    BY <1>1 DEF Reply2
  <2>2. r \in S => replies'[r] = Append(replies[r], res)
    BY <1>1, <2>1
  <2>3. r \in T => replies'[r] = Append(replies[r], err)
    BY <1>1, <2>1
  <2>4. r \notin S /\ r \notin T => replies'[r] = replies[r]
    BY <2>1
  <2> QED
    BY <2>1, <2>2, <2>3, <2>4
<1>2. ASSUME NEW S \in SUBSET Requests, NEW res \in Result, Reply(S, res)
      PROVE  Answered(S)
  <2>1. Answered(S \cup {})
    BY <1>1, <1>2, TypeFacts DEF Reply
  <2> QED
    BY <2>1
<1>3. ASSUME UNCHANGED <<replies, outcome>> PROVE Answered({})
  BY <1>3 DEF Answered
<1>4. ASSUME NEW r \in Requests, replies' = replies, outcome[r] = "waiting",
             outcome' = [outcome EXCEPT ![r] = "Timeout"]
      PROVE  Answered({})
  BY <1>4 DEF Answered, TypeOK
<1>5. NoReply => Answered({})
  BY <1>3 DEF NoReply
<1>6. \A S, T \in SUBSET Requests : \A res, err \in Result :
        S \cap T = {} /\ Reply2(S, res, T, err) => Answered(S \cup T)
  BY <1>1
<1>7. \A S \in SUBSET Requests : \A res \in Result : Reply(S, res) => Answered(S)
  BY <1>2
<1> QED
  BY <1>3, <1>4, <1>5, <1>6, <1>7

(* Letting go of what was replied to is a move.                             *)
LEMMA AnswersMoved ==
  ASSUME NEW R \in SUBSET Kept, Kept' = Kept \ R, Answered(R)
  PROVE  Moved
BY DEF Moved, Answers

(* No step puts a request in a second place, and every step submits one,    *)
(* refuses one, or replies to exactly those it lets go of.                  *)
LEMMA PlacedStep ==
  ASSUME TypeOK, Once, Apart, Settled, [Next]_vars
  PROVE  Once' /\ Apart' /\ Moved
<1>1. ASSUME NEW r \in Requests, SendRequest(r) PROVE Once' /\ Apart' /\ Moved
  <2>1. /\ Backlog' = Backlog
        /\ EntriesOnce(queued')
        /\ InFlight' = InFlight
        /\ MappedOnce(pending')
        /\ InHand' = InHand
    BY <1>1, ViewFacts DEF SendRequest, taskVars, Once
  <2>2. r \notin Kept
    BY <1>1 DEF SendRequest, Settled, Taken
  <2>3. InChannel' = InChannel \cup {r} /\ ReqsOnce(cmd')
    BY <1>1, <2>2, ViewFacts, ChannelFacts DEF SendRequest, Once, Kept, TypeOK
  <2>4. Once' /\ Apart'
    BY <2>1, <2>2, <2>3 DEF Once, Apart, Kept
  <2>5. Kept' = Kept \cup {r}
    BY <2>1, <2>3 DEF Kept
  <2> QED
    BY <1>1, <2>4, <2>5 DEF SendRequest, Moved, Submits
<1>2. ASSUME NEW r \in Requests, SendRequestClosed(r) PROVE Once' /\ Apart' /\ Moved
  <2>1. /\ InChannel' = InChannel
        /\ ReqsOnce(cmd')
        /\ Backlog' = Backlog
        /\ EntriesOnce(queued')
        /\ InFlight' = InFlight
        /\ MappedOnce(pending')
        /\ InHand' = InHand
    BY <1>2, ViewFacts DEF SendRequestClosed, taskVars, Once
  <2>2. Once' /\ Apart'
    BY <2>1 DEF Once, Apart
  <2>3. Kept' = Kept
    BY <2>1 DEF Kept
  <2> QED
    BY <1>2, <2>2, <2>3 DEF SendRequestClosed, Moved, Refuses
<1>3. ASSUME NEW r \in Requests, Timeout(r) PROVE Once' /\ Apart' /\ Moved
  <2>1. /\ Backlog' = Backlog
        /\ EntriesOnce(queued')
        /\ InFlight' = InFlight
        /\ MappedOnce(pending')
        /\ InHand' = InHand
    BY <1>3, ViewFacts DEF Timeout, taskVars, Once
  <2>2. Answered({})
    BY <1>3, ReplyFacts DEF Timeout
  <2>3. InChannel' = InChannel /\ ReqsOnce(cmd')
    BY <1>3, ViewFacts, ChannelFacts, CommandTypes DEF Timeout, Cmd, Once, TypeOK
  <2> QED
    <3>1. Once' /\ Apart'
      BY <2>1, <2>2, <2>3 DEF Once, Apart
    <3>2. Kept' = Kept \ ({}) /\ ({}) \in SUBSET Kept
      BY <2>1, <2>2, <2>3 DEF Kept, Apart
    <3> QED
      BY <2>1, <2>2, <2>3, <3>1, <3>2, AnswersMoved
<1>4. CASE CallConnect
  <2>1. /\ Backlog' = Backlog
        /\ EntriesOnce(queued')
        /\ InFlight' = InFlight
        /\ MappedOnce(pending')
        /\ InHand' = InHand
    BY <1>4, ViewFacts DEF CallConnect, taskVars, Once
  <2>2. Answered({})
    BY <1>4, ReplyFacts DEF CallConnect
  <2>3. InChannel' = InChannel /\ ReqsOnce(cmd')
    BY <1>4, ViewFacts, ChannelFacts, CommandTypes DEF CallConnect, Cmd, Once, TypeOK
  <2> QED
    <3>1. Once' /\ Apart'
      BY <2>1, <2>2, <2>3 DEF Once, Apart
    <3>2. Kept' = Kept \ ({}) /\ ({}) \in SUBSET Kept
      BY <2>1, <2>2, <2>3 DEF Kept, Apart
    <3> QED
      BY <2>1, <2>2, <2>3, <3>1, <3>2, AnswersMoved
<1>5. CASE CallDisconnect
  <2>1. /\ Backlog' = Backlog
        /\ EntriesOnce(queued')
        /\ InFlight' = InFlight
        /\ MappedOnce(pending')
        /\ InHand' = InHand
    BY <1>5, ViewFacts DEF CallDisconnect, taskVars, Once
  <2>2. Answered({})
    BY <1>5, ReplyFacts DEF CallDisconnect
  <2>3. InChannel' = InChannel /\ ReqsOnce(cmd')
    BY <1>5, ViewFacts, ChannelFacts, CommandTypes DEF CallDisconnect, Cmd, Once, TypeOK
  <2> QED
    <3>1. Once' /\ Apart'
      BY <2>1, <2>2, <2>3 DEF Once, Apart
    <3>2. Kept' = Kept \ ({}) /\ ({}) \in SUBSET Kept
      BY <2>1, <2>2, <2>3 DEF Kept, Apart
    <3> QED
      BY <2>1, <2>2, <2>3, <3>1, <3>2, AnswersMoved
<1>6. CASE DropHandles
  <2>1. /\ InChannel' = InChannel
        /\ ReqsOnce(cmd')
        /\ Backlog' = Backlog
        /\ EntriesOnce(queued')
        /\ InFlight' = InFlight
        /\ MappedOnce(pending')
        /\ InHand' = InHand
    BY <1>6, ViewFacts DEF DropHandles, Once, taskVars
  <2>2. Answered({})
    BY <1>6, ReplyFacts DEF DropHandles, taskVars
  <2> QED
    <3>1. Once' /\ Apart'
      BY <2>1, <2>2 DEF Once, Apart
    <3>2. Kept' = Kept \ ({}) /\ ({}) \in SUBSET Kept
      BY <2>1, <2>2 DEF Kept, Apart
    <3> QED
      BY <2>1, <2>2, <3>1, <3>2, AnswersMoved
<1>7. CASE FillFromBacklog
  <2>1. InChannel' = InChannel /\ ReqsOnce(cmd') /\ InFlight' = InFlight /\ MappedOnce(pending')
    BY <1>7, ViewFacts DEF FillFromBacklog, Once
  <2>2. Answered({})
    BY <1>7, ReplyFacts DEF FillFromBacklog
  <2>3. InHand = {}
    BY <1>7, ViewFacts, EmptyFacts DEF FillFromBacklog, TypeOK
  <2>4. Head(queued) \in Entry /\ Head(queued) # None
    <3>1. queued \in Seq(Entry) /\ queued # <<>>
      BY <1>7 DEF FillFromBacklog, TypeOK
    <3>2. Head(queued) \in Entry
      BY <3>1, TailFacts
    <3> QED
      BY <3>2, NoneAssumption DEF Entry
  <2>5. InHand' = {Head(queued).req}
    BY <1>7, <2>4, ViewFacts, EmptyFacts DEF FillFromBacklog
  <2>6. /\ Backlog' = Backlog \ {Head(queued).req} /\ Head(queued).req \in Backlog
        /\ EntriesOnce(queued')
    BY <1>7, ViewFacts, BacklogFacts DEF FillFromBacklog, Once, TypeOK
  <2> QED
    <3>1. Once' /\ Apart'
      BY <2>1, <2>2, <2>3, <2>5, <2>6 DEF Once, Apart
    <3>2. Kept' = Kept \ ({}) /\ ({}) \in SUBSET Kept
      BY <2>1, <2>2, <2>3, <2>5, <2>6 DEF Kept, Apart
    <3> QED
      BY <2>1, <2>2, <2>3, <2>5, <2>6, <3>1, <3>2, AnswersMoved
<1>8. CASE FillDone
  <2>1. /\ InChannel' = InChannel
        /\ ReqsOnce(cmd')
        /\ Backlog' = Backlog
        /\ EntriesOnce(queued')
        /\ InFlight' = InFlight
        /\ MappedOnce(pending')
        /\ InHand' = InHand
    BY <1>8, ViewFacts DEF FillDone, Once
  <2>2. Answered({})
    BY <1>8, ReplyFacts DEF FillDone
  <2> QED
    <3>1. Once' /\ Apart'
      BY <2>1, <2>2 DEF Once, Apart
    <3>2. Kept' = Kept \ ({}) /\ ({}) \in SUBSET Kept
      BY <2>1, <2>2 DEF Kept, Apart
    <3> QED
      BY <2>1, <2>2, <3>1, <3>2, AnswersMoved
<1>9. CASE DispatchGivesUp
  <2>1. /\ InChannel' = InChannel
        /\ ReqsOnce(cmd')
        /\ Backlog' = Backlog
        /\ EntriesOnce(queued')
        /\ InFlight' = InFlight
        /\ MappedOnce(pending')
    BY <1>9, ViewFacts DEF DispatchGivesUp, Once
  <2>2. cur # None /\ cur.req \in Requests /\ InHand = {cur.req}
    BY <1>9, ViewFacts, EmptyFacts, TypeFacts DEF DispatchGivesUp, TypeOK
  <2>3. Answered({cur.req})
    BY <1>9, <2>2, ReplyFacts, TypeFacts DEF DispatchGivesUp
  <2>4. InHand' = {}
    BY <1>9, ViewFacts, EmptyFacts DEF DispatchGivesUp, Dispatched
  <2> QED
    <3>1. Once' /\ Apart'
      BY <2>1, <2>2, <2>3, <2>4 DEF Once, Apart
    <3>2. Kept' = Kept \ ({cur.req}) /\ ({cur.req}) \in SUBSET Kept
      BY <2>1, <2>2, <2>3, <2>4 DEF Kept, Apart
    <3> QED
      BY <2>1, <2>2, <2>3, <2>4, <3>1, <3>2, AnswersMoved
<1>10. CASE Reconnect
  <2>1. /\ InChannel' = InChannel
        /\ ReqsOnce(cmd')
        /\ Backlog' = Backlog
        /\ EntriesOnce(queued')
        /\ InFlight' = InFlight
        /\ MappedOnce(pending')
        /\ InHand' = InHand
    BY <1>10, ViewFacts DEF Reconnect, Once
  <2>2. Answered({})
    BY <1>10, ReplyFacts DEF Reconnect
  <2> QED
    <3>1. Once' /\ Apart'
      BY <2>1, <2>2 DEF Once, Apart
    <3>2. Kept' = Kept \ ({}) /\ ({}) \in SUBSET Kept
      BY <2>1, <2>2 DEF Kept, Apart
    <3> QED
      BY <2>1, <2>2, <3>1, <3>2, AnswersMoved
<1>11. CASE ReconnectFails
  <2>1. /\ InChannel' = InChannel
        /\ ReqsOnce(cmd')
        /\ Backlog' = Backlog
        /\ EntriesOnce(queued')
        /\ InFlight' = InFlight
        /\ MappedOnce(pending')
    BY <1>11, ViewFacts DEF ReconnectFails, Once
  <2>2. cur # None /\ cur.req \in Requests /\ InHand = {cur.req}
    BY <1>11, ViewFacts, EmptyFacts, TypeFacts DEF ReconnectFails, TypeOK
  <2>3. CASE Reply({cur.req}, "Failed") /\ Dispatched
    <3>1. Answered({cur.req}) /\ InHand' = {}
      BY <2>2, <2>3, ViewFacts, EmptyFacts, ReplyFacts, TypeFacts DEF Dispatched
    <3>2. Once' /\ Apart'
      BY <2>1, <2>2, <3>1 DEF Once, Apart
    <3>3. Kept' = Kept \ {cur.req} /\ {cur.req} \in SUBSET Kept
      BY <2>1, <2>2, <3>1 DEF Kept, Apart
    <3> QED
      BY <3>1, <3>2, <3>3, AnswersMoved
  <2>4. CASE NoReply /\ cur' = [cur EXCEPT !.retry_attempts = @ - 1]
    <3>1. cur' # None /\ cur'.req = cur.req
      BY <1>11, <2>2, <2>4, TypeFacts, EntryLess DEF ReconnectFails
    <3>2. Answered({}) /\ InHand' = InHand
      BY <2>2, <2>4, <3>1, ViewFacts, EmptyFacts, ReplyFacts
    <3>3. Once' /\ Apart'
      BY <2>1, <2>2, <3>2 DEF Once, Apart
    <3>4. Kept' = Kept \ {} /\ {} \in SUBSET Kept
      BY <2>1, <2>2, <3>2 DEF Kept, Apart
    <3> QED
      BY <3>2, <3>3, <3>4, AnswersMoved
  <2> QED
    BY <1>11, <2>3, <2>4 DEF ReconnectFails
<1>12. CASE EncodeFails
  <2>1. /\ InChannel' = InChannel
        /\ ReqsOnce(cmd')
        /\ Backlog' = Backlog
        /\ EntriesOnce(queued')
        /\ InFlight' = InFlight
        /\ MappedOnce(pending')
    BY <1>12, ViewFacts DEF EncodeFails, Once
  <2>2. cur # None /\ cur.req \in Requests /\ InHand = {cur.req}
    BY <1>12, ViewFacts, EmptyFacts, TypeFacts DEF EncodeFails, TypeOK
  <2>3. Answered({cur.req})
    BY <1>12, <2>2, ReplyFacts, TypeFacts DEF EncodeFails
  <2>4. InHand' = {}
    BY <1>12, ViewFacts, EmptyFacts DEF EncodeFails, Dispatched
  <2> QED
    <3>1. Once' /\ Apart'
      BY <2>1, <2>2, <2>3, <2>4 DEF Once, Apart
    <3>2. Kept' = Kept \ ({cur.req}) /\ ({cur.req}) \in SUBSET Kept
      BY <2>1, <2>2, <2>3, <2>4 DEF Kept, Apart
    <3> QED
      BY <2>1, <2>2, <2>3, <2>4, <3>1, <3>2, AnswersMoved
<1>13. CASE SendOk
  <2>1. InChannel' = InChannel /\ ReqsOnce(cmd') /\ Backlog' = Backlog /\ EntriesOnce(queued')
    BY <1>13, ViewFacts DEF SendOk, Once
  <2>2. cur # None /\ cur.req \in Requests /\ InHand = {cur.req}
    BY <1>13, ViewFacts, EmptyFacts, TypeFacts DEF SendOk, TypeOK
  <2>3. next_txn_id \in TxnIds /\ pending \in [TxnIds -> Entry \cup {None}] /\ cur \in Entry
    BY <2>2 DEF TypeOK
  <2> DEFINE old == HandOf(pending[next_txn_id])
  <2>4. old = {pending[k].req : k \in InMap \cap {next_txn_id}}
    BY <2>3 DEF HandOf, InMap
  <2>5. old \in SUBSET InFlight
    BY <2>4 DEF InFlight
  <2>6. old \in SUBSET Requests
    BY <2>5, ViewTypes DEF Kept
  <2>7. Answered(old)
    BY <1>13, <2>4, <2>6, ReplyFacts, TypeFacts DEF SendOk
  <2>8. cur.req \notin InFlight
    BY <2>2 DEF Apart
  <2>9. InFlight' = (InFlight \ old) \cup {cur.req} /\ MappedOnce(pending')
    BY <1>13, <2>3, <2>8, ViewFacts, MapFacts DEF SendOk, Once
  <2>10. InHand' = {}
    BY <1>13, ViewFacts, EmptyFacts DEF SendOk, Dispatched
  <2> HIDE DEF old
  <2> QED
    <3>1. Once' /\ Apart'
      BY <2>1, <2>2, <2>5, <2>7, <2>8, <2>9, <2>10 DEF Once, Apart
    <3>2. Kept' = Kept \ (old) /\ (old) \in SUBSET Kept
      BY <2>1, <2>2, <2>5, <2>7, <2>8, <2>9, <2>10 DEF Kept, Apart
    <3> QED
      BY <2>1, <2>2, <2>5, <2>7, <2>8, <2>9, <2>10, <3>1, <3>2, AnswersMoved
<1>14. CASE SendFails
  <2>1. InChannel' = InChannel /\ ReqsOnce(cmd')
    BY <1>14, ViewFacts DEF SendFails, Once
  <2>2. cur # None /\ cur.req \in Requests /\ InHand = {cur.req}
    BY <1>14, ViewFacts, EmptyFacts, TypeFacts DEF SendFails, TypeOK
  <2>3. /\ Backlog' = EntriesIn(Requeued) \cup Backlog /\ InFlight' = {}
        /\ EntriesIn(Requeued) \cup GivenUp = InFlight /\ EntriesIn(Requeued) \cap GivenUp = {}
        /\ EntriesOnce(queued') /\ MappedOnce(pending')
    <3>1. queued' = Requeued \o queued /\ pending' = [k \in TxnIds |-> None]
      BY <1>14 DEF SendFails, handle_connection_loss
    <3>2. /\ EntriesOnce(Requeued) /\ Requeued \in Seq(Entry)
          /\ EntriesIn(Requeued) \cup GivenUp = InFlight /\ EntriesIn(Requeued) \cap GivenUp = {}
      BY LossFacts
    <3>3. EntriesIn(Requeued) \cap EntriesIn(queued) = {} /\ EntriesOnce(queued)
      BY <3>2, ViewFacts DEF Apart, Once
    <3>4. queued \in Seq(Entry)
      BY DEF TypeOK
    <3> QED
      BY <3>1, <3>2, <3>3, <3>4, ViewFacts, JoinFacts, EmptyFacts
  <2>4. GivenUp \in SUBSET Requests
    BY ViewTypes
  <2>5. CASE Reply2(GivenUp, "GaveUp", {cur.req}, "Failed") /\ Dispatched
    <3>0. GivenUp \cap {cur.req} = {}
      BY <2>2, <2>3 DEF Apart
    <3>1. Answered(GivenUp \cup {cur.req}) /\ InHand' = {}
      BY <2>2, <2>4, <2>5, <3>0, ViewFacts, EmptyFacts, ReplyFacts, TypeFacts DEF Dispatched
    <3>2. Once' /\ Apart'
      BY <2>1, <2>2, <2>3, <3>1 DEF Once, Apart
    <3>3. Kept' = Kept \ (GivenUp \cup {cur.req}) /\ (GivenUp \cup {cur.req}) \in SUBSET Kept
      BY <2>1, <2>2, <2>3, <3>1 DEF Kept, Apart
    <3> QED
      BY <3>1, <3>2, <3>3, AnswersMoved
  <2>6. CASE /\ Reply(GivenUp, "GaveUp") /\ cur.retry_attempts # 0
             /\ cur' = [cur EXCEPT !.retry_attempts = @ - 1]
    <3>1. cur' # None /\ cur'.req = cur.req
      <4>1. cur \in Entry /\ cur.retry_attempts > 0
        BY <2>2, <2>6, TypeFacts
      <4> QED
        BY <2>6, <4>1, EntryLess
    <3>2. Answered(GivenUp) /\ InHand' = InHand
      BY <2>2, <2>4, <2>6, <3>1, ViewFacts, EmptyFacts, ReplyFacts, TypeFacts
    <3>3. Once' /\ Apart'
      BY <2>1, <2>2, <2>3, <3>2 DEF Once, Apart
    <3>4. Kept' = Kept \ GivenUp /\ GivenUp \in SUBSET Kept
      BY <2>1, <2>2, <2>3, <3>2 DEF Kept, Apart
    <3> QED
      BY <3>2, <3>3, <3>4, AnswersMoved
  <2> QED
    BY <1>14, <2>5, <2>6 DEF SendFails
<1>15. CASE HandleRequest
  <2> DEFINE h == Head(cmd).req
             e == [req |-> h, retry_attempts |-> Attempts[h]]
  <2>1. /\ cmd # <<>> /\ Head(cmd) \in Command /\ Head(cmd).op = "Request" /\ cmd' = Tail(cmd)
        /\ pc # "dispatch"
    BY <1>15, TakesType DEF HandleRequest, TakesCommand
  <2>2. h \in Requests
    BY <2>1 DEF Command
  <2>3. e \in Entry /\ e # None /\ e.req = h
    BY <2>2, RequestsAssumption, NoneAssumption DEF Entry
  <2>4. InChannel' = InChannel \ {h} /\ h \in InChannel /\ ReqsOnce(cmd')
    BY <2>1, ViewFacts, ChannelFacts DEF Once, TypeOK
  <2>5. InFlight' = InFlight /\ MappedOnce(pending')
    BY <1>15, ViewFacts DEF HandleRequest, Once
  <2>6. Answered({})
    BY <1>15, ReplyFacts DEF HandleRequest
  <2>7. InHand = {} /\ EntriesOnce(queued) /\ h \notin EntriesIn(queued)
    BY <2>1, <2>4, ViewFacts, EmptyFacts DEF TypeOK, Once, Apart
  <2>8. \/ cur' = e /\ UNCHANGED queued
        \/ queued' = Append(queued, e) /\ UNCHANGED cur
    BY <1>15 DEF HandleRequest
  <2> HIDE DEF h, e
  <2>9. /\ EntriesOnce(queued')
        /\ \/ InHand' = {h} /\ Backlog' = Backlog
           \/ Backlog' = Backlog \cup {h} /\ InHand' = {}
    <3>1. queued \in Seq(Entry)
      BY DEF TypeOK
    <3>2. CASE cur' = e /\ UNCHANGED queued
      BY <2>3, <2>7, <3>2, ViewFacts, EmptyFacts
    <3>3. CASE queued' = Append(queued, e) /\ UNCHANGED cur
      BY <2>3, <2>7, <3>1, <3>3, ViewFacts, EmptyFacts, BacklogFacts
    <3> QED
      BY <2>8, <3>2, <3>3
  <2> QED
    <3>1. Once' /\ Apart'
      BY <2>4, <2>5, <2>6, <2>7, <2>9 DEF Once, Apart
    <3>2. Kept' = Kept \ ({}) /\ ({}) \in SUBSET Kept
      BY <2>4, <2>5, <2>6, <2>7, <2>9 DEF Kept, Apart
    <3> QED
      BY <2>4, <2>5, <2>6, <2>7, <2>9, <3>1, <3>2, AnswersMoved
<1>16. CASE HandleConnect
  <2>1. /\ Backlog' = Backlog
        /\ EntriesOnce(queued')
        /\ InFlight' = InFlight
        /\ MappedOnce(pending')
        /\ InHand' = InHand
    BY <1>16, ViewFacts DEF HandleConnect, Once
  <2>2. Answered({})
    BY <1>16, ReplyFacts DEF HandleConnect
  <2>3. cmd # <<>> /\ Head(cmd).op = "Connect" /\ cmd' = Tail(cmd)
    BY <1>16, TakesType DEF HandleConnect, TakesCommand
  <2>4. InChannel' = InChannel /\ ReqsOnce(cmd')
    BY <2>3, ViewFacts, ChannelFacts DEF Once, TypeOK
  <2> QED
    <3>1. Once' /\ Apart'
      BY <2>1, <2>2, <2>4 DEF Once, Apart
    <3>2. Kept' = Kept \ ({}) /\ ({}) \in SUBSET Kept
      BY <2>1, <2>2, <2>4 DEF Kept, Apart
    <3> QED
      BY <2>1, <2>2, <2>4, <3>1, <3>2, AnswersMoved
<1>17. ASSUME NEW ok \in BOOLEAN, ConnectDone(ok) PROVE Once' /\ Apart' /\ Moved
  <2>1. /\ InChannel' = InChannel
        /\ ReqsOnce(cmd')
        /\ Backlog' = Backlog
        /\ EntriesOnce(queued')
        /\ InFlight' = InFlight
        /\ MappedOnce(pending')
        /\ InHand' = InHand
    BY <1>17, ViewFacts DEF ConnectDone, Once
  <2>2. Answered({})
    BY <1>17, ReplyFacts DEF ConnectDone
  <2> QED
    <3>1. Once' /\ Apart'
      BY <2>1, <2>2 DEF Once, Apart
    <3>2. Kept' = Kept \ ({}) /\ ({}) \in SUBSET Kept
      BY <2>1, <2>2 DEF Kept, Apart
    <3> QED
      BY <2>1, <2>2, <3>1, <3>2, AnswersMoved
<1>18. CASE HandleDisconnect
  <2>1. cmd # <<>> /\ Head(cmd).op = "Disconnect" /\ cmd' = Tail(cmd)
    BY <1>18, TakesType DEF HandleDisconnect, TakesCommand
  <2>2. InChannel' = InChannel /\ ReqsOnce(cmd')
    BY <2>1, ViewFacts, ChannelFacts DEF Once, TypeOK
  <2>3. /\ InHand' = InHand /\ Backlog' = {} /\ InFlight' = {}
        /\ EntriesOnce(queued') /\ MappedOnce(pending')
    BY <1>18, ViewFacts, EmptyFacts DEF HandleDisconnect, drain_all
  <2>4. Held \in SUBSET Requests /\ Held = InFlight \cup Backlog
    BY ViewFacts, ViewTypes DEF Kept
  <2>5. Answered(Held)
    BY <1>18, <2>4, ReplyFacts, TypeFacts DEF HandleDisconnect, drain_all
  <2> QED
    <3>1. Once' /\ Apart'
      BY <2>2, <2>3, <2>4, <2>5 DEF Once, Apart
    <3>2. Kept' = Kept \ (Held) /\ (Held) \in SUBSET Kept
      BY <2>2, <2>3, <2>4, <2>5 DEF Kept, Apart
    <3> QED
      BY <2>2, <2>3, <2>4, <2>5, <3>1, <3>2, AnswersMoved
<1>19. CASE HandleShutdown
  <2>1. InHand = {}
    BY <1>19, ViewFacts, EmptyFacts DEF HandleShutdown, BatchGoesOn, TypeOK
  <2>2. /\ InHand' = InHand /\ Backlog' = {} /\ InFlight' = {} /\ InChannel' = {}
        /\ EntriesOnce(queued') /\ MappedOnce(pending') /\ ReqsOnce(cmd')
    BY <1>19, ViewFacts, EmptyFacts DEF HandleShutdown, TaskEnds
  <2>3. (Held \cup InChannel) \in SUBSET Requests /\ Held = InFlight \cup Backlog
    BY ViewFacts, ViewTypes DEF Kept
  <2>4. Answered(Held \cup InChannel)
    BY <1>19, <2>3, ReplyFacts, TypeFacts DEF HandleShutdown
  <2> QED
    <3>1. Once' /\ Apart'
      BY <2>1, <2>2, <2>3, <2>4 DEF Once, Apart
    <3>2. Kept' = Kept \ (Held \cup InChannel) /\ (Held \cup InChannel) \in SUBSET Kept
      BY <2>1, <2>2, <2>3, <2>4 DEF Kept, Apart
    <3> QED
      BY <2>1, <2>2, <2>3, <2>4, <3>1, <3>2, AnswersMoved
<1>20. CASE ChannelClosed
  <2>1. InHand = {}
    BY <1>20, ViewFacts, EmptyFacts DEF ChannelClosed, BatchGoesOn, TypeOK
  <2>2. /\ InHand' = InHand /\ Backlog' = {} /\ InFlight' = {} /\ InChannel' = {}
        /\ EntriesOnce(queued') /\ MappedOnce(pending') /\ ReqsOnce(cmd')
    BY <1>20, ViewFacts, EmptyFacts DEF ChannelClosed, TaskEnds
  <2>3. (Held) \in SUBSET Requests /\ Held = InFlight \cup Backlog
    BY ViewFacts, ViewTypes DEF Kept
  <2>4. Answered(Held)
    BY <1>20, <2>3, ReplyFacts, TypeFacts DEF ChannelClosed
  <2>5. InChannel = {}
    BY <1>20, ViewFacts, EmptyFacts DEF ChannelClosed
  <2> QED
    <3>1. Once' /\ Apart'
      BY <2>1, <2>2, <2>3, <2>4, <2>5 DEF Once, Apart
    <3>2. Kept' = Kept \ (Held) /\ (Held) \in SUBSET Kept
      BY <2>1, <2>2, <2>3, <2>4, <2>5 DEF Kept, Apart
    <3> QED
      BY <2>1, <2>2, <2>3, <2>4, <2>5, <3>1, <3>2, AnswersMoved
<1>21. CASE BatchDone
  <2>1. /\ InChannel' = InChannel
        /\ ReqsOnce(cmd')
        /\ Backlog' = Backlog
        /\ EntriesOnce(queued')
        /\ InFlight' = InFlight
        /\ MappedOnce(pending')
        /\ InHand' = InHand
    BY <1>21, ViewFacts DEF BatchDone, Once
  <2>2. Answered({})
    BY <1>21, ReplyFacts DEF BatchDone
  <2> QED
    <3>1. Once' /\ Apart'
      BY <2>1, <2>2 DEF Once, Apart
    <3>2. Kept' = Kept \ ({}) /\ ({}) \in SUBSET Kept
      BY <2>1, <2>2 DEF Kept, Apart
    <3> QED
      BY <2>1, <2>2, <3>1, <3>2, AnswersMoved
<1>22. CASE ReceiveFails
  <2>1. InChannel' = InChannel /\ ReqsOnce(cmd') /\ InHand' = InHand
    BY <1>22, ViewFacts DEF ReceiveFails, Once
  <2>3. /\ Backlog' = EntriesIn(Requeued) \cup Backlog /\ InFlight' = {}
        /\ EntriesIn(Requeued) \cup GivenUp = InFlight /\ EntriesIn(Requeued) \cap GivenUp = {}
        /\ EntriesOnce(queued') /\ MappedOnce(pending')
    <3>1. queued' = Requeued \o queued /\ pending' = [k \in TxnIds |-> None]
      BY <1>22 DEF ReceiveFails, handle_connection_loss
    <3>2. /\ EntriesOnce(Requeued) /\ Requeued \in Seq(Entry)
          /\ EntriesIn(Requeued) \cup GivenUp = InFlight /\ EntriesIn(Requeued) \cap GivenUp = {}
      BY LossFacts
    <3>3. EntriesIn(Requeued) \cap EntriesIn(queued) = {} /\ EntriesOnce(queued)
      BY <3>2, ViewFacts DEF Apart, Once
    <3>4. queued \in Seq(Entry)
      BY DEF TypeOK
    <3> QED
      BY <3>1, <3>2, <3>3, <3>4, ViewFacts, JoinFacts, EmptyFacts
  <2>4. GivenUp \in SUBSET Requests
    BY ViewTypes
  <2>5. Answered(GivenUp)
    BY <1>22, <2>4, ReplyFacts, TypeFacts DEF ReceiveFails
  <2> QED
    <3>1. Once' /\ Apart'
      BY <2>1, <2>3, <2>5 DEF Once, Apart
    <3>2. Kept' = Kept \ (GivenUp) /\ (GivenUp) \in SUBSET Kept
      BY <2>1, <2>3, <2>5 DEF Kept, Apart
    <3> QED
      BY <2>1, <2>3, <2>5, <3>1, <3>2, AnswersMoved
<1>23. ASSUME NEW m \in peer, process_frame(m) PROVE Once' /\ Apart' /\ Moved
  <2>1. /\ InChannel' = InChannel
        /\ ReqsOnce(cmd')
        /\ Backlog' = Backlog
        /\ EntriesOnce(queued')
        /\ InHand' = InHand
    BY <1>23, ViewFacts DEF process_frame, Once
  <2>2. CASE NoReply /\ UNCHANGED <<pending, in_flight>>
    <3>1. InFlight' = InFlight /\ MappedOnce(pending')
      BY <2>2, ViewFacts DEF Once
    <3>2. Answered({})
      BY <2>2, ReplyFacts
    <3>3. Once' /\ Apart'
      BY <2>1, <3>1 DEF Once, Apart
    <3>4. Kept' = Kept \ {} /\ {} \in SUBSET Kept
      BY <2>1, <3>1 DEF Kept, Apart
    <3> QED
      BY <3>2, <3>3, <3>4, AnswersMoved
  <2>3. ASSUME NEW k \in InMap, RemoveEntry(k), Reply({pending[k].req}, m.req)
        PROVE  Once' /\ Apart' /\ Moved
    <3>1. k \in TxnIds /\ pending[k] # None /\ pending[k].req \in Requests
      BY TypeFacts DEF InMap
    <3>2. m.req \in Result
      BY TypeFacts DEF TypeOK
    <3>3. Answered({pending[k].req})
      BY <2>3, <3>1, <3>2, ReplyFacts
    <3>4. /\ InFlight' = InFlight \ {pending[k].req} /\ MappedOnce(pending')
          /\ pending[k].req \in InFlight
      BY <2>3, <3>1, ViewFacts, MapFacts DEF RemoveEntry, Once, TypeOK
    <3>5. Once' /\ Apart'
      BY <2>1, <3>4 DEF Once, Apart
    <3>6. Kept' = Kept \ {pending[k].req} /\ {pending[k].req} \in SUBSET Kept
      BY <2>1, <3>4 DEF Kept, Apart
    <3> QED
      BY <3>3, <3>5, <3>6, AnswersMoved
  <2> QED
    BY <1>23, <2>2, <2>3 DEF process_frame, resolve_key
<1>24. ASSUME NEW m \in peer, ReceiveDamaged(m) PROVE Once' /\ Apart' /\ Moved
  <2>1. /\ InChannel' = InChannel
        /\ ReqsOnce(cmd')
        /\ Backlog' = Backlog
        /\ EntriesOnce(queued')
        /\ InHand' = InHand
    BY <1>24, ViewFacts DEF ReceiveDamaged, Once
  <2>2. CASE NoReply /\ UNCHANGED <<pending, in_flight>>
    <3>1. InFlight' = InFlight /\ MappedOnce(pending')
      BY <2>2, ViewFacts DEF Once
    <3>2. Answered({})
      BY <2>2, ReplyFacts
    <3>3. Once' /\ Apart'
      BY <2>1, <3>1 DEF Once, Apart
    <3>4. Kept' = Kept \ {} /\ {} \in SUBSET Kept
      BY <2>1, <3>1 DEF Kept, Apart
    <3> QED
      BY <3>2, <3>3, <3>4, AnswersMoved
  <2>3. ASSUME NEW k \in InMap, RemoveEntry(k), Reply({pending[k].req}, "Failed")
        PROVE  Once' /\ Apart' /\ Moved
    <3>1. k \in TxnIds /\ pending[k] # None /\ pending[k].req \in Requests
      BY TypeFacts DEF InMap
    <3>2. "Failed" \in Result
      BY TypeFacts DEF TypeOK
    <3>3. Answered({pending[k].req})
      BY <2>3, <3>1, <3>2, ReplyFacts
    <3>4. /\ InFlight' = InFlight \ {pending[k].req} /\ MappedOnce(pending')
          /\ pending[k].req \in InFlight
      BY <2>3, <3>1, ViewFacts, MapFacts DEF RemoveEntry, Once, TypeOK
    <3>5. Once' /\ Apart'
      BY <2>1, <3>4 DEF Once, Apart
    <3>6. Kept' = Kept \ {pending[k].req} /\ {pending[k].req} \in SUBSET Kept
      BY <2>1, <3>4 DEF Kept, Apart
    <3> QED
      BY <3>3, <3>5, <3>6, AnswersMoved
  <2> QED
    BY <1>24, <2>2, <2>3 DEF ReceiveDamaged, resolve_key
<1>25. CASE UNCHANGED vars
  <2>1. /\ InChannel' = InChannel
        /\ ReqsOnce(cmd')
        /\ Backlog' = Backlog
        /\ EntriesOnce(queued')
        /\ InFlight' = InFlight
        /\ MappedOnce(pending')
        /\ InHand' = InHand
    BY <1>25, ViewFacts DEF vars, Once, taskVars, callerVars
  <2>2. Answered({})
    BY <1>25, ReplyFacts DEF vars, taskVars, callerVars
  <2> QED
    <3>1. Once' /\ Apart'
      BY <2>1, <2>2 DEF Once, Apart
    <3>2. Kept' = Kept \ ({}) /\ ({}) \in SUBSET Kept
      BY <2>1, <2>2 DEF Kept, Apart
    <3> QED
      BY <2>1, <2>2, <3>1, <3>2, AnswersMoved
<1> QED
  BY <1>1, <1>2, <1>3, <1>4, <1>5, <1>6, <1>7, <1>8, <1>9, <1>10, <1>11, <1>12, <1>13, <1>14,
     <1>15, <1>16, <1>17, <1>18, <1>19, <1>20, <1>21, <1>22, <1>23, <1>24, <1>25 DEF Next,
     CallerStep, TaskStep, LinkStep

(* Such steps keep requests settled.                                        *)
LEMMA SettledStep ==
  ASSUME TypeOK, TypeOK', Settled, Moved
  PROVE  Settled'
<1> SUFFICES ASSUME NEW r \in Requests
             PROVE  /\ r \in Kept' <=> Taken(r)' /\ replies'[r] = <<>>
                    /\ ~Taken(r)' => replies'[r] = <<>>
                    /\ Len(replies'[r]) <= 1
  BY DEF Settled
<1>1. /\ r \in Kept <=> Taken(r) /\ replies[r] = <<>>
      /\ ~Taken(r) => replies[r] = <<>>
      /\ Len(replies[r]) <= 1
  BY DEF Settled
<1>2. /\ replies[r] \in Seq(Result)
      /\ outcome \in [Requests -> {"idle", "waiting", "returned", "Timeout", "refused"}]
  BY DEF TypeOK
<1>3. ASSUME NEW q \in Requests, Submits(q) \/ Refuses(q)
      PROVE  /\ r \in Kept' <=> Taken(r)' /\ replies'[r] = <<>>
             /\ ~Taken(r)' => replies'[r] = <<>>
             /\ Len(replies'[r]) <= 1
  BY <1>1, <1>2, <1>3 DEF Submits, Refuses, Settled, Taken
<1>4. ASSUME NEW R \in SUBSET Kept, Answers(R)
      PROVE  /\ r \in Kept' <=> Taken(r)' /\ replies'[r] = <<>>
             /\ ~Taken(r)' => replies'[r] = <<>>
             /\ Len(replies'[r]) <= 1
  <2>1. Taken(r)' <=> Taken(r)
    BY <1>4 DEF Answers, Answered, Taken
  <2>2. CASE r \in R
    <3>1. PICK x \in Result : replies'[r] = Append(replies[r], x)
      BY <1>4, <2>2 DEF Answers, Answered
    <3>2. replies[r] = <<>> /\ Taken(r)
      BY <1>1, <2>2
    <3>3. replies'[r] # <<>> /\ Len(replies'[r]) = 1
      BY <1>2, <3>1, <3>2, AppendFacts, EmptySeq
    <3> QED
      BY <1>4, <2>1, <2>2, <3>2, <3>3 DEF Answers
  <2>3. CASE r \notin R
    BY <1>1, <1>4, <2>1, <2>3 DEF Answers, Answered
  <2> QED
    BY <2>2, <2>3
<1>5. CASE \E q \in Requests : Submits(q) \/ Refuses(q)
  BY <1>3, <1>5
<1>6. CASE \E R \in SUBSET Kept : Answers(R)
  BY <1>4, <1>6
<1> QED
  BY <1>5, <1>6 DEF Moved

(* Initially nothing is anywhere.                                           *)
LEMMA PlacedInit ==
  ASSUME Init
  PROVE  Once /\ Apart /\ Settled
<1>1. InChannel = {} /\ Backlog = {} /\ InFlight = {} /\ InHand = {} /\ Once
  BY ViewFacts, EmptyFacts DEF Init, Once
<1>2. Settled
  <2>1. Len(<<>>) = 0
    OBVIOUS
  <2> QED
    BY <1>1, <2>1 DEF Settled, Kept, Taken, Init
<1> QED
  BY <1>1, <1>2 DEF Apart

(* The inductive invariant.                                                 *)
IndInv == TypeOK /\ HasSlot /\ Once /\ Apart /\ Settled

(* IndInv always holds.                                                     *)
LEMMA Invariant == Spec => []IndInv
<1>1. Init => IndInv
  BY TypeInit, PlacedInit DEF IndInv
<1>2. IndInv /\ [Next]_vars => IndInv'
  BY TypeStep, PlacedStep, SettledStep DEF IndInv
<1> QED
  BY <1>1, <1>2, PTL DEF Spec

-----------------------------------------------------------------------------
(* The ledger: AsyncClient implements RequestLedger.                        *)

(* The status of a request, by who keeps it.                                *)
Status(r) == IF outcome[r] = "idle" THEN "new"
             ELSE IF outcome[r] = "refused" THEN "declined"
             ELSE IF r \in Kept THEN "pending" ELSE "answered"
StatusKnown == LedgerStatus = [r \in Requests |-> Status(r)]

(* A request is in one place or in none, as Places counts them.             *)
LEMMA PlacesFacts ==
  ASSUME TypeOK, Once, Apart, NEW r \in Requests
  PROVE  /\ r \in Kept => Cardinality(Places(r)) = 1
         /\ r \notin Kept => Places(r) = {}
<1> DEFINE A == {k \in DOMAIN cmd : cmd[k] = Req(r)}
           B == {k \in DOMAIN queued : queued[k].req = r}
           C == {k \in InMap : pending[k].req = r}
           D == {e \in {cur} \ {None} : e.req = r}
<1>0. /\ Req(r).op = "Request" /\ Req(r).req = r
      /\ \A k \in DOMAIN cmd : cmd[k].op = "Request" => cmd[k] = Req(cmd[k].req)
  BY TypeFacts DEF Req
<1>1. Places(r) = {<<"cmd", k>> : k \in A} \cup {<<"queued", k>> : k \in B}
                    \cup {<<"pending", k>> : k \in C} \cup {<<"cur", 0>> : k \in D}
  BY DEF Places
<1>2. (r \notin InChannel => A = {}) /\ (r \in InChannel => \E k : A = {k})
  <2>1. r \in InChannel => \E k \in DOMAIN cmd : cmd[k] = Req(r)
    BY <1>0 DEF InChannel
  <2>2. \A k \in DOMAIN cmd : cmd[k] = Req(r) => r \in InChannel
    BY <1>0 DEF InChannel
  <2>3. \A i, j \in DOMAIN cmd : cmd[i] = Req(r) /\ cmd[j] = Req(r) => i = j
    BY <1>0 DEF Once, ReqsOnce
  <2> QED
    BY <2>1, <2>2, <2>3
<1>3. (r \notin Backlog => B = {}) /\ (r \in Backlog => \E k : B = {k})
  BY DEF Backlog, Once, EntriesOnce
<1>4. (r \notin InFlight => C = {}) /\ (r \in InFlight => \E k : C = {k})
  BY DEF InFlight, Once, MappedOnce, InMap
<1>5. (r \notin InHand => D = {}) /\ (r \in InHand => D = {cur})
  BY DEF InHand
<1> HIDE DEF A, B, C, D
<1>6. ASSUME r \notin Kept PROVE Places(r) = {}
  <2>1. A = {} /\ B = {} /\ C = {} /\ D = {}
    BY <1>2, <1>3, <1>4, <1>5, <1>6 DEF Kept
  <2> QED
    BY <1>1, <2>1
<1>7. ASSUME r \in Kept PROVE \E p : Places(r) = {p}
  <2>1. CASE r \in InChannel
    <3>1. B = {} /\ C = {} /\ D = {}
      BY <1>3, <1>4, <1>5, <2>1 DEF Apart
    <3>2. PICK k : A = {k}
      BY <1>2, <2>1
    <3>3. Places(r) = {<<"cmd", k>>}
      BY <1>1, <3>1, <3>2
    <3> QED
      BY <3>3
  <2>2. CASE r \in Backlog
    <3>1. A = {} /\ C = {} /\ D = {}
      BY <1>2, <1>4, <1>5, <2>2 DEF Apart
    <3>2. PICK k : B = {k}
      BY <1>3, <2>2
    <3>3. Places(r) = {<<"queued", k>>}
      BY <1>1, <3>1, <3>2
    <3> QED
      BY <3>3
  <2>3. CASE r \in InFlight
    <3>1. A = {} /\ B = {} /\ D = {}
      BY <1>2, <1>3, <1>5, <2>3 DEF Apart
    <3>2. PICK k : C = {k}
      BY <1>4, <2>3
    <3>3. Places(r) = {<<"pending", k>>}
      BY <1>1, <3>1, <3>2
    <3> QED
      BY <3>3
  <2>4. CASE r \in InHand
    <3>1. A = {} /\ B = {} /\ C = {}
      BY <1>2, <1>3, <1>4, <2>4 DEF Apart
    <3>2. D = {cur}
      BY <1>5, <2>4
    <3>3. Places(r) = {<<"cur", 0>>}
      BY <1>1, <3>1, <3>2
    <3> QED
      BY <3>3
  <2> QED
    BY <1>7, <2>1, <2>2, <2>3, <2>4 DEF Kept
<1> QED
  BY <1>6, <1>7, FS_Singleton

(* The refinement mapping, in terms of IndInv.                              *)
LEMMA StatusFacts == IndInv => StatusKnown
<1> SUFFICES ASSUME IndInv PROVE StatusKnown
  OBVIOUS
<1> USE DEF IndInv
<1>1. ASSUME NEW r \in Requests PROVE LedgerStatus[r] = Status(r)
  <2>1. /\ r \in Kept <=> Taken(r) /\ replies[r] = <<>>
        /\ ~Taken(r) => replies[r] = <<>>
        /\ Len(replies[r]) <= 1 /\ Len(replies[r]) \in Nat /\ replies[r] \in Seq(Result)
    BY LenProperties DEF Settled, TypeOK
  <2>2. /\ r \in Kept => Cardinality(Places(r)) = 1
        /\ r \notin Kept => Places(r) = {}
    BY PlacesFacts
  <2>3. Cardinality({}) = 0
    BY FS_EmptySet
  <2>4. r \in Kept => Places(r) # {}
    BY <2>2, <2>3
  <2>5. LedgerStatus[r] =
          CASE outcome[r] = "idle"    -> "new"
            [] outcome[r] = "refused" -> "declined"
            [] Cardinality(Places(r)) = 1 /\ replies[r] = <<>> -> "pending"
            [] Places(r) = {} /\ Len(replies[r]) = 1 -> "answered"
            [] OTHER                  -> "lost or answered twice"
    BY DEF LedgerStatus
  <2>6. CASE outcome[r] = "idle" \/ outcome[r] = "refused"
    <3>1. ~Taken(r) /\ Places(r) = {} /\ replies[r] = <<>> /\ Len(<<>>) = 0
      BY <2>1, <2>2, <2>6 DEF Taken
    <3>2. Cardinality(Places(r)) # 1 /\ Len(replies[r]) # 1
      BY <2>3, <3>1
    <3> QED
      BY <2>5, <2>6, <3>2 DEF Status
  <2>7. CASE Taken(r) /\ replies[r] = <<>>
    <3>1. /\ r \in Kept /\ Cardinality(Places(r)) = 1 /\ Places(r) # {}
          /\ outcome[r] # "idle" /\ outcome[r] # "refused"
      BY <2>1, <2>2, <2>4, <2>7 DEF Taken
    <3> QED
      BY <2>5, <2>7, <3>1 DEF Status
  <2>8. CASE Taken(r) /\ replies[r] # <<>>
    <3>1. /\ r \notin Kept /\ Places(r) = {}
          /\ outcome[r] # "idle" /\ outcome[r] # "refused"
      BY <2>1, <2>2, <2>8 DEF Taken
    <3>2. Len(replies[r]) = 1
      <4>1. Len(replies[r]) \in Nat \ {0} /\ Len(replies[r]) <= 1
        BY <2>1, <2>8, EmptySeq
      <4>2. \A n \in Nat \ {0} : n <= 1 => n = 1
        OBVIOUS
      <4> QED
        BY <4>1, <4>2
    <3> QED
      BY <2>5, <2>8, <3>1, <3>2 DEF Status
  <2> QED
    BY <2>6, <2>7, <2>8 DEF Taken
<1>2. LedgerStatus = [r \in Requests |-> LedgerStatus[r]]
  BY DEF LedgerStatus
<1> QED
  BY <1>1, <1>2 DEF StatusKnown

(* Every step is one of the ledger, or leaves it alone.                     *)
LEMMA LedgerStep ==
  ASSUME IndInv, StatusKnown, StatusKnown', [Next]_vars
  PROVE  [Ledger!Next]_LedgerStatus
<1>1. Moved /\ TypeOK /\ Settled
  BY PlacedStep DEF IndInv
<1>2. /\ LedgerStatus = [r \in Requests |-> Status(r)]
      /\ LedgerStatus' = [r \in Requests |-> Status(r)']
  BY DEF StatusKnown
<1>3. outcome \in [Requests -> {"idle", "waiting", "returned", "Timeout", "refused"}]
  BY <1>1 DEF TypeOK
<1>same. (\A r \in Requests : LedgerStatus'[r] = LedgerStatus[r]) => LedgerStatus' = LedgerStatus
  BY <1>2
<1>4. ASSUME NEW r \in Requests, Submits(r) \/ Refuses(r)
      PROVE  [Ledger!Next]_LedgerStatus
  <2>1. LedgerStatus[r] = "new"
    BY <1>2, <1>4 DEF Submits, Refuses, Status
  <2>2. \A s \in Requests : s # r => Status(s)' = Status(s)
    BY <1>3, <1>4 DEF Submits, Refuses, Status
  <2>3. Submits(r) => Status(r)' = "pending"
    BY <1>3 DEF Submits, Status
  <2>4. Refuses(r) => Status(r)' = "declined"
    BY <1>3 DEF Refuses, Status
  <2>5. \/ LedgerStatus' = [LedgerStatus EXCEPT ![r] = "pending"]
        \/ LedgerStatus' = [LedgerStatus EXCEPT ![r] = "declined"]
    BY <1>2, <1>4, <2>2, <2>3, <2>4
  <2> QED
    BY <2>1, <2>5, <1>same DEF Ledger!Next, Ledger!Accept, Ledger!Decline
<1>5. ASSUME NEW R \in SUBSET Kept, Answers(R)
      PROVE  [Ledger!Next]_LedgerStatus
  <2>0. R \in SUBSET Requests
    BY <1>1, ViewTypes
  <2>1. \A r \in R : Status(r) = "pending"
    BY <1>1, <2>0 DEF Settled, Taken, Status
  <2>2. \A r \in Requests : Status(r)' = IF r \in R THEN "answered" ELSE Status(r)
    <3> SUFFICES ASSUME NEW r \in Requests
                 PROVE  Status(r)' = IF r \in R THEN "answered" ELSE Status(r)
      OBVIOUS
    <3>1. outcome[r] \in {"idle", "refused"} \/ outcome'[r] \in {"idle", "refused"}
            => outcome'[r] = outcome[r]
      BY <1>5 DEF Answers, Answered
    <3>2. Kept' = Kept \ R
      BY <1>5 DEF Answers
    <3>3. r \in R => outcome[r] \notin {"idle", "refused"}
      BY <1>1 DEF Settled, Taken
    <3> QED
      BY <3>1, <3>2, <3>3 DEF Status
  <2>3. LedgerStatus' = [r \in Requests |-> IF r \in R THEN "answered" ELSE LedgerStatus[r]]
    BY <1>2, <2>2
  <2>4. CASE R = {}
    BY <1>2, <2>3, <2>4
  <2>5. CASE R # {}
    <3>1. \A r \in R : LedgerStatus[r] = "pending"
      BY <1>2, <2>0, <2>1
    <3> QED
      BY <2>0, <2>3, <2>5, <3>1, <1>same DEF Ledger!Next, Ledger!Answer
  <2> QED
    BY <2>4, <2>5
<1>6. CASE \E r \in Requests : Submits(r) \/ Refuses(r)
  BY <1>4, <1>6
<1>7. CASE \E R \in SUBSET Kept : Answers(R)
  BY <1>5, <1>7
<1> QED
  BY <1>1, <1>6, <1>7 DEF Moved

(* The asynchronous client implements RequestLedger: a request the channel  *)
(* took is pending while exactly one part of the task holds it, and         *)
(* answered once and for good when none does, through re-queueing, drains,  *)
(* time-outs and the end of the task.                                       *)
THEOREM LedgerImplemented == Spec => ImplementsLedger
<1>1. Init => Ledger!Init
  <2> SUFFICES ASSUME Init PROVE LedgerStatus = [r \in Requests |-> "new"]
    BY DEF Ledger!Init
  <2>1. \A r \in Requests : Status(r) = "new"
    BY DEF Init, Status
  <2>2. StatusKnown
    BY TypeInit, PlacedInit, StatusFacts DEF IndInv
  <2> QED
    BY <2>1, <2>2 DEF StatusKnown
<1>2. IndInv /\ StatusKnown /\ StatusKnown' /\ [Next]_vars => [Ledger!Next]_LedgerStatus
  BY LedgerStep
<1> QED
  BY <1>1, <1>2, Invariant, StatusFacts, PTL DEF Spec, ImplementsLedger, Ledger!Spec


-----------------------------------------------------------------------------
(* The retry budget.                                                        *)

(* The entries of a backlog.                                                *)
LEMMA EntriesFacts ==
  ASSUME NEW q \in Seq(Entry)
  PROVE  /\ Entries(q) \subseteq Entry
         /\ q # <<>> => Head(q) \in Entries(q) /\ Entries(Tail(q)) \subseteq Entries(q)
         /\ \A e \in Entry : Entries(Append(q, e)) \subseteq Entries(q) \cup {e}
         /\ \A p \in Seq(Entry) : Entries(p \o q) \subseteq Entries(p) \cup Entries(q)
         /\ \A e \in Entries(q) : e.req \in EntriesIn(q)
<1>1. /\ Len(q) \in Nat /\ DOMAIN q = 1..Len(q)
      /\ \A k \in DOMAIN q : q[k] \in Entry
  BY LenProperties, ElementOfSeq
<1>2. Entries(q) \subseteq Entry /\ \A e \in Entries(q) : e.req \in EntriesIn(q)
  BY <1>1 DEF Entries, EntriesIn
<1>3. ASSUME q # <<>> PROVE Head(q) \in Entries(q) /\ Entries(Tail(q)) \subseteq Entries(q)
  <2>1. /\ Head(q) = q[1] /\ 1 \in DOMAIN q
        /\ DOMAIN Tail(q) = 1..(Len(q) - 1)
        /\ \A k \in 1..(Len(q) - 1) : Tail(q)[k] = q[k + 1]
    BY <1>3, TailFacts
  <2>2. \A k \in DOMAIN Tail(q) : k + 1 \in DOMAIN q /\ Tail(q)[k] = q[k + 1]
    BY <1>1, <2>1
  <2> QED
    BY <2>1, <2>2 DEF Entries
<1>4. ASSUME NEW e \in Entry PROVE Entries(Append(q, e)) \subseteq Entries(q) \cup {e}
  <2>1. /\ DOMAIN Append(q, e) = 1..(Len(q) + 1)
        /\ \A k \in 1..Len(q) : Append(q, e)[k] = q[k]
        /\ Append(q, e)[Len(q) + 1] = e
    BY AppendFacts
  <2>2. \A k \in DOMAIN Append(q, e) : k \in DOMAIN q \/ k = Len(q) + 1
    BY <1>1, <2>1
  <2> QED
    BY <1>1, <2>1, <2>2 DEF Entries
<1>5. ASSUME NEW p \in Seq(Entry) PROVE Entries(p \o q) \subseteq Entries(p) \cup Entries(q)
  <2> DEFINE t == p \o q
  <2>1. /\ Len(p) \in Nat /\ DOMAIN p = 1..Len(p)
        /\ DOMAIN t = 1..(Len(p) + Len(q))
        /\ \A i \in 1..Len(p) : t[i] = p[i]
        /\ \A i \in 1..Len(q) : t[Len(p) + i] = q[i]
    BY ConcatFacts
  <2> HIDE DEF t
  <2>2. \A i \in DOMAIN t : \/ i \in DOMAIN p /\ t[i] = p[i]
                            \/ i - Len(p) \in DOMAIN q /\ t[i] = q[i - Len(p)]
    <3> SUFFICES ASSUME NEW i \in DOMAIN t, i \notin DOMAIN p
                 PROVE  i - Len(p) \in DOMAIN q /\ t[i] = q[i - Len(p)]
      BY <2>1
    <3>1. i - Len(p) \in 1..Len(q) /\ Len(p) + (i - Len(p)) = i
      BY <1>1, <2>1
    <3> QED
      BY <1>1, <2>1, <3>1
  <2> QED
    BY <2>2 DEF Entries, t
<1> QED
  BY <1>2, <1>3, <1>4, <1>5

(* Types of what is spent, and where entries are.                           *)
LEMMA SpentTypes ==
  ASSUME TypeOK
  PROVE  /\ \A r \in Requests : tries[r] \in Nat /\ Attempts[r] \in Nat
         /\ \A e \in Entry : e.req \in Requests /\ e.retry_attempts \in Nat
         /\ Mapped(pending) \subseteq Entry
         /\ \A e \in Mapped(pending) : e.req \in InFlight
         /\ \A k \in InMap : pending[k] \in Mapped(pending)
         /\ queued \in Seq(Entry) /\ Entries(queued) \subseteq Entry
         /\ \A e \in Entries(queued) : e.req \in Backlog
         /\ cur # None => cur \in Entry /\ cur.req \in InHand
         /\ Entries(<<>>) = {} /\ Mapped([k \in TxnIds |-> None]) = {}
<1>1. \A r \in Requests : tries[r] \in Nat /\ Attempts[r] \in Nat
  BY RequestsAssumption DEF TypeOK
<1>2. \A e \in Entry : e.req \in Requests /\ e.retry_attempts \in Nat
  BY DEF Entry
<1>3. pending \in [TxnIds -> Entry \cup {None}] /\ queued \in Seq(Entry) /\ cur \in Entry \cup {None}
  BY DEF TypeOK
<1>4. Mapped(pending) \subseteq Entry
  BY <1>3 DEF Mapped
<1>5. \A e \in Mapped(pending) : e.req \in InFlight
  BY DEF Mapped, InFlight, InMap
<1>6. \A k \in InMap : pending[k] \in Mapped(pending)
  BY DEF Mapped, InMap
<1>7. Entries(queued) \subseteq Entry /\ \A e \in Entries(queued) : e.req \in Backlog
  BY <1>3, EntriesFacts, ViewFacts
<1>8. cur # None => cur \in Entry /\ cur.req \in InHand
  BY <1>3 DEF InHand
<1>9. Entries(<<>>) = {} /\ Mapped([k \in TxnIds |-> None]) = {}
  BY DEF Entries, Mapped
<1> QED
  BY <1>1, <1>2, <1>3, <1>4, <1>5, <1>6, <1>7, <1>8, <1>9

(* Steps that try nothing keep Spent if they add no entry beyond its means. *)
LEMMA SpentKept ==
  ASSUME Spent, tries' = tries,
         \A e \in Entries(queued') : Funded(e),
         cur' # None => Funded(cur'),
         Mapped(pending') \subseteq Mapped(pending),
         \A r \in Requests : r \in InChannel' => r \in InChannel \/ outcome[r] = "idle",
         \A r \in Requests : outcome'[r] = "idle" => outcome[r] = "idle"
  PROVE  Spent'
BY DEF Spent, Funded, Charged, RetryBudget

(* An entry put back has been tried, and can pay for what it may still      *)
(* spend.                                                                   *)
LEMMA RequeuedFunded ==
  ASSUME TypeOK, Spent
  PROVE  \A e \in Entries(Requeued) : Funded(e) /\ tries[e.req] > 0 /\ e.req \in InFlight
<1> SUFFICES ASSUME NEW i \in DOMAIN Requeued
             PROVE  Funded(Requeued[i]) /\ tries[Requeued[i].req] > 0 /\ Requeued[i].req \in InFlight
  BY DEF Entries
<1>1. PICK k \in InMap : /\ pending[k].retry_attempts > 0
                         /\ Requeued[i].req = pending[k].req
                         /\ Requeued[i].retry_attempts = pending[k].retry_attempts - 1
  BY RequeuedFacts
<1>2. /\ Charged(pending[k]) /\ pending[k].req \in Requests /\ pending[k].retry_attempts \in Nat
      /\ tries[pending[k].req] \in Nat /\ Attempts[pending[k].req] \in Nat
      /\ pending[k].req \in InFlight
  BY SpentTypes DEF Spent
<1> QED
  BY <1>1, <1>2 DEF Funded, Charged

(* No step makes a request new again.                                       *)
LEMMA IdleKept ==
  ASSUME TypeOK, NEW r \in Requests, outcome'[r] = "idle", Moved
  PROVE  outcome[r] = "idle"
<1>1. outcome \in [Requests -> {"idle", "waiting", "returned", "Timeout", "refused"}]
  BY DEF TypeOK
<1>2. CASE \E q \in Requests : Submits(q) \/ Refuses(q)
  BY <1>1, <1>2 DEF Submits, Refuses
<1>3. CASE \E R \in SUBSET Kept : Answers(R)
  BY <1>3 DEF Answers, Answered
<1> QED
  BY <1>2, <1>3 DEF Moved

(* Taking a command adds none.                                              *)
LEMMA ChannelShrinks ==
  ASSUME TypeOK, Once, cmd # <<>>, cmd' = Tail(cmd)
  PROVE  InChannel' \subseteq InChannel
BY ViewFacts, ChannelFacts DEF Once, TypeOK

(* The backlog after a lost connection.                                     *)
LEMMA LossFunded ==
  ASSUME TypeOK, Spent, handle_connection_loss
  PROVE  /\ \A e \in Entries(queued') : Funded(e) /\ e.req \in Backlog \cup InFlight
         /\ Mapped(pending') = {}
<1>1. queued' = Requeued \o queued /\ pending' = [k \in TxnIds |-> None]
  BY DEF handle_connection_loss
<1>2. Requeued \in Seq(Entry) /\ queued \in Seq(Entry)
  BY RequeuedFacts DEF TypeOK
<1>3. Entries(queued') \subseteq Entries(Requeued) \cup Entries(queued)
  BY <1>1, <1>2, EntriesFacts
<1> QED
  BY <1>1, <1>3, RequeuedFunded, SpentTypes DEF Spent

(* Every step keeps Spent.                                                  *)
LEMMA SpentStep ==
  ASSUME IndInv, Spent, [Next]_vars
  PROVE  Spent'
<1> USE DEF IndInv
<1>0. \A q \in Requests : outcome'[q] = "idle" => outcome[q] = "idle"
  BY PlacedStep, IdleKept
<1>1. ASSUME NEW r \in Requests, SendRequest(r) PROVE Spent'
  <2>1. \A e \in Entries(queued') : Funded(e)
    BY <1>1 DEF SendRequest, taskVars, Spent
  <2>2. cur' # None => Funded(cur')
    BY <1>1 DEF SendRequest, taskVars, Spent
  <2>3. Mapped(pending') \subseteq Mapped(pending)
    BY <1>1 DEF SendRequest, taskVars
  <2>5. tries' = tries
    BY <1>1 DEF SendRequest
  <2>4. \A q \in Requests : q \in InChannel' => q \in InChannel \/ outcome[q] = "idle"
    BY <1>1, ViewFacts, ChannelFacts DEF SendRequest, TypeOK
  <2> QED
    BY <2>1, <2>2, <2>3, <2>4, <2>5, <1>0, SpentKept
<1>2. ASSUME NEW r \in Requests, SendRequestClosed(r) PROVE Spent'
  <2>1. \A e \in Entries(queued') : Funded(e)
    BY <1>2 DEF SendRequestClosed, taskVars, Spent
  <2>2. cur' # None => Funded(cur')
    BY <1>2 DEF SendRequestClosed, taskVars, Spent
  <2>3. Mapped(pending') \subseteq Mapped(pending)
    BY <1>2 DEF SendRequestClosed, taskVars
  <2>4. InChannel' \subseteq InChannel
    BY <1>2, ViewFacts DEF SendRequestClosed, taskVars
  <2>5. tries' = tries
    BY <1>2 DEF SendRequestClosed, taskVars
  <2> QED
    BY <2>1, <2>2, <2>3, <2>4, <2>5, <1>0, SpentKept
<1>3. ASSUME NEW r \in Requests, Timeout(r) PROVE Spent'
  <2>1. \A e \in Entries(queued') : Funded(e)
    BY <1>3 DEF Timeout, taskVars, Spent
  <2>2. cur' # None => Funded(cur')
    BY <1>3 DEF Timeout, taskVars, Spent
  <2>3. Mapped(pending') \subseteq Mapped(pending)
    BY <1>3 DEF Timeout, taskVars
  <2>5. tries' = tries
    BY <1>3 DEF Timeout, taskVars
  <2>4. InChannel' \subseteq InChannel
    BY <1>3, ViewFacts, ChannelFacts, CommandTypes DEF Timeout, Cmd, TypeOK
  <2> QED
    BY <2>1, <2>2, <2>3, <2>4, <2>5, <1>0, SpentKept
<1>4. CASE CallConnect
  <2>1. \A e \in Entries(queued') : Funded(e)
    BY <1>4 DEF CallConnect, taskVars, Spent
  <2>2. cur' # None => Funded(cur')
    BY <1>4 DEF CallConnect, taskVars, Spent
  <2>3. Mapped(pending') \subseteq Mapped(pending)
    BY <1>4 DEF CallConnect, taskVars
  <2>5. tries' = tries
    BY <1>4 DEF CallConnect, taskVars
  <2>4. InChannel' \subseteq InChannel
    BY <1>4, ViewFacts, ChannelFacts, CommandTypes DEF CallConnect, Cmd, TypeOK
  <2> QED
    BY <2>1, <2>2, <2>3, <2>4, <2>5, <1>0, SpentKept
<1>5. CASE CallDisconnect
  <2>1. \A e \in Entries(queued') : Funded(e)
    BY <1>5 DEF CallDisconnect, taskVars, Spent
  <2>2. cur' # None => Funded(cur')
    BY <1>5 DEF CallDisconnect, taskVars, Spent
  <2>3. Mapped(pending') \subseteq Mapped(pending)
    BY <1>5 DEF CallDisconnect, taskVars
  <2>5. tries' = tries
    BY <1>5 DEF CallDisconnect, taskVars
  <2>4. InChannel' \subseteq InChannel
    BY <1>5, ViewFacts, ChannelFacts, CommandTypes DEF CallDisconnect, Cmd, TypeOK
  <2> QED
    BY <2>1, <2>2, <2>3, <2>4, <2>5, <1>0, SpentKept
<1>6. CASE DropHandles
  <2>1. \A e \in Entries(queued') : Funded(e)
    BY <1>6 DEF DropHandles, taskVars, Spent
  <2>2. cur' # None => Funded(cur')
    BY <1>6 DEF DropHandles, taskVars, Spent
  <2>3. Mapped(pending') \subseteq Mapped(pending)
    BY <1>6 DEF DropHandles, taskVars
  <2>4. InChannel' \subseteq InChannel
    BY <1>6, ViewFacts DEF DropHandles, taskVars
  <2>5. tries' = tries
    BY <1>6 DEF DropHandles, taskVars
  <2> QED
    BY <2>1, <2>2, <2>3, <2>4, <2>5, <1>0, SpentKept
<1>7. CASE FillFromBacklog
  <2>0. queued \in Seq(Entry) /\ queued # <<>>
    BY <1>7 DEF FillFromBacklog, TypeOK
  <2>1. \A e \in Entries(queued') : Funded(e)
    BY <1>7, <2>0, EntriesFacts DEF FillFromBacklog, Spent
  <2>2. cur' # None => Funded(cur')
    BY <1>7, <2>0, EntriesFacts DEF FillFromBacklog, Spent
  <2>3. Mapped(pending') \subseteq Mapped(pending)
    BY <1>7 DEF FillFromBacklog
  <2>4. InChannel' \subseteq InChannel
    BY <1>7, ViewFacts DEF FillFromBacklog
  <2>5. tries' = tries
    BY <1>7 DEF FillFromBacklog
  <2> QED
    BY <2>1, <2>2, <2>3, <2>4, <2>5, <1>0, SpentKept
<1>8. CASE FillDone
  <2>1. \A e \in Entries(queued') : Funded(e)
    BY <1>8 DEF FillDone, Spent
  <2>2. cur' # None => Funded(cur')
    BY <1>8 DEF FillDone, Spent
  <2>3. Mapped(pending') \subseteq Mapped(pending)
    BY <1>8 DEF FillDone
  <2>4. InChannel' \subseteq InChannel
    BY <1>8, ViewFacts DEF FillDone
  <2>5. tries' = tries
    BY <1>8 DEF FillDone
  <2> QED
    BY <2>1, <2>2, <2>3, <2>4, <2>5, <1>0, SpentKept
<1>9. CASE DispatchGivesUp
  <2>1. \A e \in Entries(queued') : Funded(e)
    BY <1>9 DEF DispatchGivesUp, Spent
  <2>2. cur' # None => Funded(cur')
    BY <1>9 DEF DispatchGivesUp, Dispatched, Spent
  <2>3. Mapped(pending') \subseteq Mapped(pending)
    BY <1>9 DEF DispatchGivesUp
  <2>4. InChannel' \subseteq InChannel
    BY <1>9, ViewFacts DEF DispatchGivesUp
  <2>5. tries' = tries
    BY <1>9 DEF DispatchGivesUp
  <2> QED
    BY <2>1, <2>2, <2>3, <2>4, <2>5, <1>0, SpentKept
<1>10. CASE Reconnect
  <2>1. \A e \in Entries(queued') : Funded(e)
    BY <1>10 DEF Reconnect, Spent
  <2>2. cur' # None => Funded(cur')
    BY <1>10 DEF Reconnect, Spent
  <2>3. Mapped(pending') \subseteq Mapped(pending)
    BY <1>10 DEF Reconnect
  <2>4. InChannel' \subseteq InChannel
    BY <1>10, ViewFacts DEF Reconnect
  <2>5. tries' = tries
    BY <1>10 DEF Reconnect
  <2> QED
    BY <2>1, <2>2, <2>3, <2>4, <2>5, <1>0, SpentKept
<1>11. CASE ReconnectFails
  <2>1. /\ cur # None /\ cur \in Entry /\ cur.req \in Requests /\ cur.retry_attempts \in Nat
        /\ cur.req \in InHand
    BY <1>11, SpentTypes, TypeFacts DEF ReconnectFails, TypeOK
  <2>2. tries'[cur.req] = tries[cur.req] + 1 /\ \A r \in Requests : r # cur.req => tries'[r] = tries[r]
    BY <1>11, <2>1 DEF ReconnectFails, Spend, TypeOK
  <2>3. /\ cur.req \notin Backlog /\ cur.req \notin InFlight /\ cur.req \notin InChannel
        /\ outcome[cur.req] # "idle"
    BY <2>1 DEF Apart, Settled, Kept, Taken
  <2>4. Funded(cur) /\ tries[cur.req] \in Nat /\ Attempts[cur.req] \in Nat
    BY <2>1, SpentTypes DEF Spent
  <2>5. InChannel' = InChannel
    BY <1>11, ViewFacts DEF ReconnectFails
  <2>6. \A r \in Requests : r \in InChannel' \/ outcome'[r] = "idle" => tries'[r] = 0
    BY <1>0, <2>2, <2>3, <2>5 DEF Spent
  <2>7. RetryBudget'
    BY <2>1, <2>2, <2>4 DEF Spent, RetryBudget, Funded
  <2>8. \A e \in Entries(queued') : Funded(e)'
    <3>1. \A e \in Entries(queued) : e \in Entry /\ e.req \in Requests /\ e.req # cur.req
      BY <2>3, SpentTypes
    <3> QED
      BY <1>11, <2>2, <3>1 DEF ReconnectFails, Spent, Funded
  <2>9. \A e \in Mapped(pending') : Charged(e)'
    <3>1. \A e \in Mapped(pending) : e \in Entry /\ e.req \in Requests /\ e.req # cur.req
      BY <2>3, SpentTypes
    <3> QED
      BY <1>11, <2>2, <3>1 DEF ReconnectFails, Spent, Charged
  <2>10. cur' # None => tries'[cur'.req] + cur'.retry_attempts <= Attempts[cur'.req]
    <3>1. cur' = None \/ (cur.retry_attempts > 0 /\ cur' = [cur EXCEPT !.retry_attempts = @ - 1])
      BY <1>11, <2>1 DEF ReconnectFails, Dispatched
    <3>2. cur' # None => cur'.req = cur.req /\ cur'.retry_attempts = cur.retry_attempts - 1
      BY <2>1, <3>1, EntryLess
    <3> QED
      BY <2>1, <2>2, <2>4, <3>2 DEF Funded
  <2> QED
    BY <2>6, <2>7, <2>8, <2>9, <2>10 DEF Spent, Funded
<1>12. CASE EncodeFails
  <2>1. \A e \in Entries(queued') : Funded(e)
    BY <1>12 DEF EncodeFails, Spent
  <2>2. cur' # None => Funded(cur')
    BY <1>12 DEF EncodeFails, Dispatched, Spent
  <2>3. Mapped(pending') \subseteq Mapped(pending)
    BY <1>12 DEF EncodeFails
  <2>4. InChannel' \subseteq InChannel
    BY <1>12, ViewFacts DEF EncodeFails
  <2>5. tries' = tries
    BY <1>12 DEF EncodeFails
  <2> QED
    BY <2>1, <2>2, <2>3, <2>4, <2>5, <1>0, SpentKept
<1>13. CASE SendOk
  <2>1. /\ cur # None /\ cur \in Entry /\ cur.req \in Requests /\ cur.retry_attempts \in Nat
        /\ cur.req \in InHand
    BY <1>13, SpentTypes, TypeFacts DEF SendOk, TypeOK
  <2>2. tries'[cur.req] = tries[cur.req] + 1 /\ \A r \in Requests : r # cur.req => tries'[r] = tries[r]
    BY <1>13, <2>1 DEF SendOk, Spend, TypeOK
  <2>3. /\ cur.req \notin Backlog /\ cur.req \notin InFlight /\ cur.req \notin InChannel
        /\ outcome[cur.req] # "idle"
    BY <2>1 DEF Apart, Settled, Kept, Taken
  <2>4. Funded(cur) /\ tries[cur.req] \in Nat /\ Attempts[cur.req] \in Nat
    BY <2>1, SpentTypes DEF Spent
  <2>5. InChannel' = InChannel
    BY <1>13, ViewFacts DEF SendOk
  <2>6. \A r \in Requests : r \in InChannel' \/ outcome'[r] = "idle" => tries'[r] = 0
    BY <1>0, <2>2, <2>3, <2>5 DEF Spent
  <2>7. RetryBudget'
    BY <2>1, <2>2, <2>4 DEF Spent, RetryBudget, Funded
  <2>8. \A e \in Entries(queued') : Funded(e)'
    <3>1. \A e \in Entries(queued) : e \in Entry /\ e.req \in Requests /\ e.req # cur.req
      BY <2>3, SpentTypes
    <3> QED
      BY <1>13, <2>2, <3>1 DEF SendOk, Spent, Funded
  <2>9. \A e \in Mapped(pending') : Charged(e)'
    <3>1. \A e \in Mapped(pending) : e \in Entry /\ e.req \in Requests /\ e.req # cur.req
      BY <2>3, SpentTypes
    <3>2. Mapped(pending') \subseteq Mapped(pending) \cup {cur}
      BY <1>13 DEF SendOk, Mapped, TypeOK
    <3>3. tries'[cur.req] > 0 /\ tries'[cur.req] + cur.retry_attempts <= Attempts[cur.req] + 1
      BY <2>1, <2>2, <2>4 DEF Funded
    <3> QED
      BY <2>2, <3>1, <3>2, <3>3 DEF Spent, Charged
  <2>10. cur' = None
    BY <1>13 DEF SendOk, Dispatched
  <2> QED
    BY <2>6, <2>7, <2>8, <2>9, <2>10 DEF Spent, Funded
<1>14. CASE SendFails
  <2>1. /\ cur # None /\ cur \in Entry /\ cur.req \in Requests /\ cur.retry_attempts \in Nat
        /\ cur.req \in InHand
    BY <1>14, SpentTypes, TypeFacts DEF SendFails, TypeOK
  <2>2. tries'[cur.req] = tries[cur.req] + 1 /\ \A r \in Requests : r # cur.req => tries'[r] = tries[r]
    BY <1>14, <2>1 DEF SendFails, Spend, TypeOK
  <2>3. /\ cur.req \notin Backlog /\ cur.req \notin InFlight /\ cur.req \notin InChannel
        /\ outcome[cur.req] # "idle"
    BY <2>1 DEF Apart, Settled, Kept, Taken
  <2>4. Funded(cur) /\ tries[cur.req] \in Nat /\ Attempts[cur.req] \in Nat
    BY <2>1, SpentTypes DEF Spent
  <2>5. InChannel' = InChannel
    BY <1>14, ViewFacts DEF SendFails
  <2>6. \A r \in Requests : r \in InChannel' \/ outcome'[r] = "idle" => tries'[r] = 0
    BY <1>0, <2>2, <2>3, <2>5 DEF Spent
  <2>7. RetryBudget'
    BY <2>1, <2>2, <2>4 DEF Spent, RetryBudget, Funded
  <2>8. \A e \in Entries(queued') : Funded(e)'
    <3>1. \A e \in Entries(queued') : Funded(e) /\ e.req \in Requests /\ e.req # cur.req
      BY <1>14, <2>3, LossFunded, ViewTypes DEF SendFails, Kept
    <3> QED
      BY <2>2, <3>1 DEF Funded
  <2>9. \A e \in Mapped(pending') : Charged(e)'
    BY <1>14, LossFunded DEF SendFails
  <2>10. cur' # None => tries'[cur'.req] + cur'.retry_attempts <= Attempts[cur'.req]
    <3>1. cur' = None \/ (cur.retry_attempts > 0 /\ cur' = [cur EXCEPT !.retry_attempts = @ - 1])
      BY <1>14, <2>1 DEF SendFails, Dispatched
    <3>2. cur' # None => cur'.req = cur.req /\ cur'.retry_attempts = cur.retry_attempts - 1
      BY <2>1, <3>1, EntryLess
    <3> QED
      BY <2>1, <2>2, <2>4, <3>2 DEF Funded
  <2> QED
    BY <2>6, <2>7, <2>8, <2>9, <2>10 DEF Spent, Funded
<1>15. CASE HandleRequest
  <2> DEFINE h == Head(cmd).req
             e == [req |-> h, retry_attempts |-> Attempts[h]]
  <2>6. /\ cmd # <<>> /\ Head(cmd) \in Command /\ Head(cmd).op = "Request" /\ cmd' = Tail(cmd)
    BY <1>15, TakesType DEF HandleRequest, TakesCommand
  <2>7. h \in Requests /\ h \in InChannel
    BY <2>6, ViewFacts, ChannelFacts DEF Command, Once, TypeOK
  <2>8. e \in Entry /\ e.req = h /\ e.retry_attempts = Attempts[h]
    BY <2>7, RequestsAssumption DEF Entry
  <2>9. \/ cur' = e /\ UNCHANGED queued
        \/ queued' = Append(queued, e) /\ UNCHANGED cur
    BY <1>15 DEF HandleRequest
  <2>10. queued \in Seq(Entry)
    BY DEF TypeOK
  <2> HIDE DEF h, e
  <2>11. Funded(e)
    BY <2>7, <2>8, SpentTypes DEF Spent, Funded
  <2>1. \A x \in Entries(queued') : Funded(x)
    BY <2>8, <2>9, <2>10, <2>11, EntriesFacts DEF Spent
  <2>2. cur' # None => Funded(cur')
    BY <2>9, <2>11 DEF Spent
  <2>3. Mapped(pending') \subseteq Mapped(pending)
    BY <1>15 DEF HandleRequest
  <2>5. tries' = tries
    BY <1>15 DEF HandleRequest
  <2>4. InChannel' \subseteq InChannel
    BY <2>6, ChannelShrinks
  <2> QED
    BY <2>1, <2>2, <2>3, <2>4, <2>5, <1>0, SpentKept
<1>16. CASE HandleConnect
  <2>1. \A e \in Entries(queued') : Funded(e)
    BY <1>16 DEF HandleConnect, Spent
  <2>2. cur' # None => Funded(cur')
    BY <1>16 DEF HandleConnect, Spent
  <2>3. Mapped(pending') \subseteq Mapped(pending)
    BY <1>16 DEF HandleConnect
  <2>5. tries' = tries
    BY <1>16 DEF HandleConnect
  <2>4. InChannel' \subseteq InChannel
    BY <1>16, TakesType, ChannelShrinks DEF HandleConnect, TakesCommand
  <2> QED
    BY <2>1, <2>2, <2>3, <2>4, <2>5, <1>0, SpentKept
<1>17. ASSUME NEW ok \in BOOLEAN, ConnectDone(ok) PROVE Spent'
  <2>1. \A e \in Entries(queued') : Funded(e)
    BY <1>17 DEF ConnectDone, Spent
  <2>2. cur' # None => Funded(cur')
    BY <1>17 DEF ConnectDone, Spent
  <2>3. Mapped(pending') \subseteq Mapped(pending)
    BY <1>17 DEF ConnectDone
  <2>4. InChannel' \subseteq InChannel
    BY <1>17, ViewFacts DEF ConnectDone
  <2>5. tries' = tries
    BY <1>17 DEF ConnectDone
  <2> QED
    BY <2>1, <2>2, <2>3, <2>4, <2>5, <1>0, SpentKept
<1>18. CASE HandleDisconnect
  <2>1. \A e \in Entries(queued') : Funded(e)
    BY <1>18, SpentTypes DEF HandleDisconnect, drain_all
  <2>3. Mapped(pending') \subseteq Mapped(pending)
    BY <1>18, SpentTypes DEF HandleDisconnect, drain_all
  <2>2. cur' # None => Funded(cur')
    BY <1>18 DEF HandleDisconnect, Spent
  <2>5. tries' = tries
    BY <1>18 DEF HandleDisconnect
  <2>4. InChannel' \subseteq InChannel
    BY <1>18, TakesType, ChannelShrinks DEF HandleDisconnect, TakesCommand
  <2> QED
    BY <2>1, <2>2, <2>3, <2>4, <2>5, <1>0, SpentKept
<1>19. CASE HandleShutdown
  <2>1. \A e \in Entries(queued') : Funded(e)
    BY <1>19, SpentTypes DEF HandleShutdown, TaskEnds
  <2>3. Mapped(pending') \subseteq Mapped(pending)
    BY <1>19, SpentTypes DEF HandleShutdown, TaskEnds
  <2>2. cur' # None => Funded(cur')
    BY <1>19 DEF HandleShutdown, TaskEnds, Spent
  <2>5. tries' = tries
    BY <1>19 DEF HandleShutdown, TaskEnds
  <2>4. InChannel' \subseteq InChannel
    BY <1>19, ViewFacts, EmptyFacts DEF HandleShutdown, TaskEnds
  <2> QED
    BY <2>1, <2>2, <2>3, <2>4, <2>5, <1>0, SpentKept
<1>20. CASE ChannelClosed
  <2>1. \A e \in Entries(queued') : Funded(e)
    BY <1>20, SpentTypes DEF ChannelClosed, TaskEnds
  <2>3. Mapped(pending') \subseteq Mapped(pending)
    BY <1>20, SpentTypes DEF ChannelClosed, TaskEnds
  <2>2. cur' # None => Funded(cur')
    BY <1>20 DEF ChannelClosed, TaskEnds, Spent
  <2>5. tries' = tries
    BY <1>20 DEF ChannelClosed, TaskEnds
  <2>4. InChannel' \subseteq InChannel
    BY <1>20, ViewFacts, EmptyFacts DEF ChannelClosed, TaskEnds
  <2> QED
    BY <2>1, <2>2, <2>3, <2>4, <2>5, <1>0, SpentKept
<1>21. CASE BatchDone
  <2>1. \A e \in Entries(queued') : Funded(e)
    BY <1>21 DEF BatchDone, Spent
  <2>2. cur' # None => Funded(cur')
    BY <1>21 DEF BatchDone, Spent
  <2>3. Mapped(pending') \subseteq Mapped(pending)
    BY <1>21 DEF BatchDone
  <2>4. InChannel' \subseteq InChannel
    BY <1>21, ViewFacts DEF BatchDone
  <2>5. tries' = tries
    BY <1>21 DEF BatchDone
  <2> QED
    BY <2>1, <2>2, <2>3, <2>4, <2>5, <1>0, SpentKept
<1>22. CASE ReceiveFails
  <2>1. \A e \in Entries(queued') : Funded(e)
    BY <1>22, LossFunded DEF ReceiveFails
  <2>3. Mapped(pending') \subseteq Mapped(pending)
    BY <1>22, LossFunded DEF ReceiveFails
  <2>2. cur' # None => Funded(cur')
    BY <1>22 DEF ReceiveFails, Spent
  <2>4. InChannel' \subseteq InChannel
    BY <1>22, ViewFacts DEF ReceiveFails
  <2>5. tries' = tries
    BY <1>22 DEF ReceiveFails
  <2> QED
    BY <2>1, <2>2, <2>3, <2>4, <2>5, <1>0, SpentKept
<1>23. ASSUME NEW m \in peer, process_frame(m) PROVE Spent'
  <2>1. \A e \in Entries(queued') : Funded(e)
    BY <1>23 DEF process_frame, Spent
  <2>2. cur' # None => Funded(cur')
    BY <1>23 DEF process_frame, Spent
  <2>4. InChannel' \subseteq InChannel
    BY <1>23, ViewFacts DEF process_frame
  <2>5. tries' = tries
    BY <1>23 DEF process_frame
  <2>3. Mapped(pending') \subseteq Mapped(pending)
    <3>1. \/ pending' = pending
          \/ \E k \in TxnIds : pending' = [pending EXCEPT ![k] = None]
      BY <1>23 DEF process_frame, RemoveEntry, resolve_key, InMap
    <3>2. pending \in [TxnIds -> Entry \cup {None}]
      BY DEF TypeOK
    <3> QED
      BY <3>1, <3>2 DEF Mapped
  <2> QED
    BY <2>1, <2>2, <2>3, <2>4, <2>5, <1>0, SpentKept
<1>24. ASSUME NEW m \in peer, ReceiveDamaged(m) PROVE Spent'
  <2>1. \A e \in Entries(queued') : Funded(e)
    BY <1>24 DEF ReceiveDamaged, Spent
  <2>2. cur' # None => Funded(cur')
    BY <1>24 DEF ReceiveDamaged, Spent
  <2>4. InChannel' \subseteq InChannel
    BY <1>24, ViewFacts DEF ReceiveDamaged
  <2>5. tries' = tries
    BY <1>24 DEF ReceiveDamaged
  <2>3. Mapped(pending') \subseteq Mapped(pending)
    <3>1. \/ pending' = pending
          \/ \E k \in TxnIds : pending' = [pending EXCEPT ![k] = None]
      BY <1>24 DEF ReceiveDamaged, RemoveEntry, resolve_key, InMap
    <3>2. pending \in [TxnIds -> Entry \cup {None}]
      BY DEF TypeOK
    <3> QED
      BY <3>1, <3>2 DEF Mapped
  <2> QED
    BY <2>1, <2>2, <2>3, <2>4, <2>5, <1>0, SpentKept
<1>25. CASE UNCHANGED vars
  <2>1. \A e \in Entries(queued') : Funded(e)
    BY <1>25 DEF vars, taskVars, callerVars, Spent
  <2>2. cur' # None => Funded(cur')
    BY <1>25 DEF vars, taskVars, callerVars, Spent
  <2>3. Mapped(pending') \subseteq Mapped(pending)
    BY <1>25 DEF vars, taskVars, callerVars
  <2>4. InChannel' \subseteq InChannel
    BY <1>25, ViewFacts DEF vars, taskVars, callerVars
  <2>5. tries' = tries
    BY <1>25 DEF vars, taskVars, callerVars
  <2> QED
    BY <2>1, <2>2, <2>3, <2>4, <2>5, <1>0, SpentKept
<1> QED
  BY <1>1, <1>2, <1>3, <1>4, <1>5, <1>6, <1>7, <1>8, <1>9, <1>10, <1>11, <1>12, <1>13, <1>14,
     <1>15, <1>16, <1>17, <1>18, <1>19, <1>20, <1>21, <1>22, <1>23, <1>24, <1>25 DEF Next,
     CallerStep, TaskStep, LinkStep

(* It holds initially.                                                      *)
LEMMA SpentInit ==
  ASSUME Init
  PROVE  Spent
<1>1. /\ Entries(queued) = {} /\ Mapped(pending) = {} /\ cur = None
      /\ \A r \in Requests : tries[r] = 0 /\ Attempts[r] \in Nat
  BY RequestsAssumption DEF Init, Entries, Mapped
<1> QED
  BY <1>1 DEF Spent, RetryBudget

(* Spent always holds.                                                      *)
LEMMA SpentInvariant == Spec => [](IndInv /\ Spent)
<1>1. Init => Spent
  BY SpentInit
<1>2. IndInv /\ Spent /\ [Next]_vars => Spent'
  BY SpentStep
<1> QED
  BY <1>1, <1>2, Invariant, PTL DEF Spec

(* No request is sent, or given a failed reconnect, more often than its     *)
(* retries and the first attempt allow, however dispatch_request and        *)
(* handle_connection_loss share them.                                       *)
THEOREM BudgetKept == Spec => []RetryBudget
<1>1. Spent => RetryBudget
  BY DEF Spent
<1> QED
  BY <1>1, SpentInvariant, PTL


-----------------------------------------------------------------------------
(* The in-flight counter.                                                   *)

(* The counter is the size of the map.                                      *)
Counted == in_flight = Cardinality(InMap)

(* The map is finite.                                                       *)
LEMMA MapFinite ==
  /\ IsFiniteSet(InMap) /\ Cardinality(InMap) \in Nat
  /\ \A k \in InMap : Cardinality(InMap) > 0
<1>1. IsFiniteSet(TxnIds)
  BY ParametersAssumption, FS_Interval DEF TxnIds
<1>2. InMap \in SUBSET TxnIds
  BY DEF InMap
<1>3. IsFiniteSet(InMap)
  BY <1>1, <1>2, FS_Subset
<1>4. Cardinality(InMap) \in Nat
  BY <1>3, FS_CardinalityType
<1>5. Cardinality(InMap) = 0 <=> InMap = {}
  BY <1>3, FS_EmptySet
<1> QED
  BY <1>3, <1>4, <1>5

(* Steps that touch neither keep them equal.                                *)
LEMMA CountedSame ==
  ASSUME Counted, pending' = pending, in_flight' = in_flight
  PROVE  Counted'
BY DEF Counted, InMap

(* So do those that empty both,                                             *)
LEMMA CountedEmpty ==
  ASSUME pending' = [k \in TxnIds |-> None], in_flight' = 0
  PROVE  Counted'
<1>1. InMap' = {}
  BY DEF InMap
<1> QED
  BY <1>1, FS_EmptySet DEF Counted

(* those that remove an entry,                                              *)
LEMMA CountedRemove ==
  ASSUME TypeOK, Counted, NEW k \in InMap, RemoveEntry(k)
  PROVE  Counted'
<1>1. InMap' = InMap \ {k}
  BY DEF RemoveEntry, InMap, TypeOK
<1>2. Cardinality(InMap \ {k}) = Cardinality(InMap) - 1
  BY MapFinite, FS_RemoveElement
<1>3. in_flight' = Cardinality(InMap) - 1
  BY MapFinite DEF RemoveEntry, Counted
<1> QED
  BY <1>1, <1>2, <1>3 DEF Counted

(* and a send under a free transaction id.                                  *)
LEMMA CountedAdd ==
  ASSUME TypeOK, Counted, SendOk, pending[next_txn_id] = None
  PROVE  Counted'
<1>1. cur \in Entry /\ cur # None /\ next_txn_id \in TxnIds
  BY DEF SendOk, TypeOK
<1>2. InMap' = InMap \cup {next_txn_id} /\ next_txn_id \notin InMap
  BY <1>1 DEF SendOk, InMap, TypeOK
<1>3. Cardinality(InMap \cup {next_txn_id}) = Cardinality(InMap) + 1
  BY <1>2, MapFinite, FS_AddElement
<1> QED
  BY <1>2, <1>3 DEF Counted, SendOk

(* Every step keeps the counter exact, if the id it sends under is free.    *)
LEMMA CountedStep ==
  ASSUME TypeOK, Counted, IdFree, [Next]_vars
  PROVE  Counted'
<1>1. ASSUME NEW r \in Requests, SendRequest(r) PROVE Counted'
  BY <1>1, CountedSame DEF SendRequest, taskVars
<1>2. ASSUME NEW r \in Requests, SendRequestClosed(r) PROVE Counted'
  BY <1>2, CountedSame DEF SendRequestClosed, taskVars
<1>3. ASSUME NEW r \in Requests, Timeout(r) PROVE Counted'
  BY <1>3, CountedSame DEF Timeout, taskVars
<1>4. CASE CallConnect
  BY <1>4, CountedSame DEF CallConnect, taskVars
<1>5. CASE CallDisconnect
  BY <1>5, CountedSame DEF CallDisconnect, taskVars
<1>6. CASE DropHandles
  BY <1>6, CountedSame DEF DropHandles, taskVars
<1>7. CASE FillFromBacklog
  BY <1>7, CountedSame DEF FillFromBacklog, taskVars
<1>8. CASE FillDone
  BY <1>8, CountedSame DEF FillDone, taskVars
<1>9. CASE DispatchGivesUp
  BY <1>9, CountedSame DEF DispatchGivesUp, taskVars
<1>10. CASE Reconnect
  BY <1>10, CountedSame DEF Reconnect, taskVars
<1>11. CASE ReconnectFails
  BY <1>11, CountedSame DEF ReconnectFails, taskVars
<1>12. CASE EncodeFails
  BY <1>12, CountedSame DEF EncodeFails, taskVars
<1>13. CASE SendOk
  BY <1>13, CountedAdd DEF IdFree
<1>14. CASE SendFails
  BY <1>14, CountedEmpty DEF SendFails, handle_connection_loss
<1>15. CASE HandleRequest
  BY <1>15, CountedSame DEF HandleRequest, taskVars
<1>16. CASE HandleConnect
  BY <1>16, CountedSame DEF HandleConnect, taskVars
<1>17. ASSUME NEW ok \in BOOLEAN, ConnectDone(ok) PROVE Counted'
  BY <1>17, CountedSame DEF ConnectDone, taskVars
<1>18. CASE HandleDisconnect
  BY <1>18, CountedEmpty DEF HandleDisconnect, drain_all
<1>19. CASE HandleShutdown
  BY <1>19, CountedEmpty DEF HandleShutdown, TaskEnds
<1>20. CASE ChannelClosed
  BY <1>20, CountedEmpty DEF ChannelClosed, TaskEnds
<1>21. CASE BatchDone
  BY <1>21, CountedSame DEF BatchDone, taskVars
<1>22. CASE ReceiveFails
  BY <1>22, CountedEmpty DEF ReceiveFails, handle_connection_loss
<1>23. ASSUME NEW m \in peer, process_frame(m) PROVE Counted'
  <2>1. CASE UNCHANGED <<pending, in_flight>>
    BY <2>1, CountedSame
  <2>2. CASE \E k \in InMap : RemoveEntry(k)
    BY <2>2, CountedRemove
  <2> QED
    BY <1>23, <2>1, <2>2 DEF process_frame, resolve_key
<1>24. ASSUME NEW m \in peer, ReceiveDamaged(m) PROVE Counted'
  <2>1. CASE UNCHANGED <<pending, in_flight>>
    BY <2>1, CountedSame
  <2>2. CASE \E k \in InMap : RemoveEntry(k)
    BY <2>2, CountedRemove
  <2> QED
    BY <1>24, <2>1, <2>2 DEF ReceiveDamaged, resolve_key
<1>25. CASE UNCHANGED vars
  BY <1>25, CountedSame DEF vars, taskVars, callerVars
<1> QED
  BY <1>1, <1>2, <1>3, <1>4, <1>5, <1>6, <1>7, <1>8, <1>9, <1>10, <1>11, <1>12, <1>13, <1>14,
     <1>15, <1>16, <1>17, <1>18, <1>19, <1>20, <1>21, <1>22, <1>23, <1>24, <1>25 DEF Next,
     CallerStep, TaskStep, LinkStep

(* It is exact initially.                                                   *)
LEMMA CountedInit ==
  ASSUME Init
  PROVE  Counted
<1>1. InMap = {}
  BY DEF Init, InMap
<1> QED
  BY <1>1, FS_EmptySet DEF Init, Counted

(* in_flight is the size of the pending map and at most N, as long as no    *)
(* request is sent under a transaction id that is still in the map (insert  *)
(* would then replace an entry and count twice).                            *)
THEOREM InFlightKept == Spec /\ [][IdFree]_vars => []InFlightExact
<1>1. Init => Counted
  BY CountedInit
<1>2. TypeOK /\ Counted /\ [Next]_vars /\ [IdFree]_vars => Counted'
  <2>1. CASE UNCHANGED vars
    BY <2>1, CountedSame DEF vars, taskVars
  <2>2. CASE IdFree
    BY <2>2, CountedStep
  <2> QED
    BY <2>1, <2>2
<1>3. TypeOK /\ Counted => InFlightExact
  BY ParametersAssumption DEF TypeOK, Counted, InFlightExact
<1> QED
  BY <1>1, <1>2, <1>3, TypeCorrect, PTL DEF Spec

(* Without a pipeline (N = 1, as on every serial line) that needs no        *)
(* hypothesis: a request is only sent while the map is empty.               *)
THEOREM InFlightKeptUnpipelined == ASSUME N = 1 PROVE Spec => []InFlightExact
<1>1. Init => Counted
  BY CountedInit
<1>2. TypeOK /\ HasSlot /\ Counted => IdFree
  <2> SUFFICES ASSUME TypeOK, HasSlot, Counted, SendOk PROVE pending[next_txn_id] = None
    BY DEF IdFree
  <2>1. in_flight < 1 /\ in_flight = Cardinality(InMap)
    BY DEF SendOk, HasSlot, Counted
  <2>2. next_txn_id \notin InMap
    BY <2>1, MapFinite
  <2> QED
    BY <2>2 DEF InMap, TypeOK
<1>3. TypeOK /\ HasSlot /\ Counted /\ [Next]_vars => Counted'
  BY <1>2, CountedStep
<1>4. TypeOK /\ Counted => InFlightExact
  BY ParametersAssumption DEF TypeOK, Counted, InFlightExact
<1> QED
  BY <1>1, <1>3, <1>4, TypeCorrect, PTL DEF Spec

-----------------------------------------------------------------------------
(* Responses and requests.                                                  *)

(* Replies that are the request's own, or errors, keep                      *)
(* ResponseMatchesRequest.                                                  *)
LEMMA OwnReply ==
  ASSUME TypeOK, ResponseMatchesRequest,
         \A r \in Requests : \/ replies'[r] = replies[r]
                             \/ \E x \in Result : /\ replies'[r] = Append(replies[r], x)
                                                  /\ x \in Requests => x = r
  PROVE  ResponseMatchesRequest'
<1> SUFFICES ASSUME NEW r \in Requests, NEW k \in DOMAIN replies'[r], replies'[r][k] \in Requests
             PROVE  replies'[r][k] = r
  BY DEF ResponseMatchesRequest
<1>1. replies[r] \in Seq(Result)
  BY DEF TypeOK
<1>2. CASE replies'[r] = replies[r]
  BY <1>2 DEF ResponseMatchesRequest
<1>3. ASSUME NEW x \in Result, replies'[r] = Append(replies[r], x), x \in Requests => x = r
      PROVE  replies'[r][k] = r
  <2>1. /\ Len(replies[r]) \in Nat /\ DOMAIN replies[r] = 1..Len(replies[r])
        /\ DOMAIN replies'[r] = 1..(Len(replies[r]) + 1)
        /\ \A i \in 1..Len(replies[r]) : replies'[r][i] = replies[r][i]
        /\ replies'[r][Len(replies[r]) + 1] = x
    BY <1>1, <1>3, AppendFacts
  <2>2. k \in 1..Len(replies[r]) \/ k = Len(replies[r]) + 1
    BY <2>1
  <2> QED
    BY <1>3, <2>1, <2>2 DEF ResponseMatchesRequest
<1> QED
  BY <1>2, <1>3

(* Errors are no responses.                                                 *)
LEMMA ErrorReply ==
  ASSUME TypeOK, ResponseMatchesRequest, NEW S, NEW T, S \cap T = {},
         NEW res \in {"GaveUp", "Failed"}, NEW err \in {"GaveUp", "Failed"},
         Reply2(S, res, T, err)
  PROVE  ResponseMatchesRequest'
<1>1. res \in Result /\ err \in Result /\ res \notin Requests /\ err \notin Requests
  BY ErrorsAssumption DEF Result
<1>2. \A r \in Requests : \/ replies'[r] = replies[r]
                          \/ replies'[r] = Append(replies[r], res)
                          \/ replies'[r] = Append(replies[r], err)
  <2> SUFFICES ASSUME NEW r \in Requests
               PROVE  \/ replies'[r] = replies[r]
                      \/ replies'[r] = Append(replies[r], res)
                      \/ replies'[r] = Append(replies[r], err)
    OBVIOUS
  <2>1. replies'[r] = CASE r \in S -> Append(replies[r], res)
                        [] r \in T -> Append(replies[r], err)
                        [] OTHER   -> replies[r]
    BY DEF Reply2
  <2>2. ~(r \in S /\ r \in T)
    OBVIOUS
  <2> QED
    BY <2>1, <2>2
<1> QED
  BY <1>1, <1>2, OwnReply

(* The same for one set of requests, and for none.                          *)
LEMMA ErrorReplies ==
  ASSUME TypeOK, ResponseMatchesRequest
  PROVE  /\ \A S : Reply(S, "Failed") \/ Reply(S, "GaveUp") => ResponseMatchesRequest'
         /\ replies' = replies => ResponseMatchesRequest'
<1>1. ASSUME NEW S, Reply(S, "Failed") \/ Reply(S, "GaveUp") PROVE ResponseMatchesRequest'
  BY <1>1, ErrorReply DEF Reply
<1>2. ASSUME replies' = replies PROVE ResponseMatchesRequest'
  BY <1>2 DEF ResponseMatchesRequest
<1> QED
  BY <1>1, <1>2

(* Losing responses or entries keeps the others expected.                   *)
LEMMA ExpectedKept ==
  ASSUME TypeOK, Expected, peer' \subseteq peer,
         \A k \in TxnIds : pending'[k] = pending[k] \/ pending'[k] = None
  PROVE  Expected'
BY DEF Expected, TypeOK

(* Dropping the transport adds no response.                                 *)
LEMMA PeerDropped ==
  ASSUME TransportDropped
  PROVE  peer' \subseteq peer
BY DEF TransportDropped

(* Every step keeps Expected and ResponseMatchesRequest, if the server owes *)
(* nothing under the id it sends under.                                     *)
LEMMA MatchStep ==
  ASSUME IsTcp, IndInv, Expected, ResponseMatchesRequest, IdQuiet, [Next]_vars
  PROVE  Expected' /\ ResponseMatchesRequest'
<1> USE DEF IndInv
<1>1. ASSUME NEW r \in Requests, SendRequest(r) PROVE Expected' /\ ResponseMatchesRequest'
  <2>1. Expected'
    <3>1. peer' \subseteq peer
      BY <1>1 DEF SendRequest, taskVars
    <3>2. \A k \in TxnIds : pending'[k] = pending[k] \/ pending'[k] = None
      BY <1>1 DEF SendRequest, taskVars
    <3> QED
      BY <3>1, <3>2, ExpectedKept
  <2>2. ResponseMatchesRequest'
    BY <1>1, ErrorReplies DEF SendRequest
  <2> QED
    BY <2>1, <2>2
<1>2. ASSUME NEW r \in Requests, SendRequestClosed(r) PROVE Expected' /\ ResponseMatchesRequest'
  <2>1. Expected'
    <3>1. peer' \subseteq peer
      BY <1>2 DEF SendRequestClosed, taskVars
    <3>2. \A k \in TxnIds : pending'[k] = pending[k] \/ pending'[k] = None
      BY <1>2 DEF SendRequestClosed, taskVars
    <3> QED
      BY <3>1, <3>2, ExpectedKept
  <2>2. ResponseMatchesRequest'
    BY <1>2, ErrorReplies DEF SendRequestClosed
  <2> QED
    BY <2>1, <2>2
<1>3. ASSUME NEW r \in Requests, Timeout(r) PROVE Expected' /\ ResponseMatchesRequest'
  <2>1. Expected'
    <3>1. peer' \subseteq peer
      BY <1>3 DEF Timeout, taskVars
    <3>2. \A k \in TxnIds : pending'[k] = pending[k] \/ pending'[k] = None
      BY <1>3 DEF Timeout, taskVars
    <3> QED
      BY <3>1, <3>2, ExpectedKept
  <2>2. ResponseMatchesRequest'
    BY <1>3, ErrorReplies DEF Timeout
  <2> QED
    BY <2>1, <2>2
<1>4. CASE CallConnect
  <2>1. Expected'
    <3>1. peer' \subseteq peer
      BY <1>4 DEF CallConnect, taskVars
    <3>2. \A k \in TxnIds : pending'[k] = pending[k] \/ pending'[k] = None
      BY <1>4 DEF CallConnect, taskVars
    <3> QED
      BY <3>1, <3>2, ExpectedKept
  <2>2. ResponseMatchesRequest'
    BY <1>4, ErrorReplies DEF CallConnect
  <2> QED
    BY <2>1, <2>2
<1>5. CASE CallDisconnect
  <2>1. Expected'
    <3>1. peer' \subseteq peer
      BY <1>5 DEF CallDisconnect, taskVars
    <3>2. \A k \in TxnIds : pending'[k] = pending[k] \/ pending'[k] = None
      BY <1>5 DEF CallDisconnect, taskVars
    <3> QED
      BY <3>1, <3>2, ExpectedKept
  <2>2. ResponseMatchesRequest'
    BY <1>5, ErrorReplies DEF CallDisconnect
  <2> QED
    BY <2>1, <2>2
<1>6. CASE DropHandles
  <2>1. Expected'
    <3>1. peer' \subseteq peer
      BY <1>6 DEF DropHandles, taskVars
    <3>2. \A k \in TxnIds : pending'[k] = pending[k] \/ pending'[k] = None
      BY <1>6 DEF DropHandles, taskVars
    <3> QED
      BY <3>1, <3>2, ExpectedKept
  <2>2. ResponseMatchesRequest'
    BY <1>6, ErrorReplies DEF DropHandles
  <2> QED
    BY <2>1, <2>2
<1>7. CASE FillFromBacklog
  <2>1. Expected'
    <3>1. peer' \subseteq peer
      BY <1>7 DEF FillFromBacklog
    <3>2. \A k \in TxnIds : pending'[k] = pending[k] \/ pending'[k] = None
      BY <1>7 DEF FillFromBacklog
    <3> QED
      BY <3>1, <3>2, ExpectedKept
  <2>2. ResponseMatchesRequest'
    BY <1>7, ErrorReplies DEF FillFromBacklog
  <2> QED
    BY <2>1, <2>2
<1>8. CASE FillDone
  <2>1. Expected'
    <3>1. peer' \subseteq peer
      BY <1>8 DEF FillDone
    <3>2. \A k \in TxnIds : pending'[k] = pending[k] \/ pending'[k] = None
      BY <1>8 DEF FillDone
    <3> QED
      BY <3>1, <3>2, ExpectedKept
  <2>2. ResponseMatchesRequest'
    BY <1>8, ErrorReplies DEF FillDone
  <2> QED
    BY <2>1, <2>2
<1>9. CASE DispatchGivesUp
  <2>1. Expected'
    <3>1. peer' \subseteq peer
      BY <1>9 DEF DispatchGivesUp
    <3>2. \A k \in TxnIds : pending'[k] = pending[k] \/ pending'[k] = None
      BY <1>9 DEF DispatchGivesUp
    <3> QED
      BY <3>1, <3>2, ExpectedKept
  <2>2. ResponseMatchesRequest'
    BY <1>9, ErrorReplies DEF DispatchGivesUp
  <2> QED
    BY <2>1, <2>2
<1>10. CASE Reconnect
  <2>1. Expected'
    <3>1. peer' \subseteq peer
      BY <1>10 DEF Reconnect
    <3>2. \A k \in TxnIds : pending'[k] = pending[k] \/ pending'[k] = None
      BY <1>10 DEF Reconnect
    <3> QED
      BY <3>1, <3>2, ExpectedKept
  <2>2. ResponseMatchesRequest'
    BY <1>10, ErrorReplies DEF Reconnect
  <2> QED
    BY <2>1, <2>2
<1>11. CASE ReconnectFails
  <2>1. Expected'
    <3>1. peer' \subseteq peer
      BY <1>11 DEF ReconnectFails
    <3>2. \A k \in TxnIds : pending'[k] = pending[k] \/ pending'[k] = None
      BY <1>11 DEF ReconnectFails
    <3> QED
      BY <3>1, <3>2, ExpectedKept
  <2>2. ResponseMatchesRequest'
    BY <1>11, ErrorReplies DEF ReconnectFails, NoReply
  <2> QED
    BY <2>1, <2>2
<1>12. CASE EncodeFails
  <2>1. Expected'
    <3>1. peer' \subseteq peer
      BY <1>12 DEF EncodeFails
    <3>2. \A k \in TxnIds : pending'[k] = pending[k] \/ pending'[k] = None
      BY <1>12 DEF EncodeFails
    <3> QED
      BY <3>1, <3>2, ExpectedKept
  <2>2. ResponseMatchesRequest'
    BY <1>12, ErrorReplies DEF EncodeFails
  <2> QED
    BY <2>1, <2>2
<1>13. CASE SendOk
  <2>1. Expected'
    <3>1. cur \in Entry /\ cur # None /\ next_txn_id \in TxnIds
      BY <1>13 DEF SendOk, TypeOK
    <3>2. /\ pending'[next_txn_id] = cur
          /\ \A k \in TxnIds : k # next_txn_id => pending'[k] = pending[k]
          /\ peer' = peer \cup {[txn_id |-> next_txn_id, req |-> cur.req]}
      BY <1>13, <3>1 DEF SendOk, TypeOK
    <3>3. \A m \in peer : m.txn_id # next_txn_id /\ m.txn_id \in TxnIds
      BY <1>13 DEF IdQuiet, TypeOK
    <3> QED
      BY <3>1, <3>2, <3>3 DEF Expected
  <2>2. ResponseMatchesRequest'
    BY <1>13, ErrorReplies DEF SendOk
  <2> QED
    BY <2>1, <2>2
<1>14. CASE SendFails
  <2>1. Expected'
    <3>1. peer' \subseteq peer
      BY <1>14, PeerDropped DEF SendFails
    <3>2. \A k \in TxnIds : pending'[k] = pending[k] \/ pending'[k] = None
      BY <1>14 DEF SendFails, handle_connection_loss
    <3> QED
      BY <3>1, <3>2, ExpectedKept
  <2>2. ResponseMatchesRequest'
    <3>1. GivenUp \cap {cur.req} = {}
      <4>1. GivenUp \subseteq InFlight
        BY DEF GivenUp, InFlight
      <4>2. cur # None /\ cur.req \in InHand
        BY <1>14, SpentTypes DEF SendFails, TypeOK
      <4> QED
        BY <4>1, <4>2 DEF Apart
    <3>2. Reply2(GivenUp, "GaveUp", {cur.req}, "Failed") \/ Reply(GivenUp, "GaveUp")
      BY <1>14 DEF SendFails
    <3>3. CASE Reply2(GivenUp, "GaveUp", {cur.req}, "Failed")
      BY <3>1, <3>3, ErrorReply
    <3>4. CASE Reply(GivenUp, "GaveUp")
      BY <3>4, ErrorReplies
    <3> QED
      BY <3>2, <3>3, <3>4
  <2> QED
    BY <2>1, <2>2
<1>15. CASE HandleRequest
  <2>1. Expected'
    <3>1. peer' \subseteq peer
      BY <1>15 DEF HandleRequest
    <3>2. \A k \in TxnIds : pending'[k] = pending[k] \/ pending'[k] = None
      BY <1>15 DEF HandleRequest
    <3> QED
      BY <3>1, <3>2, ExpectedKept
  <2>2. ResponseMatchesRequest'
    BY <1>15, ErrorReplies DEF HandleRequest
  <2> QED
    BY <2>1, <2>2
<1>16. CASE HandleConnect
  <2>1. Expected'
    <3>1. peer' \subseteq peer
      BY <1>16, PeerDropped DEF HandleConnect
    <3>2. \A k \in TxnIds : pending'[k] = pending[k] \/ pending'[k] = None
      BY <1>16 DEF HandleConnect
    <3> QED
      BY <3>1, <3>2, ExpectedKept
  <2>2. ResponseMatchesRequest'
    BY <1>16, ErrorReplies DEF HandleConnect
  <2> QED
    BY <2>1, <2>2
<1>17. ASSUME NEW ok \in BOOLEAN, ConnectDone(ok) PROVE Expected' /\ ResponseMatchesRequest'
  <2>1. Expected'
    <3>1. peer' \subseteq peer
      BY <1>17 DEF ConnectDone
    <3>2. \A k \in TxnIds : pending'[k] = pending[k] \/ pending'[k] = None
      BY <1>17 DEF ConnectDone
    <3> QED
      BY <3>1, <3>2, ExpectedKept
  <2>2. ResponseMatchesRequest'
    BY <1>17, ErrorReplies DEF ConnectDone
  <2> QED
    BY <2>1, <2>2
<1>18. CASE HandleDisconnect
  <2>1. Expected'
    <3>1. peer' \subseteq peer
      BY <1>18, PeerDropped DEF HandleDisconnect
    <3>2. \A k \in TxnIds : pending'[k] = pending[k] \/ pending'[k] = None
      BY <1>18 DEF HandleDisconnect, drain_all
    <3> QED
      BY <3>1, <3>2, ExpectedKept
  <2>2. ResponseMatchesRequest'
    BY <1>18, ErrorReplies DEF HandleDisconnect, drain_all
  <2> QED
    BY <2>1, <2>2
<1>19. CASE HandleShutdown
  <2>1. Expected'
    <3>1. peer' \subseteq peer
      BY <1>19, PeerDropped DEF HandleShutdown, TaskEnds
    <3>2. \A k \in TxnIds : pending'[k] = pending[k] \/ pending'[k] = None
      BY <1>19 DEF HandleShutdown, TaskEnds
    <3> QED
      BY <3>1, <3>2, ExpectedKept
  <2>2. ResponseMatchesRequest'
    BY <1>19, ErrorReplies DEF HandleShutdown
  <2> QED
    BY <2>1, <2>2
<1>20. CASE ChannelClosed
  <2>1. Expected'
    <3>1. peer' \subseteq peer
      BY <1>20, PeerDropped DEF ChannelClosed, TaskEnds
    <3>2. \A k \in TxnIds : pending'[k] = pending[k] \/ pending'[k] = None
      BY <1>20 DEF ChannelClosed, TaskEnds
    <3> QED
      BY <3>1, <3>2, ExpectedKept
  <2>2. ResponseMatchesRequest'
    BY <1>20, ErrorReplies DEF ChannelClosed
  <2> QED
    BY <2>1, <2>2
<1>21. CASE BatchDone
  <2>1. Expected'
    <3>1. peer' \subseteq peer
      BY <1>21 DEF BatchDone
    <3>2. \A k \in TxnIds : pending'[k] = pending[k] \/ pending'[k] = None
      BY <1>21 DEF BatchDone
    <3> QED
      BY <3>1, <3>2, ExpectedKept
  <2>2. ResponseMatchesRequest'
    BY <1>21, ErrorReplies DEF BatchDone
  <2> QED
    BY <2>1, <2>2
<1>22. CASE ReceiveFails
  <2>1. Expected'
    <3>1. peer' \subseteq peer
      BY <1>22, PeerDropped DEF ReceiveFails
    <3>2. \A k \in TxnIds : pending'[k] = pending[k] \/ pending'[k] = None
      BY <1>22 DEF ReceiveFails, handle_connection_loss
    <3> QED
      BY <3>1, <3>2, ExpectedKept
  <2>2. ResponseMatchesRequest'
    BY <1>22, ErrorReplies DEF ReceiveFails
  <2> QED
    BY <2>1, <2>2
<1>23. ASSUME NEW m \in peer, process_frame(m) PROVE Expected' /\ ResponseMatchesRequest'
  <2>1. Expected'
    <3>1. peer' \subseteq peer
      BY <1>23 DEF process_frame
    <3>2. \A k \in TxnIds : pending'[k] = pending[k] \/ pending'[k] = None
      <4>1. pending' = pending \/ \E j \in TxnIds : pending' = [pending EXCEPT ![j] = None]
        BY <1>23 DEF process_frame, RemoveEntry, resolve_key, InMap
      <4> QED
        BY <4>1 DEF TypeOK
    <3> QED
      BY <3>1, <3>2, ExpectedKept
  <2>2. ResponseMatchesRequest'
    <3>1. CASE NoReply
      BY <3>1, ErrorReplies DEF NoReply
    <3>2. ASSUME NEW k \in InMap \cap {m.txn_id}, Reply({pending[k].req}, m.req)
          PROVE  ResponseMatchesRequest'
      <4>1. pending[k].req = m.req /\ m.req \in Requests
        BY <3>2 DEF Expected, InMap, TypeOK
      <4>2. \A r \in Requests : replies'[r] = IF r = m.req THEN Append(replies[r], m.req) ELSE replies[r]
        BY <3>2, <4>1 DEF Reply, Reply2
      <4>3. m.req \in Result
        BY <4>1 DEF Result
      <4> QED
        BY <4>2, <4>3, OwnReply
    <3> QED
      BY <1>23, <3>1, <3>2 DEF process_frame, resolve_key
  <2> QED
    BY <2>1, <2>2
<1>24. ASSUME NEW m \in peer, ReceiveDamaged(m) PROVE Expected' /\ ResponseMatchesRequest'
  <2>1. Expected'
    <3>1. peer' \subseteq peer
      BY <1>24 DEF ReceiveDamaged
    <3>2. \A k \in TxnIds : pending'[k] = pending[k] \/ pending'[k] = None
      <4>1. pending' = pending \/ \E j \in TxnIds : pending' = [pending EXCEPT ![j] = None]
        BY <1>24 DEF ReceiveDamaged, RemoveEntry, resolve_key, InMap
      <4> QED
        BY <4>1 DEF TypeOK
    <3> QED
      BY <3>1, <3>2, ExpectedKept
  <2>2. ResponseMatchesRequest'
    BY <1>24, ErrorReplies DEF ReceiveDamaged, NoReply
  <2> QED
    BY <2>1, <2>2
<1>25. CASE UNCHANGED vars
  <2>1. Expected'
    <3>1. peer' \subseteq peer
      BY <1>25 DEF vars, taskVars, callerVars
    <3>2. \A k \in TxnIds : pending'[k] = pending[k] \/ pending'[k] = None
      BY <1>25 DEF vars, taskVars, callerVars
    <3> QED
      BY <3>1, <3>2, ExpectedKept
  <2>2. ResponseMatchesRequest'
    BY <1>25, ErrorReplies DEF vars
  <2> QED
    BY <2>1, <2>2
<1> QED
  BY <1>1, <1>2, <1>3, <1>4, <1>5, <1>6, <1>7, <1>8, <1>9, <1>10, <1>11, <1>12, <1>13, <1>14,
     <1>15, <1>16, <1>17, <1>18, <1>19, <1>20, <1>21, <1>22, <1>23, <1>24, <1>25 DEF Next,
     CallerStep, TaskStep, LinkStep

(* On TCP a request is only ever answered by the server's response to it,   *)
(* as long as no request is sent under a transaction id under which the     *)
(* server still owes a response on the same connection.                     *)
THEOREM ResponsesMatch ==
  ASSUME IsTcp
  PROVE  Spec /\ [][IdQuiet]_vars => []ResponseMatchesRequest
<1> DEFINE Inv == Expected /\ ResponseMatchesRequest
<1>1. Init => Inv
  BY DEF Init, Expected, ResponseMatchesRequest
<1>2. IndInv /\ Inv /\ [Next]_vars /\ [IdQuiet]_vars => Inv'
  <2>1. CASE UNCHANGED vars
    BY <2>1 DEF vars, taskVars, Expected, ResponseMatchesRequest
  <2>2. CASE IdQuiet
    BY <2>2, MatchStep
  <2> QED
    BY <2>1, <2>2
<1>3. Inv => ResponseMatchesRequest
  OBVIOUS
<1> QED
  BY <1>1, <1>2, <1>3, Invariant, PTL DEF Spec


-----------------------------------------------------------------------------
(* The order of first tries.                                                *)

(* The order of a channel, after a command was added or taken.              *)
LEMMA ChannelSortedFacts ==
  ASSUME NEW s \in Seq(Command), ChannelSorted(s)
  PROVE  /\ \A c \in Command : c.op # "Request" => ChannelSorted(Append(s, c))
         /\ s # <<>> => /\ ChannelSorted(Tail(s))
                        /\ Head(s).op = "Request" =>
                             \A q \in ReqsIn(Tail(s)) : ~Before(q, Head(s).req)
<1>1. Len(s) \in Nat /\ DOMAIN s = 1..Len(s)
  BY LenProperties
<1>2. ASSUME NEW c \in Command, c.op # "Request" PROVE ChannelSorted(Append(s, c))
  <2> DEFINE t == Append(s, c)
  <2>1. /\ DOMAIN t = 1..(Len(s) + 1)
        /\ \A k \in 1..Len(s) : t[k] = s[k]
        /\ t[Len(s) + 1] = c
    BY AppendFacts
  <2> HIDE DEF t
  <2>2. \A k \in DOMAIN t : t[k].op = "Request" => k \in DOMAIN s /\ t[k] = s[k]
    BY <1>1, <1>2, <2>1
  <2>3. ChannelSorted(t)
    BY <2>2 DEF ChannelSorted
  <2> QED
    BY <2>3 DEF t
<1>3. ASSUME s # <<>>
      PROVE  /\ ChannelSorted(Tail(s))
             /\ Head(s).op = "Request" => \A q \in ReqsIn(Tail(s)) : ~Before(q, Head(s).req)
  <2> DEFINE t == Tail(s)
  <2>1. /\ Head(s) = s[1] /\ 1 \in DOMAIN s
        /\ DOMAIN t = 1..(Len(s) - 1)
        /\ \A k \in 1..(Len(s) - 1) : t[k] = s[k + 1]
    BY <1>3, TailFacts
  <2> HIDE DEF t
  <2>2. \A k \in DOMAIN t : /\ k \in Int /\ k + 1 \in DOMAIN s /\ 1 < k + 1 /\ t[k] = s[k + 1]
    BY <1>1, <2>1
  <2>3. ChannelSorted(t)
    <3> SUFFICES ASSUME NEW i \in DOMAIN t, NEW j \in DOMAIN t, i < j,
                        t[i].op = "Request", t[j].op = "Request"
                 PROVE  ~Before(t[j].req, t[i].req)
      BY DEF ChannelSorted
    <3>1. i + 1 < j + 1
      BY <2>2
    <3> QED
      BY <2>2, <3>1 DEF ChannelSorted
  <2>4. ASSUME s[1].op = "Request", NEW q \in ReqsIn(t) PROVE ~Before(q, s[1].req)
    <3>1. PICK k \in DOMAIN t : t[k].op = "Request" /\ q = t[k].req
      BY DEF ReqsIn
    <3> QED
      BY <2>1, <2>2, <2>4, <3>1 DEF ChannelSorted
  <2> QED
    BY <2>1, <2>3, <2>4 DEF t
<1> QED
  BY <1>2, <1>3

(* The order of a backlog, after its head was taken, a later request added, *)
(* or tried ones put in front.                                              *)
LEMMA BacklogSortedFacts ==
  ASSUME NEW s \in Seq(Entry), BacklogSorted(s)
  PROVE  /\ s # <<>> => /\ BacklogSorted(Tail(s))
                        /\ Untried(Head(s).req) =>
                             \A q \in EntriesIn(Tail(s)) : Untried(q) => ~Before(q, Head(s).req)
         /\ \A e \in Entry : (\A r \in EntriesIn(s) : Untried(r) => ~Before(e.req, r))
                               => BacklogSorted(Append(s, e))
         /\ \A p \in Seq(Entry) : (\A r \in EntriesIn(p) : ~Untried(r)) => BacklogSorted(p \o s)
<1>1. Len(s) \in Nat /\ DOMAIN s = 1..Len(s)
  BY LenProperties
<1>2. ASSUME s # <<>>
      PROVE  /\ BacklogSorted(Tail(s))
             /\ Untried(Head(s).req) =>
                  \A q \in EntriesIn(Tail(s)) : Untried(q) => ~Before(q, Head(s).req)
  <2> DEFINE t == Tail(s)
  <2>1. /\ Head(s) = s[1] /\ 1 \in DOMAIN s
        /\ DOMAIN t = 1..(Len(s) - 1)
        /\ \A k \in 1..(Len(s) - 1) : t[k] = s[k + 1]
    BY <1>2, TailFacts
  <2> HIDE DEF t
  <2>2. \A k \in DOMAIN t : /\ k \in Int /\ k + 1 \in DOMAIN s /\ 1 < k + 1 /\ t[k] = s[k + 1]
    BY <1>1, <2>1
  <2>3. BacklogSorted(t)
    <3> SUFFICES ASSUME NEW i \in DOMAIN t, NEW j \in DOMAIN t, i < j,
                        Untried(t[i].req), Untried(t[j].req)
                 PROVE  ~Before(t[j].req, t[i].req)
      BY DEF BacklogSorted
    <3>1. i + 1 < j + 1
      BY <2>2
    <3> QED
      BY <2>2, <3>1 DEF BacklogSorted
  <2>4. ASSUME Untried(s[1].req), NEW q \in EntriesIn(t), Untried(q) PROVE ~Before(q, s[1].req)
    <3>1. PICK k \in DOMAIN t : q = t[k].req
      BY DEF EntriesIn
    <3> QED
      BY <2>1, <2>2, <2>4, <3>1 DEF BacklogSorted
  <2> QED
    BY <2>1, <2>3, <2>4 DEF t
<1>3. ASSUME NEW e \in Entry, \A r \in EntriesIn(s) : Untried(r) => ~Before(e.req, r)
      PROVE  BacklogSorted(Append(s, e))
  <2> DEFINE t == Append(s, e)
  <2>1. /\ DOMAIN t = 1..(Len(s) + 1)
        /\ \A k \in 1..Len(s) : t[k] = s[k]
        /\ t[Len(s) + 1] = e
    BY AppendFacts
  <2> HIDE DEF t
  <2> SUFFICES ASSUME NEW i \in DOMAIN t, NEW j \in DOMAIN t, i < j,
                      Untried(t[i].req), Untried(t[j].req)
               PROVE  ~Before(t[j].req, t[i].req)
    BY DEF BacklogSorted, t
  <2>2. i \in DOMAIN s /\ t[i] = s[i] /\ s[i].req \in EntriesIn(s)
    BY <1>1, <2>1 DEF EntriesIn
  <2>3. (j \in DOMAIN s /\ t[j] = s[j]) \/ t[j] = e
    BY <1>1, <2>1
  <2> QED
    BY <1>3, <2>2, <2>3 DEF BacklogSorted
<1>4. ASSUME NEW p \in Seq(Entry), \A r \in EntriesIn(p) : ~Untried(r)
      PROVE  BacklogSorted(p \o s)
  <2> DEFINE t == p \o s
  <2>1. /\ Len(p) \in Nat /\ DOMAIN p = 1..Len(p)
        /\ DOMAIN t = 1..(Len(p) + Len(s))
        /\ \A i \in 1..Len(p) : t[i] = p[i]
        /\ \A i \in 1..Len(s) : t[Len(p) + i] = s[i]
    BY ConcatFacts
  <2> HIDE DEF t
  <2>2. \A i \in DOMAIN t : Untried(t[i].req) => i - Len(p) \in DOMAIN s /\ t[i] = s[i - Len(p)]
    <3> SUFFICES ASSUME NEW i \in DOMAIN t, Untried(t[i].req)
                 PROVE  i - Len(p) \in DOMAIN s /\ t[i] = s[i - Len(p)]
      OBVIOUS
    <3>1. i \notin DOMAIN p
      BY <1>4, <2>1 DEF EntriesIn
    <3>2. i - Len(p) \in 1..Len(s) /\ Len(p) + (i - Len(p)) = i
      BY <1>1, <2>1, <3>1
    <3> QED
      BY <1>1, <2>1, <3>2
  <2> SUFFICES ASSUME NEW i \in DOMAIN t, NEW j \in DOMAIN t, i < j,
                      Untried(t[i].req), Untried(t[j].req)
               PROVE  ~Before(t[j].req, t[i].req)
    BY DEF BacklogSorted, t
  <2>3. i - Len(p) < j - Len(p)
    BY <1>1, <2>1
  <2> QED
    BY <2>2, <2>3 DEF BacklogSorted
<1> QED
  BY <1>2, <1>3, <1>4

(* No step makes a request untried again.                                   *)
LEMMA UntriedShrinks ==
  ASSUME TypeOK, Moved, tries' = tries \/ Spend(cur.req), cur # None \/ tries' = tries
  PROVE  \A r \in Requests : Untried(r)' => Untried(r)
<1> SUFFICES ASSUME NEW r \in Requests, tries'[r] = 0, replies'[r] = <<>>
             PROVE  tries[r] = 0 /\ replies[r] = <<>>
  BY DEF Untried
<1>1. tries[r] = 0
  BY DEF Spend, TypeOK
<1>2. replies[r] \in Seq(Result)
  BY DEF TypeOK
<1>3. CASE \E q \in Requests : Submits(q) \/ Refuses(q)
  BY <1>1, <1>3 DEF Submits, Refuses
<1>4. CASE \E R \in SUBSET Kept : Answers(R)
  <2>1. \A x \in Result : Append(replies[r], x) # <<>>
    BY <1>2, AppendFacts
  <2> QED
    BY <1>1, <1>4, <2>1 DEF Answers, Answered
<1> QED
  BY <1>3, <1>4 DEF Moved

(* Steps that submit nothing keep the order if what is untried is in order  *)
(* afterwards.                                                              *)
LEMMA OrderKept ==
  ASSUME TypeOK', asked' = asked, InOrder,
         \A r \in Requests : Taken(r) => Taken(r)',
         \A r \in Requests : Untried(r)' => Untried(r),
         \A r \in InHand', q \in Backlog' \cup InChannel' :
           Untried(r) /\ Untried(q) => ~Before(q, r),
         \A r \in Backlog', q \in InChannel' : Untried(r) => ~Before(q, r),
         BacklogSorted(queued'), ChannelSorted(cmd'),
         StraightThrough' => \A r \in Backlog' : ~Untried(r)
  PROVE  InOrder'
<1>1. \A a, b : Before(a, b)' <=> Before(a, b)
  BY DEF Before
<1>2. /\ InHand' \subseteq Requests /\ Backlog' \subseteq Requests /\ InChannel' \subseteq Requests
      /\ \A k \in DOMAIN queued' : queued'[k].req \in Requests
      /\ asked \in Seq(Requests)
  <2>1. /\ cur' \in Entry \cup {None} /\ queued' \in Seq(Entry) /\ cmd' \in Seq(Command)
        /\ asked \in Seq(Requests)
    BY DEF TypeOK
  <2>2. /\ \A k \in DOMAIN queued' : queued'[k] \in Entry
        /\ \A k \in DOMAIN cmd' : cmd'[k] \in Command
    BY <2>1, ElementOfSeq, LenProperties
  <2>3. /\ \A e \in Entry : e.req \in Requests
        /\ \A c \in Command : c.op = "Request" => c.req \in Requests
    BY DEF Entry, Command
  <2> QED
    BY <2>1, <2>2, <2>3 DEF InHand, Backlog, InChannel
<1>3. \A i \in DOMAIN asked : asked[i] \in Requests
  BY <1>2, ElementOfSeq, LenProperties
<1>4. Submitted'
  BY <1>3 DEF InOrder, Submitted
<1>5. HandFirst' /\ BacklogFirst'
  BY <1>1, <1>2 DEF HandFirst, BacklogFirst
<1>6. BacklogSorted(queued)' /\ ChannelSorted(cmd)'
  BY <1>1, <1>2 DEF BacklogSorted, ChannelSorted
<1>7. BacklogTried'
  BY <1>2 DEF BacklogTried
<1> QED
  BY <1>4, <1>5, <1>6, <1>7 DEF InOrder

(* They keep FirstTryInOrder: what is tried is in hand, and nothing untried *)
(* was submitted before it.                                                 *)
LEMMA FirstTryKept ==
  ASSUME IndInv, Spent, InOrder, FirstTryInOrder, asked' = asked,
         \A r \in Requests : Untried(r)' => Untried(r),
         tries' = tries \/ Spend(cur.req), cur # None \/ tries' = tries
  PROVE  FirstTryInOrder'
<1> USE DEF IndInv
<1> SUFFICES ASSUME NEW i \in DOMAIN asked, NEW j \in DOMAIN asked, i < j,
                    tries'[asked[j]] > 0, tries'[asked[i]] = 0, replies'[asked[i]] = <<>>
             PROVE  FALSE
  <2>1. \A k \in DOMAIN asked : asked[k] \in Requests
    BY ElementOfSeq, LenProperties DEF TypeOK
  <2>2. \A r \in Requests : tries'[r] \in Nat
    BY DEF Spend, TypeOK
  <2> QED
    BY <2>1, <2>2 DEF FirstTryInOrder
<1>1. asked[i] \in Requests /\ asked[j] \in Requests
  BY ElementOfSeq, LenProperties DEF TypeOK
<1>2. Untried(asked[i])
  BY <1>1 DEF Untried
<1>3. tries[asked[j]] \in Nat /\ tries[asked[i]] \in Nat
  BY <1>1 DEF TypeOK
<1>4. ~(tries[asked[j]] > 0)
  BY <1>2 DEF FirstTryInOrder, Untried
<1>5. tries' # tries /\ Spend(cur.req) /\ cur # None
  BY <1>4
<1>6. cur.req \in Requests /\ cur.req \in InHand
  BY <1>5, SpentTypes
<1>7. cur.req = asked[j]
  BY <1>1, <1>4, <1>5, <1>6 DEF Spend, TypeOK
<1>8. Untried(cur.req)
  BY <1>3, <1>4, <1>6, <1>7 DEF Untried, Settled, Kept
<1>9. asked[i] \in Kept /\ asked[i] # asked[j]
  <2>1. Taken(asked[i]) /\ asked[i] # asked[j]
    <3>1. i # j
      BY LenProperties DEF TypeOK
    <3> QED
      BY <3>1 DEF InOrder, Submitted
  <2> QED
    BY <1>1, <1>2, <2>1 DEF Settled, Untried
<1>10. asked[i] \notin InHand
  BY <1>5, <1>7, <1>9 DEF InHand
<1>11. asked[i] \notin InFlight
  <2>1. \A k \in InMap : tries[pending[k].req] > 0
    BY SpentTypes DEF Spent, Charged
  <2> QED
    BY <1>2, <1>3, <2>1 DEF InFlight, Untried
<1>12. asked[i] \in Backlog \cup InChannel
  BY <1>9, <1>10, <1>11 DEF Kept
<1>13. ~Before(asked[i], asked[j])
  BY <1>2, <1>6, <1>7, <1>8, <1>12 DEF InOrder, HandFirst
<1> QED
  BY <1>13 DEF Before

(* A new request is the last in the order of submission, and in the         *)
(* channel.                                                                 *)
LEMMA SubmitInOrder ==
  ASSUME IndInv, Spent, InOrder, FirstTryInOrder, NEW r \in Requests, SendRequest(r)
  PROVE  InOrder' /\ FirstTryInOrder'
<1> USE DEF IndInv
<1>1. /\ asked' = Append(asked, r) /\ cmd' = Append(cmd, Req(r))
      /\ outcome[r] = "idle" /\ outcome' = [outcome EXCEPT ![r] = "waiting"]
      /\ UNCHANGED <<queued, cur, pending, pc, back, in_flight, tries, replies>>
  BY DEF SendRequest, taskVars
<1>2. asked \in Seq(Requests) /\ cmd \in Seq(Command)
  BY DEF TypeOK
<1>3. /\ Len(asked) \in Nat /\ DOMAIN asked = 1..Len(asked)
      /\ DOMAIN asked' = 1..(Len(asked) + 1)
      /\ \A k \in 1..Len(asked) : asked'[k] = asked[k] /\ asked[k] \in Requests
      /\ asked'[Len(asked) + 1] = r
  BY <1>1, <1>2, AppendFacts, ElementOfSeq
<1>4. \A k \in DOMAIN asked : asked[k] # r /\ Taken(asked[k]) /\ asked[k] \in Requests
  BY <1>1, <1>3 DEF InOrder, Submitted, Taken
<1>5. r \notin Kept
  BY <1>1 DEF Settled, Taken
<1>6. ASSUME NEW a, NEW b, b # r, Before(a, b)' PROVE Before(a, b) /\ a # r
  <2>1. PICK i \in DOMAIN asked' : \E j \in DOMAIN asked' : i < j /\ asked'[i] = a /\ asked'[j] = b
    BY <1>6 DEF Before
  <2>2. PICK j \in DOMAIN asked' : i < j /\ asked'[i] = a /\ asked'[j] = b
    BY <2>1
  <2>3. j \in DOMAIN asked /\ i \in DOMAIN asked
    BY <1>3, <1>6, <2>2
  <2> QED
    BY <1>3, <1>4, <2>2, <2>3 DEF Before
<1>7. Submitted'
  <2>1. \A i \in DOMAIN asked' : outcome'[asked'[i]] \notin {"idle", "refused"}
    <3> SUFFICES ASSUME NEW i \in DOMAIN asked' PROVE outcome'[asked'[i]] \notin {"idle", "refused"}
      OBVIOUS
    <3>1. CASE i = Len(asked) + 1
      BY <1>1, <1>3, <3>1 DEF TypeOK
    <3>2. CASE i \in DOMAIN asked
      BY <1>1, <1>3, <1>4, <3>2 DEF TypeOK, Taken
    <3> QED
      BY <1>3, <3>1, <3>2
  <2>2. \A i, j \in DOMAIN asked' : asked'[i] = asked'[j] => i = j
    <3> SUFFICES ASSUME NEW i \in DOMAIN asked', NEW j \in DOMAIN asked', asked'[i] = asked'[j]
                 PROVE  i = j
      OBVIOUS
    <3>1. (i \in DOMAIN asked \/ i = Len(asked) + 1) /\ (j \in DOMAIN asked \/ j = Len(asked) + 1)
      BY <1>3
    <3> QED
      BY <1>3, <1>4, <3>1 DEF InOrder, Submitted
  <2> QED
    BY <2>1, <2>2 DEF Submitted, Taken
<1>8. /\ InHand' = InHand /\ Backlog' = Backlog /\ InChannel' = InChannel \cup {r}
      /\ r \notin InHand /\ r \notin Backlog /\ r \notin InChannel
  BY <1>1, <1>2, <1>5, ViewFacts, ChannelFacts DEF Kept
<1>9. \A q : Untried(q)' <=> Untried(q)
  BY <1>1 DEF Untried
<1>10. HandFirst'
  <2> SUFFICES ASSUME NEW x \in InHand, NEW q \in Backlog \cup InChannel \cup {r},
                      Untried(x), Untried(q), Before(q, x)'
               PROVE  FALSE
    BY <1>8, <1>9 DEF HandFirst
  <2>1. Before(q, x) /\ q # r
    BY <1>6, <1>8
  <2> QED
    BY <2>1 DEF InOrder, HandFirst
<1>11. BacklogFirst'
  <2> SUFFICES ASSUME NEW x \in Backlog, NEW q \in InChannel \cup {r}, Untried(x), Before(q, x)'
               PROVE  FALSE
    BY <1>8, <1>9 DEF BacklogFirst
  <2>1. Before(q, x) /\ q # r
    BY <1>6, <1>8
  <2> QED
    BY <2>1 DEF InOrder, BacklogFirst
<1>12. BacklogSorted(queued)'
  <2> SUFFICES ASSUME NEW i \in DOMAIN queued, NEW j \in DOMAIN queued, i < j,
                      Untried(queued[i].req), Untried(queued[j].req), NEW a, NEW b,
                      a = queued[j].req, b = queued[i].req, Before(a, b)'
               PROVE  FALSE
    BY <1>1, <1>9 DEF BacklogSorted
  <2>1. b # r
    BY <1>8 DEF Backlog
  <2>2. Before(a, b)
    BY <1>6, <2>1
  <2> QED
    BY <2>2 DEF InOrder, BacklogSorted
<1>13. ChannelSorted(cmd)'
  <2>1. /\ Len(cmd) \in Nat /\ DOMAIN cmd = 1..Len(cmd)
        /\ DOMAIN cmd' = 1..(Len(cmd) + 1)
        /\ \A k \in 1..Len(cmd) : cmd'[k] = cmd[k]
        /\ cmd'[Len(cmd) + 1] = Req(r) /\ Req(r).req = r
    BY <1>1, <1>2, AppendFacts, CommandTypes DEF Req
  <2> SUFFICES ASSUME NEW i \in DOMAIN cmd', NEW j \in DOMAIN cmd', i < j,
                      cmd'[i].op = "Request", cmd'[j].op = "Request", NEW a, NEW b,
                      a = cmd'[j].req, b = cmd'[i].req, Before(a, b)'
               PROVE  FALSE
    BY DEF ChannelSorted
  <2>2. i \in DOMAIN cmd /\ cmd'[i] = cmd[i]
    BY <2>1
  <2>3. b # r
    BY <1>8, <2>2 DEF InChannel
  <2>4. Before(a, b) /\ a # r
    BY <1>6, <2>3
  <2>5. j \in DOMAIN cmd /\ cmd'[j] = cmd[j]
    BY <2>1, <2>4
  <2> QED
    BY <2>2, <2>4, <2>5 DEF InOrder, ChannelSorted
<1>14. BacklogTried'
  BY <1>1, <1>8, <1>9 DEF InOrder, BacklogTried, StraightThrough
<1>15. FirstTryInOrder'
  <2> SUFFICES ASSUME NEW i \in DOMAIN asked', NEW j \in DOMAIN asked', i < j, tries[asked'[j]] > 0
               PROVE  tries[asked'[i]] > 0 \/ replies[asked'[i]] # <<>>
    BY <1>1 DEF FirstTryInOrder
  <2>1. tries[r] = 0
    BY <1>1 DEF Spent
  <2>2. j \in DOMAIN asked
    BY <1>3, <2>1
  <2>3. i \in DOMAIN asked
    BY <1>3, <2>2
  <2> QED
    BY <1>3, <2>2, <2>3 DEF FirstTryInOrder
<1> QED
  BY <1>7, <1>10, <1>11, <1>12, <1>13, <1>14, <1>15 DEF InOrder

(* What is put back has been tried.                                         *)
LEMMA RequeuedTried ==
  ASSUME TypeOK, Spent
  PROVE  \A r \in EntriesIn(Requeued) : ~Untried(r)
<1>1. \A i \in DOMAIN Requeued : tries[Requeued[i].req] > 0
  BY RequeuedFunded DEF Entries
<1> QED
  BY <1>1 DEF EntriesIn, Untried

(* The backlog stays in order when entries are put back in front of it.     *)
LEMMA LossInOrder ==
  ASSUME TypeOK, Spent, Once, InOrder, handle_connection_loss
  PROVE  /\ BacklogSorted(queued')
         /\ \A r \in Backlog' : Untried(r) => r \in Backlog
<1>1. queued' = Requeued \o queued /\ Requeued \in Seq(Entry) /\ queued \in Seq(Entry)
  BY RequeuedFacts DEF handle_connection_loss, TypeOK
<1>2. Backlog' = EntriesIn(Requeued) \cup Backlog
  BY <1>1, JoinFacts, ViewFacts
<1> QED
  BY <1>1, <1>2, RequeuedTried, BacklogSortedFacts DEF InOrder

(* Every step keeps the order.                                              *)
LEMMA OrderStep ==
  ASSUME IndInv, IndInv', Spent, InOrder, FirstTryInOrder, [Next]_vars
  PROVE  InOrder' /\ FirstTryInOrder'
<1> USE DEF IndInv
<1>0. Moved /\ \A q \in Requests : Taken(q) => Taken(q)'
  <2>1. Moved
    BY PlacedStep
  <2>2. CASE \E q \in Requests : Submits(q) \/ Refuses(q)
    BY <2>1, <2>2 DEF Submits, Refuses, Taken, TypeOK
  <2>3. CASE \E R \in SUBSET Kept : Answers(R)
    BY <2>1, <2>3 DEF Answers, Answered, Taken
  <2> QED
    BY <2>1, <2>2, <2>3 DEF Moved
<1>1. ASSUME NEW r \in Requests, SendRequest(r) PROVE InOrder' /\ FirstTryInOrder'
  BY <1>1, SubmitInOrder
<1>2. ASSUME NEW r \in Requests, SendRequestClosed(r) PROVE InOrder' /\ FirstTryInOrder'
  <2>1. asked' = asked
    BY <1>2 DEF SendRequestClosed, callerVars, TaskEnds
  <2>2. (tries' = tries \/ Spend(cur.req)) /\ (cur # None \/ tries' = tries)
    BY <1>2 DEF SendRequestClosed, TaskEnds, TypeOK
  <2>3. \A q \in Requests : Untried(q)' => Untried(q)
    BY <1>0, <2>2, UntriedShrinks
  <2>9. InChannel' = InChannel /\ Backlog' = Backlog /\ InHand' = InHand
    BY <1>2, ViewFacts DEF SendRequestClosed, taskVars, callerVars
  <2>4. \A x \in InHand', q \in Backlog' \cup InChannel' : Untried(x) /\ Untried(q) => ~Before(q, x)
    BY <2>9 DEF InOrder, HandFirst
  <2>5. \A x \in Backlog', q \in InChannel' : Untried(x) => ~Before(q, x)
    BY <2>9 DEF InOrder, BacklogFirst
  <2>6. BacklogSorted(queued')
    BY <1>2 DEF InOrder, SendRequestClosed, taskVars, callerVars
  <2>7. ChannelSorted(cmd')
    BY <1>2 DEF InOrder, SendRequestClosed, taskVars, callerVars
  <2>8. StraightThrough' => \A x \in Backlog' : ~Untried(x)
    BY <1>2, <2>9 DEF InOrder, BacklogTried, StraightThrough, SendRequestClosed, taskVars, callerVars
  <2> QED
    BY <1>0, <2>1, <2>2, <2>3, <2>4, <2>5, <2>6, <2>7, <2>8, OrderKept, FirstTryKept
<1>3. ASSUME NEW r \in Requests, Timeout(r) PROVE InOrder' /\ FirstTryInOrder'
  <2>1. asked' = asked
    BY <1>3 DEF Timeout, callerVars, TaskEnds
  <2>2. (tries' = tries \/ Spend(cur.req)) /\ (cur # None \/ tries' = tries)
    BY <1>3 DEF Timeout, TaskEnds, TypeOK
  <2>3. \A q \in Requests : Untried(q)' => Untried(q)
    BY <1>0, <2>2, UntriedShrinks
  <2>9. InChannel' = InChannel /\ Backlog' = Backlog /\ InHand' = InHand
    BY <1>3, ViewFacts, ChannelFacts, CommandTypes DEF Timeout, taskVars, callerVars, Cmd, TypeOK
  <2>4. \A x \in InHand', q \in Backlog' \cup InChannel' : Untried(x) /\ Untried(q) => ~Before(q, x)
    BY <2>9 DEF InOrder, HandFirst
  <2>5. \A x \in Backlog', q \in InChannel' : Untried(x) => ~Before(q, x)
    BY <2>9 DEF InOrder, BacklogFirst
  <2>6. BacklogSorted(queued')
    BY <1>3 DEF InOrder, Timeout, taskVars, callerVars
  <2>7. ChannelSorted(cmd')
    BY <1>3, ChannelSortedFacts, CommandTypes DEF InOrder, Timeout, Cmd, TypeOK
  <2>8. StraightThrough' => \A x \in Backlog' : ~Untried(x)
    BY <1>3, <2>9 DEF InOrder, BacklogTried, StraightThrough, Timeout, taskVars, callerVars
  <2> QED
    BY <1>0, <2>1, <2>2, <2>3, <2>4, <2>5, <2>6, <2>7, <2>8, OrderKept, FirstTryKept
<1>4. CASE CallConnect
  <2>1. asked' = asked
    BY <1>4 DEF CallConnect, callerVars, TaskEnds
  <2>2. (tries' = tries \/ Spend(cur.req)) /\ (cur # None \/ tries' = tries)
    BY <1>4 DEF CallConnect, TaskEnds, TypeOK
  <2>3. \A q \in Requests : Untried(q)' => Untried(q)
    BY <1>0, <2>2, UntriedShrinks
  <2>9. InChannel' = InChannel /\ Backlog' = Backlog /\ InHand' = InHand
    BY <1>4, ViewFacts, ChannelFacts, CommandTypes DEF CallConnect, taskVars, callerVars, Cmd, TypeOK
  <2>4. \A r \in InHand', q \in Backlog' \cup InChannel' : Untried(r) /\ Untried(q) => ~Before(q, r)
    BY <2>9 DEF InOrder, HandFirst
  <2>5. \A r \in Backlog', q \in InChannel' : Untried(r) => ~Before(q, r)
    BY <2>9 DEF InOrder, BacklogFirst
  <2>6. BacklogSorted(queued')
    BY <1>4 DEF InOrder, CallConnect, taskVars, callerVars
  <2>7. ChannelSorted(cmd')
    BY <1>4, ChannelSortedFacts, CommandTypes DEF InOrder, CallConnect, Cmd, TypeOK
  <2>8. StraightThrough' => \A r \in Backlog' : ~Untried(r)
    BY <1>4, <2>9 DEF InOrder, BacklogTried, StraightThrough, CallConnect, taskVars, callerVars
  <2> QED
    BY <1>0, <2>1, <2>2, <2>3, <2>4, <2>5, <2>6, <2>7, <2>8, OrderKept, FirstTryKept
<1>5. CASE CallDisconnect
  <2>1. asked' = asked
    BY <1>5 DEF CallDisconnect, callerVars, TaskEnds
  <2>2. (tries' = tries \/ Spend(cur.req)) /\ (cur # None \/ tries' = tries)
    BY <1>5 DEF CallDisconnect, TaskEnds, TypeOK
  <2>3. \A q \in Requests : Untried(q)' => Untried(q)
    BY <1>0, <2>2, UntriedShrinks
  <2>9. InChannel' = InChannel /\ Backlog' = Backlog /\ InHand' = InHand
    BY <1>5, ViewFacts, ChannelFacts, CommandTypes DEF CallDisconnect, taskVars, callerVars, Cmd, TypeOK
  <2>4. \A r \in InHand', q \in Backlog' \cup InChannel' : Untried(r) /\ Untried(q) => ~Before(q, r)
    BY <2>9 DEF InOrder, HandFirst
  <2>5. \A r \in Backlog', q \in InChannel' : Untried(r) => ~Before(q, r)
    BY <2>9 DEF InOrder, BacklogFirst
  <2>6. BacklogSorted(queued')
    BY <1>5 DEF InOrder, CallDisconnect, taskVars, callerVars
  <2>7. ChannelSorted(cmd')
    BY <1>5, ChannelSortedFacts, CommandTypes DEF InOrder, CallDisconnect, Cmd, TypeOK
  <2>8. StraightThrough' => \A r \in Backlog' : ~Untried(r)
    BY <1>5, <2>9 DEF InOrder, BacklogTried, StraightThrough, CallDisconnect, taskVars, callerVars
  <2> QED
    BY <1>0, <2>1, <2>2, <2>3, <2>4, <2>5, <2>6, <2>7, <2>8, OrderKept, FirstTryKept
<1>6. CASE DropHandles
  <2>1. asked' = asked
    BY <1>6 DEF DropHandles, callerVars, TaskEnds
  <2>2. (tries' = tries \/ Spend(cur.req)) /\ (cur # None \/ tries' = tries)
    BY <1>6 DEF DropHandles, TaskEnds, TypeOK
  <2>3. \A q \in Requests : Untried(q)' => Untried(q)
    BY <1>0, <2>2, UntriedShrinks
  <2>9. InChannel' = InChannel /\ Backlog' = Backlog /\ InHand' = InHand
    BY <1>6, ViewFacts DEF DropHandles, taskVars, callerVars
  <2>4. \A r \in InHand', q \in Backlog' \cup InChannel' : Untried(r) /\ Untried(q) => ~Before(q, r)
    BY <2>9 DEF InOrder, HandFirst
  <2>5. \A r \in Backlog', q \in InChannel' : Untried(r) => ~Before(q, r)
    BY <2>9 DEF InOrder, BacklogFirst
  <2>6. BacklogSorted(queued')
    BY <1>6 DEF InOrder, DropHandles, taskVars, callerVars
  <2>7. ChannelSorted(cmd')
    BY <1>6 DEF InOrder, DropHandles, taskVars, callerVars
  <2>8. StraightThrough' => \A r \in Backlog' : ~Untried(r)
    BY <1>6, <2>9 DEF InOrder, BacklogTried, StraightThrough, DropHandles, taskVars, callerVars
  <2> QED
    BY <1>0, <2>1, <2>2, <2>3, <2>4, <2>5, <2>6, <2>7, <2>8, OrderKept, FirstTryKept
<1>7. CASE FillFromBacklog
  <2>1. asked' = asked
    BY <1>7 DEF FillFromBacklog, callerVars, TaskEnds
  <2>2. (tries' = tries \/ Spend(cur.req)) /\ (cur # None \/ tries' = tries)
    BY <1>7 DEF FillFromBacklog, TaskEnds, TypeOK
  <2>3. \A q \in Requests : Untried(q)' => Untried(q)
    BY <1>0, <2>2, UntriedShrinks
  <2>10. queued \in Seq(Entry) /\ queued # <<>> /\ queued' = Tail(queued) /\ cur' = Head(queued)
    BY <1>7 DEF FillFromBacklog, TypeOK
  <2>9. /\ InChannel' = InChannel /\ Backlog' \subseteq Backlog
        /\ Backlog' = EntriesIn(Tail(queued))
        /\ InHand' \subseteq {Head(queued).req} /\ Head(queued).req \in Backlog
        /\ BacklogSorted(queued')
    <3>1. /\ InChannel' = InChannel /\ Backlog' = EntriesIn(Tail(queued)) /\ InHand' = HandOf(Head(queued))
          /\ Backlog = EntriesIn(queued)
      BY <1>7, <2>10, ViewFacts DEF FillFromBacklog
    <3>2. EntriesIn(Tail(queued)) \subseteq EntriesIn(queued) /\ Head(queued).req \in EntriesIn(queued)
      BY <2>10, BacklogFacts DEF Once
    <3>3. BacklogSorted(Tail(queued))
      BY <2>10, BacklogSortedFacts DEF InOrder
    <3> QED
      BY <2>10, <3>1, <3>2, <3>3 DEF HandOf
  <2>11. Untried(Head(queued).req) => \A q \in EntriesIn(Tail(queued)) : Untried(q) => ~Before(q, Head(queued).req)
    BY <2>10, BacklogSortedFacts DEF InOrder
  <2>4. \A r \in InHand', q \in Backlog' \cup InChannel' : Untried(r) /\ Untried(q) => ~Before(q, r)
    BY <2>9, <2>11 DEF InOrder, BacklogFirst
  <2>5. \A r \in Backlog', q \in InChannel' : Untried(r) => ~Before(q, r)
    BY <2>9 DEF InOrder, BacklogFirst
  <2>6. BacklogSorted(queued')
    BY <2>9
  <2>7. ChannelSorted(cmd')
    BY <1>7 DEF InOrder, FillFromBacklog
  <2>8. StraightThrough' => \A r \in Backlog' : ~Untried(r)
    BY <1>7 DEF StraightThrough, FillFromBacklog
  <2> QED
    BY <1>0, <2>1, <2>2, <2>3, <2>4, <2>5, <2>6, <2>7, <2>8, OrderKept, FirstTryKept
<1>8. CASE FillDone
  <2>1. asked' = asked
    BY <1>8 DEF FillDone, callerVars, TaskEnds
  <2>2. (tries' = tries \/ Spend(cur.req)) /\ (cur # None \/ tries' = tries)
    BY <1>8 DEF FillDone, TaskEnds, TypeOK
  <2>3. \A q \in Requests : Untried(q)' => Untried(q)
    BY <1>0, <2>2, UntriedShrinks
  <2>9. InChannel' = InChannel /\ Backlog' = Backlog /\ InHand' = InHand
    BY <1>8, ViewFacts DEF FillDone
  <2>4. \A r \in InHand', q \in Backlog' \cup InChannel' : Untried(r) /\ Untried(q) => ~Before(q, r)
    BY <2>9 DEF InOrder, HandFirst
  <2>5. \A r \in Backlog', q \in InChannel' : Untried(r) => ~Before(q, r)
    BY <2>9 DEF InOrder, BacklogFirst
  <2>6. BacklogSorted(queued')
    BY <1>8 DEF InOrder, FillDone
  <2>7. ChannelSorted(cmd')
    BY <1>8 DEF InOrder, FillDone
  <2>8. StraightThrough' => \A r \in Backlog' : ~Untried(r)
    BY <1>8, <2>9, EmptyFacts, ViewFacts DEF FillDone, PipelineHasRoom, StraightThrough
  <2> QED
    BY <1>0, <2>1, <2>2, <2>3, <2>4, <2>5, <2>6, <2>7, <2>8, OrderKept, FirstTryKept
<1>9. CASE DispatchGivesUp
  <2>1. asked' = asked
    BY <1>9 DEF DispatchGivesUp, callerVars, TaskEnds
  <2>2. (tries' = tries \/ Spend(cur.req)) /\ (cur # None \/ tries' = tries)
    BY <1>9 DEF DispatchGivesUp, TaskEnds, TypeOK
  <2>3. \A q \in Requests : Untried(q)' => Untried(q)
    BY <1>0, <2>2, UntriedShrinks
  <2>9. InChannel' = InChannel /\ Backlog' = Backlog /\ InHand' \subseteq InHand
    BY <1>9, ViewFacts, EmptyFacts DEF DispatchGivesUp, Dispatched
  <2>4. \A r \in InHand', q \in Backlog' \cup InChannel' : Untried(r) /\ Untried(q) => ~Before(q, r)
    BY <2>9 DEF InOrder, HandFirst
  <2>5. \A r \in Backlog', q \in InChannel' : Untried(r) => ~Before(q, r)
    BY <2>9 DEF InOrder, BacklogFirst
  <2>6. BacklogSorted(queued')
    BY <1>9 DEF InOrder, DispatchGivesUp
  <2>7. ChannelSorted(cmd')
    BY <1>9 DEF InOrder, DispatchGivesUp
  <2>8. StraightThrough' => \A r \in Backlog' : ~Untried(r)
    BY <1>9, <2>9 DEF InOrder, BacklogTried, StraightThrough, DispatchGivesUp, Dispatched, TypeOK
  <2> QED
    BY <1>0, <2>1, <2>2, <2>3, <2>4, <2>5, <2>6, <2>7, <2>8, OrderKept, FirstTryKept
<1>10. CASE Reconnect
  <2>1. asked' = asked
    BY <1>10 DEF Reconnect, callerVars, TaskEnds
  <2>2. (tries' = tries \/ Spend(cur.req)) /\ (cur # None \/ tries' = tries)
    BY <1>10 DEF Reconnect, TaskEnds, TypeOK
  <2>3. \A q \in Requests : Untried(q)' => Untried(q)
    BY <1>0, <2>2, UntriedShrinks
  <2>9. InChannel' = InChannel /\ Backlog' = Backlog /\ InHand' = InHand
    BY <1>10, ViewFacts DEF Reconnect
  <2>4. \A r \in InHand', q \in Backlog' \cup InChannel' : Untried(r) /\ Untried(q) => ~Before(q, r)
    BY <2>9 DEF InOrder, HandFirst
  <2>5. \A r \in Backlog', q \in InChannel' : Untried(r) => ~Before(q, r)
    BY <2>9 DEF InOrder, BacklogFirst
  <2>6. BacklogSorted(queued')
    BY <1>10 DEF InOrder, Reconnect
  <2>7. ChannelSorted(cmd')
    BY <1>10 DEF InOrder, Reconnect
  <2>8. StraightThrough' => \A r \in Backlog' : ~Untried(r)
    BY <1>10, <2>9 DEF InOrder, BacklogTried, StraightThrough, Reconnect
  <2> QED
    BY <1>0, <2>1, <2>2, <2>3, <2>4, <2>5, <2>6, <2>7, <2>8, OrderKept, FirstTryKept
<1>11. CASE ReconnectFails
  <2>1. asked' = asked
    BY <1>11 DEF ReconnectFails, callerVars, TaskEnds
  <2>2. (tries' = tries \/ Spend(cur.req)) /\ (cur # None \/ tries' = tries)
    BY <1>11 DEF ReconnectFails, TaskEnds, TypeOK
  <2>3. \A q \in Requests : Untried(q)' => Untried(q)
    BY <1>0, <2>2, UntriedShrinks
  <2>10. InHand' \subseteq InHand
    <3>1. cur # None /\ cur \in Entry /\ cur.retry_attempts \in Nat
      BY <1>11, TypeFacts DEF ReconnectFails, TypeOK
    <3>2. cur' = None \/ (cur.retry_attempts > 0 /\ cur' = [cur EXCEPT !.retry_attempts = @ - 1])
      BY <1>11, <3>1 DEF ReconnectFails, Dispatched
    <3>3. cur' # None => cur'.req = cur.req
      BY <3>1, <3>2, EntryLess
    <3> QED
      BY <3>1, <3>3 DEF InHand
  <2>11. StraightThrough' => StraightThrough
    BY <1>11 DEF StraightThrough, ReconnectFails, Dispatched, TypeOK
  <2>9. InChannel' = InChannel /\ Backlog' = Backlog /\ InHand' \subseteq InHand
    BY <1>11, <2>10, ViewFacts DEF ReconnectFails
  <2>4. \A r \in InHand', q \in Backlog' \cup InChannel' : Untried(r) /\ Untried(q) => ~Before(q, r)
    BY <2>9 DEF InOrder, HandFirst
  <2>5. \A r \in Backlog', q \in InChannel' : Untried(r) => ~Before(q, r)
    BY <2>9 DEF InOrder, BacklogFirst
  <2>6. BacklogSorted(queued')
    BY <1>11 DEF InOrder, ReconnectFails
  <2>7. ChannelSorted(cmd')
    BY <1>11 DEF InOrder, ReconnectFails
  <2>8. StraightThrough' => \A r \in Backlog' : ~Untried(r)
    BY <2>9, <2>11 DEF InOrder, BacklogTried
  <2> QED
    BY <1>0, <2>1, <2>2, <2>3, <2>4, <2>5, <2>6, <2>7, <2>8, OrderKept, FirstTryKept
<1>12. CASE EncodeFails
  <2>1. asked' = asked
    BY <1>12 DEF EncodeFails, callerVars, TaskEnds
  <2>2. (tries' = tries \/ Spend(cur.req)) /\ (cur # None \/ tries' = tries)
    BY <1>12 DEF EncodeFails, TaskEnds, TypeOK
  <2>3. \A q \in Requests : Untried(q)' => Untried(q)
    BY <1>0, <2>2, UntriedShrinks
  <2>9. InChannel' = InChannel /\ Backlog' = Backlog /\ InHand' \subseteq InHand
    BY <1>12, ViewFacts, EmptyFacts DEF EncodeFails, Dispatched
  <2>4. \A r \in InHand', q \in Backlog' \cup InChannel' : Untried(r) /\ Untried(q) => ~Before(q, r)
    BY <2>9 DEF InOrder, HandFirst
  <2>5. \A r \in Backlog', q \in InChannel' : Untried(r) => ~Before(q, r)
    BY <2>9 DEF InOrder, BacklogFirst
  <2>6. BacklogSorted(queued')
    BY <1>12 DEF InOrder, EncodeFails
  <2>7. ChannelSorted(cmd')
    BY <1>12 DEF InOrder, EncodeFails
  <2>8. StraightThrough' => \A r \in Backlog' : ~Untried(r)
    BY <1>12, <2>9 DEF InOrder, BacklogTried, StraightThrough, EncodeFails, Dispatched, TypeOK
  <2> QED
    BY <1>0, <2>1, <2>2, <2>3, <2>4, <2>5, <2>6, <2>7, <2>8, OrderKept, FirstTryKept
<1>13. CASE SendOk
  <2>1. asked' = asked
    BY <1>13 DEF SendOk, callerVars, TaskEnds
  <2>2. (tries' = tries \/ Spend(cur.req)) /\ (cur # None \/ tries' = tries)
    BY <1>13 DEF SendOk, TaskEnds, TypeOK
  <2>3. \A q \in Requests : Untried(q)' => Untried(q)
    BY <1>0, <2>2, UntriedShrinks
  <2>9. InChannel' = InChannel /\ Backlog' = Backlog /\ InHand' \subseteq InHand
    BY <1>13, ViewFacts, EmptyFacts DEF SendOk, Dispatched
  <2>4. \A r \in InHand', q \in Backlog' \cup InChannel' : Untried(r) /\ Untried(q) => ~Before(q, r)
    BY <2>9 DEF InOrder, HandFirst
  <2>5. \A r \in Backlog', q \in InChannel' : Untried(r) => ~Before(q, r)
    BY <2>9 DEF InOrder, BacklogFirst
  <2>6. BacklogSorted(queued')
    BY <1>13 DEF InOrder, SendOk
  <2>7. ChannelSorted(cmd')
    BY <1>13 DEF InOrder, SendOk
  <2>8. StraightThrough' => \A r \in Backlog' : ~Untried(r)
    BY <1>13, <2>9 DEF InOrder, BacklogTried, StraightThrough, SendOk, Dispatched, TypeOK
  <2> QED
    BY <1>0, <2>1, <2>2, <2>3, <2>4, <2>5, <2>6, <2>7, <2>8, OrderKept, FirstTryKept
<1>14. CASE SendFails
  <2>1. asked' = asked
    BY <1>14 DEF SendFails, callerVars, TaskEnds
  <2>2. (tries' = tries \/ Spend(cur.req)) /\ (cur # None \/ tries' = tries)
    BY <1>14 DEF SendFails, TaskEnds, TypeOK
  <2>3. \A q \in Requests : Untried(q)' => Untried(q)
    BY <1>0, <2>2, UntriedShrinks
  <2>10. InHand' \subseteq InHand
    <3>1. cur # None /\ cur \in Entry /\ cur.retry_attempts \in Nat
      BY <1>14, TypeFacts DEF SendFails, TypeOK
    <3>2. cur' = None \/ (cur.retry_attempts > 0 /\ cur' = [cur EXCEPT !.retry_attempts = @ - 1])
      BY <1>14, <3>1 DEF SendFails, Dispatched
    <3>3. cur' # None => cur'.req = cur.req
      BY <3>1, <3>2, EntryLess
    <3> QED
      BY <3>1, <3>3 DEF InHand
  <2>11. StraightThrough' => StraightThrough
    BY <1>14 DEF StraightThrough, SendFails, Dispatched, TypeOK
  <2>9. /\ InChannel' = InChannel /\ InHand' \subseteq InHand /\ BacklogSorted(queued')
        /\ \A q \in Backlog' : Untried(q) => q \in Backlog
    BY <1>14, <2>10, LossInOrder, ViewFacts DEF SendFails
  <2>4. \A r \in InHand', q \in Backlog' \cup InChannel' : Untried(r) /\ Untried(q) => ~Before(q, r)
    BY <2>9 DEF InOrder, HandFirst
  <2>5. \A r \in Backlog', q \in InChannel' : Untried(r) => ~Before(q, r)
    BY <2>9 DEF InOrder, BacklogFirst
  <2>6. BacklogSorted(queued')
    BY <2>9
  <2>7. ChannelSorted(cmd')
    BY <1>14 DEF InOrder, SendFails
  <2>8. StraightThrough' => \A r \in Backlog' : ~Untried(r)
    BY <2>9, <2>11 DEF InOrder, BacklogTried
  <2> QED
    BY <1>0, <2>1, <2>2, <2>3, <2>4, <2>5, <2>6, <2>7, <2>8, OrderKept, FirstTryKept
<1>15. CASE HandleRequest
  <2> DEFINE h == Head(cmd).req
             e == [req |-> h, retry_attempts |-> Attempts[h]]
  <2>10. /\ cmd # <<>> /\ Head(cmd) \in Command /\ Head(cmd).op = "Request" /\ cmd' = Tail(cmd)
         /\ pc \in {"select", "batch"}
    BY <1>15, TakesType DEF HandleRequest, TakesCommand
  <2>11. h \in Requests /\ h \in InChannel /\ InChannel' = InChannel \ {h}
    BY <2>10, ViewFacts, ChannelFacts DEF Command, Once, TypeOK
  <2>12. e \in Entry /\ e # None /\ e.req = h
    BY <2>11, RequestsAssumption, NoneAssumption DEF Entry
  <2>13. \/ /\ in_flight < N /\ cur' = e /\ UNCHANGED <<queued, in_flight>>
         \/ /\ ~(in_flight < N) /\ queued' = Append(queued, e) /\ pc' = "batch" /\ UNCHANGED <<cur, in_flight>>
    BY <1>15 DEF HandleRequest, PipelineHasRoom
  <2>14. InHand = {} /\ queued \in Seq(Entry)
    BY <2>10, ViewFacts, EmptyFacts DEF TypeOK
  <2>15. ChannelSorted(cmd') /\ \A q \in InChannel' : ~Before(q, h)
    BY <2>10, ChannelSortedFacts, ViewFacts DEF InOrder, TypeOK
  <2> HIDE DEF h, e
  <2>16. \A q \in Backlog : Untried(q) => ~Before(h, q)
    BY <2>11 DEF InOrder, BacklogFirst
  <2>1. asked' = asked
    BY <1>15 DEF HandleRequest, callerVars, TaskEnds
  <2>2. (tries' = tries \/ Spend(cur.req)) /\ (cur # None \/ tries' = tries)
    BY <1>15 DEF HandleRequest, TaskEnds, TypeOK
  <2>3. \A q \in Requests : Untried(q)' => Untried(q)
    BY <1>0, <2>2, UntriedShrinks
  <2>9. InChannel' \subseteq InChannel
    BY <2>11
  <2>17. CASE in_flight < N /\ cur' = e /\ UNCHANGED <<queued, in_flight>>
    <3>1. InHand' = {h} /\ Backlog' = Backlog
      BY <2>12, <2>17, ViewFacts, EmptyFacts
    <3>2. \A q \in Backlog : ~Untried(q)
      BY <2>10, <2>17 DEF InOrder, BacklogTried, StraightThrough
    <3>3. \A r \in InHand', q \in Backlog' \cup InChannel' : Untried(r) /\ Untried(q) => ~Before(q, r)
      BY <2>15, <3>1, <3>2
    <3>4. \A r \in Backlog', q \in InChannel' : Untried(r) => ~Before(q, r)
      BY <3>1, <3>2
    <3>5. BacklogSorted(queued')
      BY <2>17 DEF InOrder
    <3>6. StraightThrough' => \A r \in Backlog' : ~Untried(r)
      BY <3>1, <3>2
    <3> QED
      BY <1>0, <2>1, <2>2, <2>3, <2>15, <3>3, <3>4, <3>5, <3>6, OrderKept, FirstTryKept
  <2>18. CASE /\ ~(in_flight < N) /\ queued' = Append(queued, e) /\ pc' = "batch"
              /\ UNCHANGED <<cur, in_flight>>
    <3>1. InHand' = {} /\ Backlog' = Backlog \cup {h}
      BY <2>12, <2>14, <2>18, ViewFacts, EmptyFacts, BacklogFacts
    <3>3. \A r \in InHand', q \in Backlog' \cup InChannel' : Untried(r) /\ Untried(q) => ~Before(q, r)
      BY <3>1
    <3>4. \A r \in Backlog', q \in InChannel' : Untried(r) => ~Before(q, r)
      BY <2>9, <2>15, <3>1 DEF InOrder, BacklogFirst
    <3>5. BacklogSorted(queued')
      BY <2>12, <2>14, <2>16, <2>18, BacklogSortedFacts, ViewFacts DEF InOrder
    <3>6. ~StraightThrough'
      BY <2>18 DEF StraightThrough
    <3> QED
      BY <1>0, <2>1, <2>2, <2>3, <2>15, <3>3, <3>4, <3>5, <3>6, OrderKept, FirstTryKept
  <2> QED
    BY <2>13, <2>17, <2>18
<1>16. CASE HandleConnect
  <2>1. asked' = asked
    BY <1>16 DEF HandleConnect, callerVars, TaskEnds
  <2>2. (tries' = tries \/ Spend(cur.req)) /\ (cur # None \/ tries' = tries)
    BY <1>16 DEF HandleConnect, TaskEnds, TypeOK
  <2>3. \A q \in Requests : Untried(q)' => Untried(q)
    BY <1>0, <2>2, UntriedShrinks
  <2>10. /\ cmd # <<>> /\ Head(cmd).op = "Connect" /\ cmd' = Tail(cmd)
         /\ pc \in {"select", "batch"}
    BY <1>16, TakesType DEF HandleConnect, TakesCommand
  <2>9. InChannel' = InChannel /\ Backlog' = Backlog /\ InHand' = InHand
    BY <1>16, <2>10, ViewFacts, ChannelFacts DEF HandleConnect, Once, TypeOK
  <2>4. \A r \in InHand', q \in Backlog' \cup InChannel' : Untried(r) /\ Untried(q) => ~Before(q, r)
    BY <2>9 DEF InOrder, HandFirst
  <2>5. \A r \in Backlog', q \in InChannel' : Untried(r) => ~Before(q, r)
    BY <2>9 DEF InOrder, BacklogFirst
  <2>6. BacklogSorted(queued')
    BY <1>16 DEF InOrder, HandleConnect
  <2>7. ChannelSorted(cmd')
    BY <2>10, ChannelSortedFacts DEF InOrder, TypeOK
  <2>8. StraightThrough' => \A r \in Backlog' : ~Untried(r)
    BY <1>16, <2>9, <2>10 DEF InOrder, BacklogTried, StraightThrough, HandleConnect
  <2> QED
    BY <1>0, <2>1, <2>2, <2>3, <2>4, <2>5, <2>6, <2>7, <2>8, OrderKept, FirstTryKept
<1>17. ASSUME NEW ok \in BOOLEAN, ConnectDone(ok) PROVE InOrder' /\ FirstTryInOrder'
  <2>1. asked' = asked
    BY <1>17 DEF ConnectDone, callerVars, TaskEnds
  <2>2. (tries' = tries \/ Spend(cur.req)) /\ (cur # None \/ tries' = tries)
    BY <1>17 DEF ConnectDone, TaskEnds, TypeOK
  <2>3. \A q \in Requests : Untried(q)' => Untried(q)
    BY <1>0, <2>2, UntriedShrinks
  <2>9. InChannel' = InChannel /\ Backlog' = Backlog /\ InHand' = InHand
    BY <1>17, ViewFacts DEF ConnectDone
  <2>4. \A r \in InHand', q \in Backlog' \cup InChannel' : Untried(r) /\ Untried(q) => ~Before(q, r)
    BY <2>9 DEF InOrder, HandFirst
  <2>5. \A r \in Backlog', q \in InChannel' : Untried(r) => ~Before(q, r)
    BY <2>9 DEF InOrder, BacklogFirst
  <2>6. BacklogSorted(queued')
    BY <1>17 DEF InOrder, ConnectDone
  <2>7. ChannelSorted(cmd')
    BY <1>17 DEF InOrder, ConnectDone
  <2>8. StraightThrough' => \A r \in Backlog' : ~Untried(r)
    BY <1>17, <2>9 DEF InOrder, BacklogTried, StraightThrough, ConnectDone
  <2> QED
    BY <1>0, <2>1, <2>2, <2>3, <2>4, <2>5, <2>6, <2>7, <2>8, OrderKept, FirstTryKept
<1>18. CASE HandleDisconnect
  <2>1. asked' = asked
    BY <1>18 DEF HandleDisconnect, callerVars, TaskEnds
  <2>2. (tries' = tries \/ Spend(cur.req)) /\ (cur # None \/ tries' = tries)
    BY <1>18 DEF HandleDisconnect, TaskEnds, TypeOK
  <2>3. \A q \in Requests : Untried(q)' => Untried(q)
    BY <1>0, <2>2, UntriedShrinks
  <2>10. cmd # <<>> /\ Head(cmd).op = "Disconnect" /\ cmd' = Tail(cmd)
    BY <1>18, TakesType DEF HandleDisconnect, TakesCommand
  <2>9. InChannel' = InChannel /\ Backlog' = {} /\ InHand' = InHand
    BY <1>18, <2>10, ViewFacts, ChannelFacts, EmptyFacts DEF HandleDisconnect, drain_all, Once, TypeOK
  <2>4. \A r \in InHand', q \in Backlog' \cup InChannel' : Untried(r) /\ Untried(q) => ~Before(q, r)
    BY <2>9 DEF InOrder, HandFirst
  <2>5. \A r \in Backlog', q \in InChannel' : Untried(r) => ~Before(q, r)
    BY <2>9
  <2>6. BacklogSorted(queued')
    BY <1>18 DEF BacklogSorted, HandleDisconnect, drain_all
  <2>7. ChannelSorted(cmd')
    BY <2>10, ChannelSortedFacts DEF InOrder, TypeOK
  <2>8. StraightThrough' => \A r \in Backlog' : ~Untried(r)
    BY <2>9
  <2> QED
    BY <1>0, <2>1, <2>2, <2>3, <2>4, <2>5, <2>6, <2>7, <2>8, OrderKept, FirstTryKept
<1>19. CASE HandleShutdown
  <2>1. asked' = asked
    BY <1>19 DEF HandleShutdown, callerVars, TaskEnds
  <2>2. (tries' = tries \/ Spend(cur.req)) /\ (cur # None \/ tries' = tries)
    BY <1>19 DEF HandleShutdown, TaskEnds, TypeOK
  <2>3. \A q \in Requests : Untried(q)' => Untried(q)
    BY <1>0, <2>2, UntriedShrinks
  <2>9. InChannel' = {} /\ Backlog' = {}
    BY <1>19, ViewFacts, EmptyFacts DEF HandleShutdown, TaskEnds
  <2>4. \A r \in InHand', q \in Backlog' \cup InChannel' : Untried(r) /\ Untried(q) => ~Before(q, r)
    BY <2>9
  <2>5. \A r \in Backlog', q \in InChannel' : Untried(r) => ~Before(q, r)
    BY <2>9
  <2>6. BacklogSorted(queued')
    BY <1>19 DEF BacklogSorted, HandleShutdown, TaskEnds
  <2>7. ChannelSorted(cmd')
    BY <1>19 DEF ChannelSorted, HandleShutdown, TaskEnds
  <2>8. StraightThrough' => \A r \in Backlog' : ~Untried(r)
    BY <2>9
  <2> QED
    BY <1>0, <2>1, <2>2, <2>3, <2>4, <2>5, <2>6, <2>7, <2>8, OrderKept, FirstTryKept
<1>20. CASE ChannelClosed
  <2>1. asked' = asked
    BY <1>20 DEF ChannelClosed, callerVars, TaskEnds
  <2>2. (tries' = tries \/ Spend(cur.req)) /\ (cur # None \/ tries' = tries)
    BY <1>20 DEF ChannelClosed, TaskEnds, TypeOK
  <2>3. \A q \in Requests : Untried(q)' => Untried(q)
    BY <1>0, <2>2, UntriedShrinks
  <2>9. InChannel' = {} /\ Backlog' = {}
    BY <1>20, ViewFacts, EmptyFacts DEF ChannelClosed, TaskEnds
  <2>4. \A r \in InHand', q \in Backlog' \cup InChannel' : Untried(r) /\ Untried(q) => ~Before(q, r)
    BY <2>9
  <2>5. \A r \in Backlog', q \in InChannel' : Untried(r) => ~Before(q, r)
    BY <2>9
  <2>6. BacklogSorted(queued')
    BY <1>20 DEF BacklogSorted, ChannelClosed, TaskEnds
  <2>7. ChannelSorted(cmd')
    BY <1>20 DEF ChannelSorted, ChannelClosed, TaskEnds
  <2>8. StraightThrough' => \A r \in Backlog' : ~Untried(r)
    BY <2>9
  <2> QED
    BY <1>0, <2>1, <2>2, <2>3, <2>4, <2>5, <2>6, <2>7, <2>8, OrderKept, FirstTryKept
<1>21. CASE BatchDone
  <2>1. asked' = asked
    BY <1>21 DEF BatchDone, callerVars, TaskEnds
  <2>2. (tries' = tries \/ Spend(cur.req)) /\ (cur # None \/ tries' = tries)
    BY <1>21 DEF BatchDone, TaskEnds, TypeOK
  <2>3. \A q \in Requests : Untried(q)' => Untried(q)
    BY <1>0, <2>2, UntriedShrinks
  <2>9. InChannel' = InChannel /\ Backlog' = Backlog /\ InHand' = InHand
    BY <1>21, ViewFacts DEF BatchDone
  <2>4. \A r \in InHand', q \in Backlog' \cup InChannel' : Untried(r) /\ Untried(q) => ~Before(q, r)
    BY <2>9 DEF InOrder, HandFirst
  <2>5. \A r \in Backlog', q \in InChannel' : Untried(r) => ~Before(q, r)
    BY <2>9 DEF InOrder, BacklogFirst
  <2>6. BacklogSorted(queued')
    BY <1>21 DEF InOrder, BatchDone
  <2>7. ChannelSorted(cmd')
    BY <1>21 DEF InOrder, BatchDone
  <2>8. StraightThrough' => \A r \in Backlog' : ~Untried(r)
    BY <1>21, <2>9 DEF InOrder, BacklogTried, StraightThrough, BatchDone
  <2> QED
    BY <1>0, <2>1, <2>2, <2>3, <2>4, <2>5, <2>6, <2>7, <2>8, OrderKept, FirstTryKept
<1>22. CASE ReceiveFails
  <2>1. asked' = asked
    BY <1>22 DEF ReceiveFails, callerVars, TaskEnds
  <2>2. (tries' = tries \/ Spend(cur.req)) /\ (cur # None \/ tries' = tries)
    BY <1>22 DEF ReceiveFails, TaskEnds, TypeOK
  <2>3. \A q \in Requests : Untried(q)' => Untried(q)
    BY <1>0, <2>2, UntriedShrinks
  <2>9. /\ InChannel' = InChannel /\ InHand' \subseteq InHand /\ BacklogSorted(queued')
        /\ \A q \in Backlog' : Untried(q) => q \in Backlog
    BY <1>22, LossInOrder, ViewFacts DEF ReceiveFails
  <2>4. \A r \in InHand', q \in Backlog' \cup InChannel' : Untried(r) /\ Untried(q) => ~Before(q, r)
    BY <2>9 DEF InOrder, HandFirst
  <2>5. \A r \in Backlog', q \in InChannel' : Untried(r) => ~Before(q, r)
    BY <2>9 DEF InOrder, BacklogFirst
  <2>6. BacklogSorted(queued')
    BY <2>9
  <2>7. ChannelSorted(cmd')
    BY <1>22 DEF InOrder, ReceiveFails
  <2>8. StraightThrough' => \A r \in Backlog' : ~Untried(r)
    BY <1>22 DEF StraightThrough, ReceiveFails
  <2> QED
    BY <1>0, <2>1, <2>2, <2>3, <2>4, <2>5, <2>6, <2>7, <2>8, OrderKept, FirstTryKept
<1>23. ASSUME NEW m \in peer, process_frame(m) PROVE InOrder' /\ FirstTryInOrder'
  <2>1. asked' = asked
    BY <1>23 DEF process_frame, callerVars, TaskEnds
  <2>2. (tries' = tries \/ Spend(cur.req)) /\ (cur # None \/ tries' = tries)
    BY <1>23 DEF process_frame, TaskEnds, TypeOK
  <2>3. \A q \in Requests : Untried(q)' => Untried(q)
    BY <1>0, <2>2, UntriedShrinks
  <2>9. InChannel' = InChannel /\ Backlog' = Backlog /\ InHand' = InHand
    BY <1>23, ViewFacts DEF process_frame
  <2>4. \A r \in InHand', q \in Backlog' \cup InChannel' : Untried(r) /\ Untried(q) => ~Before(q, r)
    BY <2>9 DEF InOrder, HandFirst
  <2>5. \A r \in Backlog', q \in InChannel' : Untried(r) => ~Before(q, r)
    BY <2>9 DEF InOrder, BacklogFirst
  <2>6. BacklogSorted(queued')
    BY <1>23 DEF InOrder, process_frame
  <2>7. ChannelSorted(cmd')
    BY <1>23 DEF InOrder, process_frame
  <2>8. StraightThrough' => \A r \in Backlog' : ~Untried(r)
    BY <1>23, <2>9 DEF InOrder, BacklogTried, StraightThrough, process_frame
  <2> QED
    BY <1>0, <2>1, <2>2, <2>3, <2>4, <2>5, <2>6, <2>7, <2>8, OrderKept, FirstTryKept
<1>24. ASSUME NEW m \in peer, ReceiveDamaged(m) PROVE InOrder' /\ FirstTryInOrder'
  <2>1. asked' = asked
    BY <1>24 DEF ReceiveDamaged, callerVars, TaskEnds
  <2>2. (tries' = tries \/ Spend(cur.req)) /\ (cur # None \/ tries' = tries)
    BY <1>24 DEF ReceiveDamaged, TaskEnds, TypeOK
  <2>3. \A q \in Requests : Untried(q)' => Untried(q)
    BY <1>0, <2>2, UntriedShrinks
  <2>9. InChannel' = InChannel /\ Backlog' = Backlog /\ InHand' = InHand
    BY <1>24, ViewFacts DEF ReceiveDamaged
  <2>4. \A r \in InHand', q \in Backlog' \cup InChannel' : Untried(r) /\ Untried(q) => ~Before(q, r)
    BY <2>9 DEF InOrder, HandFirst
  <2>5. \A r \in Backlog', q \in InChannel' : Untried(r) => ~Before(q, r)
    BY <2>9 DEF InOrder, BacklogFirst
  <2>6. BacklogSorted(queued')
    BY <1>24 DEF InOrder, ReceiveDamaged
  <2>7. ChannelSorted(cmd')
    BY <1>24 DEF InOrder, ReceiveDamaged
  <2>8. StraightThrough' => \A r \in Backlog' : ~Untried(r)
    BY <1>24, <2>9 DEF InOrder, BacklogTried, StraightThrough, ReceiveDamaged
  <2> QED
    BY <1>0, <2>1, <2>2, <2>3, <2>4, <2>5, <2>6, <2>7, <2>8, OrderKept, FirstTryKept
<1>25. CASE UNCHANGED vars
  <2>1. asked' = asked
    BY <1>25 DEF vars, callerVars, TaskEnds
  <2>2. (tries' = tries \/ Spend(cur.req)) /\ (cur # None \/ tries' = tries)
    BY <1>25 DEF vars, TaskEnds, TypeOK
  <2>3. \A q \in Requests : Untried(q)' => Untried(q)
    BY <1>0, <2>2, UntriedShrinks
  <2>9. InChannel' = InChannel /\ Backlog' = Backlog /\ InHand' = InHand
    BY <1>25, ViewFacts DEF vars, taskVars, callerVars
  <2>4. \A r \in InHand', q \in Backlog' \cup InChannel' : Untried(r) /\ Untried(q) => ~Before(q, r)
    BY <2>9 DEF InOrder, HandFirst
  <2>5. \A r \in Backlog', q \in InChannel' : Untried(r) => ~Before(q, r)
    BY <2>9 DEF InOrder, BacklogFirst
  <2>6. BacklogSorted(queued')
    BY <1>25 DEF InOrder, vars, taskVars, callerVars
  <2>7. ChannelSorted(cmd')
    BY <1>25 DEF InOrder, vars, taskVars, callerVars
  <2>8. StraightThrough' => \A r \in Backlog' : ~Untried(r)
    BY <1>25, <2>9 DEF InOrder, BacklogTried, StraightThrough, vars, taskVars, callerVars
  <2> QED
    BY <1>0, <2>1, <2>2, <2>3, <2>4, <2>5, <2>6, <2>7, <2>8, OrderKept, FirstTryKept
<1> QED
  BY <1>1, <1>2, <1>3, <1>4, <1>5, <1>6, <1>7, <1>8, <1>9, <1>10, <1>11, <1>12, <1>13, <1>14,
     <1>15, <1>16, <1>17, <1>18, <1>19, <1>20, <1>21, <1>22, <1>23, <1>24, <1>25 DEF Next,
     CallerStep, TaskStep, LinkStep

(* It holds initially.                                                      *)
LEMMA OrderInit ==
  ASSUME Init
  PROVE  InOrder /\ FirstTryInOrder
<1>1. /\ InHand = {} /\ Backlog = {} /\ InChannel = {}
      /\ asked = <<>> /\ queued = <<>> /\ cmd = <<>>
  BY ViewFacts, EmptyFacts DEF Init
<1> QED
  BY <1>1 DEF InOrder, FirstTryInOrder, Submitted, HandFirst, BacklogFirst, BacklogSorted,
              ChannelSorted, BacklogTried

(* Requests are tried for the first time in the order of submission,        *)
(* whatever the interleaving of backlog, batches, lost connections and      *)
(* callers.                                                                 *)
THEOREM FirstTriesInOrder == Spec => []FirstTryInOrder
<1>1. Init => InOrder /\ FirstTryInOrder
  BY OrderInit
<1>2. IndInv /\ IndInv' /\ Spent /\ InOrder /\ FirstTryInOrder /\ [Next]_vars
        => InOrder' /\ FirstTryInOrder'
  BY OrderStep
<1> QED
  BY <1>1, <1>2, SpentInvariant, PTL DEF Spec

=============================================================================
