----------------------------- MODULE AsyncClient -----------------------------
(***************************************************************************)
(* The asynchronous Modbus client (mbus-async): any number of callers hold *)
(* clones of AsyncClientCore and send commands over a bounded channel to   *)
(* one background ClientTask, which owns the transport, the map of pending *)
(* requests and the backlog.  A caller waits for its reply on a oneshot    *)
(* channel, for as long as its own time-out lets it.                       *)
(*                                                                         *)
(* A step of the task runs from one await to the next; callers interleave  *)
(* with it at every await.                                                 *)
(***************************************************************************)
EXTENDS Integers, Sequences, FiniteSets

CONSTANTS
  N,             \* pipeline depth, the const generic of ClientTask
  Requests,      \* the requests callers may make, each at most once
  Attempts,      \* request -> retry_attempts in force when it is made
  Unencodable,   \* requests encode_request rejects
  IsTcp,         \* T::TRANSPORT_TYPE is TCP
  MaxTxn,        \* u16::MAX: transaction ids are 1..MaxTxn
  Capacity,      \* capacity of the command channel
  BatchMax,      \* commands handled per wake-up (16)
  MaxConnects,   \* bound: calls of connect()
  MaxDisconnects,\* bound: calls of disconnect()
  None           \* no entry, no request

ASSUME ParametersAssumption ==
  /\ N \in Nat \ {0} /\ MaxTxn \in Nat \ {0} /\ Capacity \in Nat \ {0}
  /\ BatchMax \in Nat \ {0} /\ MaxConnects \in Nat /\ MaxDisconnects \in Nat
  /\ IsTcp \in BOOLEAN /\ (~IsTcp => N = 1)
ASSUME RequestsAssumption ==
  Attempts \in [Requests -> Nat] /\ Unencodable \subseteq Requests
ASSUME NoneAssumption == None \notin [req : Requests, retry_attempts : Nat]
ASSUME ErrorsAssumption == Requests \cap {"GaveUp", "Failed"} = {}

VARIABLES
  \* ClientTask
  transport,     \* self.transport is Some
  pending,       \* transaction id -> entry in flight, or None
  queued,        \* the backlog, oldest first
  next_txn_id,
  in_flight,
  pc,            \* the await the task is at: fill, dispatch, select, batch, connect, ended
  cur,           \* entry in the hands of dispatch_request, or None
  back,          \* where dispatch_request returns to, "fill" outside it
  count,         \* commands handled since the last wake-up, 0 outside a batch
  \* the channel
  cmd,           \* commands in the channel
  open,          \* some AsyncClientCore is alive
  \* callers
  outcome,       \* what the call of a request returned so far
  connector,     \* a caller awaits connect()
  budget,        \* calls of connect() and disconnect() still to come
  \* the other side of the link
  peer,          \* requests the server has read and not answered
  \* histories
  replies,       \* replies the task gave a request
  tries,         \* sends and failed reconnects spent on a request
  asked          \* requests in the order of submission

taskVars   == <<transport, pending, queued, next_txn_id, in_flight, pc, cur, back, count>>
callerVars == <<open, connector, budget, asked>>
vars == <<taskVars, cmd, callerVars, outcome, peer, replies, tries>>

TxnIds == 1..MaxTxn
Entry == [req : Requests, retry_attempts : Nat]
(* A reply is a server's response, known by the request it answers, or an   *)
(* error: ConnectionClosed for want of a connection ("GaveUp"), or any      *)
(* other, the loss of the sender included ("Failed").                       *)
Result == Requests \cup {"GaveUp", "Failed"}
Command == [op : {"Request"}, req : Requests]
             \cup [op : {"Connect", "Disconnect", "Shutdown"}]

Req(r) == [op |-> "Request", req |-> r]
Cmd(op) == [op |-> op]

InMap == {k \in TxnIds : pending[k] # None}

Init ==
  /\ transport = FALSE
  /\ pending = [k \in TxnIds |-> None]
  /\ queued = <<>>
  /\ next_txn_id = 1
  /\ in_flight = 0
  /\ pc = "fill"
  /\ cur = None
  /\ back = "fill"
  /\ count = 0
  /\ cmd = <<>>
  /\ open = TRUE
  /\ outcome = [r \in Requests |-> "idle"]
  /\ connector = FALSE
  /\ budget = [connect |-> MaxConnects, disconnect |-> MaxDisconnects]
  /\ peer = {}
  /\ replies = [r \in Requests |-> <<>>]
  /\ tries = [r \in Requests |-> 0]
  /\ asked = <<>>

-----------------------------------------------------------------------------
(* Replies.  The task answers, or drops, the oneshot sender of a request; a *)
(* caller that has given up no longer hears of it.                          *)

Reply2(S, res, T, err) ==
  /\ replies' = [r \in Requests |->
       CASE r \in S -> Append(replies[r], res)
         [] r \in T -> Append(replies[r], err)
         [] OTHER   -> replies[r]]
  /\ outcome' = [r \in Requests |->
       IF r \in S \cup T /\ outcome[r] = "waiting" THEN "returned" ELSE outcome[r]]

Reply(S, res) == Reply2(S, res, {}, "Failed")
NoReply == UNCHANGED <<replies, outcome>>

(* Dropping a TCP transport loses what the server had still to say on it; a *)
(* serial line outlives the port handle.                                    *)
TransportDropped ==
  /\ transport' = FALSE
  /\ peer' = IF IsTcp THEN {} ELSE peer

-----------------------------------------------------------------------------
(* Callers (AsyncClientCore).  Sending awaits room in the channel.          *)

TaskAlive == pc # "ended"
HasRoom == Len(cmd) < Capacity

SendRequest(r) ==
  /\ open /\ TaskAlive /\ HasRoom /\ outcome[r] = "idle"
  /\ cmd' = Append(cmd, Req(r))
  /\ outcome' = [outcome EXCEPT ![r] = "waiting"]
  /\ asked' = Append(asked, r)
  /\ UNCHANGED <<taskVars, open, connector, budget, peer, replies, tries>>

SendRequestClosed(r) ==
  /\ open /\ ~TaskAlive /\ outcome[r] = "idle"
  /\ outcome' = [outcome EXCEPT ![r] = "refused"]
  /\ UNCHANGED <<taskVars, cmd, callerVars, peer, replies, tries>>

TimeoutInSilence(r) ==
  /\ outcome[r] = "waiting"
  /\ outcome' = [outcome EXCEPT ![r] = "Timeout"]
  /\ UNCHANGED <<taskVars, cmd, callerVars, peer, replies, tries>>

(* The oneshot is not answered in time: the caller tries to leave a         *)
(* Disconnect in the channel, without waiting for room, and gives up.       *)
Timeout(r) ==
  /\ outcome[r] = "waiting"
  /\ outcome' = [outcome EXCEPT ![r] = "Timeout"]
  /\ cmd' = IF HasRoom /\ TaskAlive THEN Append(cmd, Cmd("Disconnect")) ELSE cmd
  /\ UNCHANGED <<taskVars, callerVars, peer, replies, tries>>

CallConnect ==
  /\ open /\ TaskAlive /\ HasRoom /\ ~connector /\ budget.connect > 0
  /\ cmd' = Append(cmd, Cmd("Connect"))
  /\ connector' = TRUE
  /\ budget' = [budget EXCEPT !.connect = @ - 1]
  /\ UNCHANGED <<taskVars, open, asked, outcome, peer, replies, tries>>

CallDisconnect ==
  /\ open /\ TaskAlive /\ HasRoom /\ budget.disconnect > 0
  /\ \E op \in {"Disconnect", "Shutdown"} : cmd' = Append(cmd, Cmd(op))
  /\ budget' = [budget EXCEPT !.disconnect = @ - 1]
  /\ UNCHANGED <<taskVars, open, connector, asked, outcome, peer, replies, tries>>

(* The last handle is dropped, which takes that no call is in progress.     *)
DropHandles ==
  /\ open /\ ~connector /\ \A r \in Requests : outcome[r] # "waiting"
  /\ open' = FALSE
  /\ UNCHANGED <<taskVars, cmd, connector, budget, asked, outcome, peer, replies, tries>>

-----------------------------------------------------------------------------
(* Helpers of ClientTask.                                                   *)

advance_txn_id == next_txn_id' = (next_txn_id % MaxTxn) + 1

(* The numbers in S, ascending.                                             *)
Ascending(S) == [i \in 1..Cardinality(S) |->
                   CHOOSE k \in S : Cardinality({j \in S : j <= k}) = i]

(* The transaction ids of the entries with an attempt left.                 *)
Again == {k \in InMap : pending[k].retry_attempts > 0}

RequeuedForFree == [i \in 1..Cardinality(Again) |-> pending[Ascending(Again)[i]]]

(* The entries to queue again, in the order of their transaction ids, with  *)
(* one attempt less; entries without an attempt left fail.                  *)
Requeued == [i \in 1..Cardinality(Again) |->
               [pending[Ascending(Again)[i]] EXCEPT !.retry_attempts = @ - 1]]

GivenUp == {pending[k].req : k \in {k \in InMap : pending[k].retry_attempts = 0}}

handle_connection_loss_keeps_count ==
  /\ queued' = Requeued \o queued
  /\ pending' = [k \in TxnIds |-> None]
  /\ UNCHANGED in_flight

handle_connection_loss ==
  /\ queued' = Requeued \o queued
  /\ pending' = [k \in TxnIds |-> None]
  /\ in_flight' = 0

Held == {pending[k].req : k \in InMap} \cup {queued[k].req : k \in DOMAIN queued}

drain_all_forgets_backlog ==
  /\ Reply({pending[k].req : k \in InMap}, "Failed")
  /\ pending' = [k \in TxnIds |-> None]
  /\ queued' = <<>>
  /\ in_flight' = 0

drain_all ==
  /\ Reply(Held, "Failed")
  /\ pending' = [k \in TxnIds |-> None]
  /\ queued' = <<>>
  /\ in_flight' = 0

RemoveEntry(k) ==
  /\ pending' = [pending EXCEPT ![k] = None]
  /\ in_flight' = IF in_flight = 0 THEN 0 ELSE in_flight - 1

(* The task returns: the receiver goes, and with it the commands still in   *)
(* the channel and their oneshot senders.                                   *)
InChannel == {cmd[k].req : k \in {k \in DOMAIN cmd : cmd[k].op = "Request"}}

-----------------------------------------------------------------------------
(* run(): fill the pipeline from the backlog, then wait.                    *)

PipelineHasRoom == in_flight < N

FillFromBacklog ==
  /\ pc = "fill" /\ PipelineHasRoom /\ queued # <<>>
  /\ cur' = Head(queued)
  /\ queued' = Tail(queued)
  /\ pc' = "dispatch" /\ back' = "fill"
  /\ UNCHANGED <<transport, pending, next_txn_id, in_flight, count, cmd, callerVars, outcome,
                 peer, replies, tries>>

FillSkipped ==
  /\ pc = "fill"
  /\ pc' = "select"
  /\ UNCHANGED <<transport, pending, queued, next_txn_id, in_flight, cur, back, count, cmd,
                 callerVars, outcome, peer, replies, tries>>

FillDone ==
  /\ pc = "fill" /\ (~PipelineHasRoom \/ queued = <<>>)
  /\ pc' = "select"
  /\ UNCHANGED <<transport, pending, queued, next_txn_id, in_flight, cur, back, count, cmd,
                 callerVars, outcome, peer, replies, tries>>

-----------------------------------------------------------------------------
(* dispatch_request: a loop over reconnect and send.                        *)

Dispatched == pc' = back /\ cur' = None /\ back' = "fill"
Spend(r) == tries' = [tries EXCEPT ![r] = @ + 1]

DispatchGivesUp ==
  /\ pc = "dispatch" /\ ~transport /\ cur.retry_attempts = 0
  /\ Reply({cur.req}, "GaveUp")
  /\ Dispatched
  /\ UNCHANGED <<transport, pending, queued, next_txn_id, in_flight, count, cmd,
                 callerVars, peer, tries>>

Reconnect ==
  /\ pc = "dispatch" /\ ~transport /\ cur.retry_attempts > 0
  /\ transport' = TRUE
  /\ UNCHANGED <<pending, queued, next_txn_id, in_flight, pc, cur, back, count, cmd,
                 callerVars, outcome, peer, replies, tries>>

ReconnectFails ==
  /\ pc = "dispatch" /\ ~transport /\ cur.retry_attempts > 0
  /\ Spend(cur.req)
  /\ IF cur.retry_attempts = 1
     THEN Reply({cur.req}, "Failed") /\ Dispatched
     ELSE NoReply /\ cur' = [cur EXCEPT !.retry_attempts = @ - 1] /\ UNCHANGED <<pc, back>>
  /\ UNCHANGED <<transport, pending, queued, next_txn_id, in_flight, count, cmd,
                 callerVars, peer>>

EncodeFails ==
  /\ pc = "dispatch" /\ transport /\ cur.req \in Unencodable
  /\ advance_txn_id
  /\ Reply({cur.req}, "Failed")
  /\ Dispatched
  /\ UNCHANGED <<transport, pending, queued, in_flight, count, cmd, callerVars, peer,
                 tries>>

(* A transaction id still in the map is overwritten, and the oneshot sender *)
(* of its entry dropped.                                                    *)
SendOk ==
  /\ pc = "dispatch" /\ transport /\ cur.req \notin Unencodable
  /\ advance_txn_id
  /\ pending' = [pending EXCEPT ![next_txn_id] = cur]
  /\ in_flight' = in_flight + 1
  /\ Reply({pending[k].req : k \in InMap \cap {next_txn_id}}, "Failed")
  /\ peer' = peer \cup {[txn_id |-> next_txn_id, req |-> cur.req]}
  /\ Spend(cur.req)
  /\ Dispatched
  /\ UNCHANGED <<transport, queued, count, cmd, callerVars>>

SendFails ==
  /\ pc = "dispatch" /\ transport /\ cur.req \notin Unencodable
  /\ advance_txn_id
  /\ TransportDropped
  /\ handle_connection_loss
  /\ Spend(cur.req)
  /\ IF cur.retry_attempts = 0
     THEN /\ Reply2(GivenUp, "GaveUp", {cur.req}, "Failed")
          /\ Dispatched
     ELSE /\ Reply(GivenUp, "GaveUp")
          /\ cur' = [cur EXCEPT !.retry_attempts = @ - 1] /\ UNCHANGED <<pc, back>>
  /\ UNCHANGED <<count, cmd, callerVars>>

-----------------------------------------------------------------------------
(* select!: a frame, a transport error, or a command.                       *)

Receiving == pc = "select" /\ transport /\ in_flight > 0

resolve_key_any(m) == InMap

(* resolve_key: by transaction id on TCP; any pending entry on a serial     *)
(* line, whose frames carry none.                                           *)
resolve_key(m) == IF IsTcp THEN InMap \cap {m.txn_id} ELSE InMap

process_frame(m) ==
  /\ Receiving /\ m \in peer
  /\ peer' = peer \ {m}
  /\ pc' = "fill"
  /\ \/ \E k \in resolve_key(m) : RemoveEntry(k) /\ Reply({pending[k].req}, m.req)
     \/ resolve_key(m) = {} /\ NoReply /\ UNCHANGED <<pending, in_flight>>
  /\ UNCHANGED <<transport, queued, next_txn_id, cur, back, count, cmd, callerVars, tries>>

(* A frame that cannot be decoded fails the entry the hash map yields       *)
(* first.  On a serial line it may have been noise, with the response still *)
(* to come.                                                                 *)
ReceiveDamaged(m) ==
  /\ Receiving /\ m \in peer
  /\ \/ peer' = peer \ {m}
     \/ ~IsTcp /\ UNCHANGED peer
  /\ pc' = "fill"
  /\ \/ \E k \in InMap : RemoveEntry(k) /\ Reply({pending[k].req}, "Failed")
     \/ InMap = {} /\ NoReply /\ UNCHANGED <<pending, in_flight>>
  /\ UNCHANGED <<transport, queued, next_txn_id, cur, back, count, cmd, callerVars, tries>>

ReceiveFails ==
  /\ Receiving
  /\ TransportDropped
  /\ handle_connection_loss
  /\ Reply(GivenUp, "GaveUp")
  /\ pc' = "fill"
  /\ UNCHANGED <<next_txn_id, cur, back, count, cmd, callerVars, tries>>

-----------------------------------------------------------------------------
(* handle_command, for the first command of a wake-up and for those taken   *)
(* in the same batch while the pipeline has room.                           *)

BatchGoesOn == pc = "batch" /\ PipelineHasRoom /\ count < BatchMax /\ cmd # <<>>
TakesCommand(op) ==
  /\ (pc = "select" /\ cmd # <<>>) \/ BatchGoesOn
  /\ Head(cmd).op = op
  /\ cmd' = Tail(cmd)
  /\ count' = IF pc = "select" THEN 1 ELSE count + 1

HandleRequest ==
  /\ TakesCommand("Request")
  /\ LET e == [req |-> Head(cmd).req, retry_attempts |-> Attempts[Head(cmd).req]]
     IN  \/ /\ PipelineHasRoom
            /\ cur' = e /\ pc' = "dispatch" /\ back' = "batch"
            /\ UNCHANGED queued
         \/ /\ ~PipelineHasRoom
            /\ queued' = Append(queued, e)
            /\ pc' = "batch"
            /\ UNCHANGED <<cur, back>>
  /\ UNCHANGED <<transport, pending, next_txn_id, in_flight, callerVars, outcome, peer,
                 replies, tries>>

(* do_connect drops the old transport first and leaves pending alone.       *)
HandleConnect ==
  /\ TakesCommand("Connect")
  /\ TransportDropped
  /\ pc' = "connect"
  /\ UNCHANGED <<pending, queued, next_txn_id, in_flight, cur, back, callerVars, outcome,
                 replies, tries>>

ConnectDone(ok) ==
  /\ pc = "connect"
  /\ transport' = ok
  /\ connector' = FALSE
  /\ pc' = "batch"
  /\ UNCHANGED <<pending, queued, next_txn_id, in_flight, cur, back, count, cmd, open, budget,
                 asked, outcome, peer, replies, tries>>

(* The application's, or that of a caller whose request timed out.          *)
HandleDisconnect ==
  /\ TakesCommand("Disconnect")
  /\ drain_all
  /\ TransportDropped
  /\ pc' = "batch"
  /\ UNCHANGED <<next_txn_id, cur, back, callerVars, tries>>

(* The task ends at Shutdown, or when every handle is gone.  What it holds  *)
(* and what is still in the channel is dropped.                             *)
TaskEnds ==
  /\ pc' = "ended" /\ count' = 0
  /\ TransportDropped
  /\ cmd' = <<>>
  /\ pending' = [k \in TxnIds |-> None]
  /\ queued' = <<>>
  /\ in_flight' = 0
  /\ connector' = FALSE
  /\ UNCHANGED <<next_txn_id, cur, back, open, budget, asked, tries>>

HandleShutdown ==
  /\ (pc = "select" /\ cmd # <<>>) \/ BatchGoesOn
  /\ Head(cmd).op = "Shutdown"
  /\ Reply(Held \cup InChannel, "Failed")
  /\ TaskEnds

ChannelClosed ==
  /\ pc = "select" /\ cmd = <<>> /\ ~open
  /\ Reply(Held, "Failed")
  /\ TaskEnds

BatchDone ==
  /\ pc = "batch" /\ ~BatchGoesOn
  /\ pc' = "fill" /\ count' = 0
  /\ UNCHANGED <<transport, pending, queued, next_txn_id, in_flight, cur, back, cmd,
                 callerVars, outcome, peer, replies, tries>>

-----------------------------------------------------------------------------
CallerStep ==
  \/ \E r \in Requests : SendRequest(r) \/ SendRequestClosed(r) \/ Timeout(r)
  \/ CallConnect \/ CallDisconnect \/ DropHandles

(* What the task does of its own accord; its awaits on connect and send end. *)
TaskStep ==
  \/ FillFromBacklog \/ FillDone
  \/ DispatchGivesUp \/ Reconnect \/ ReconnectFails \/ EncodeFails \/ SendOk \/ SendFails
  \/ HandleRequest \/ HandleConnect \/ \E ok \in BOOLEAN : ConnectDone(ok)
  \/ HandleDisconnect \/ HandleShutdown \/ ChannelClosed \/ BatchDone

(* What the task does when the link delivers something.                     *)
LinkStep == ReceiveFails \/ \E m \in peer : process_frame(m) \/ ReceiveDamaged(m)

Next == CallerStep \/ TaskStep \/ LinkStep

Spec == Init /\ [][Next]_vars

(* The runtime schedules the task, connect and send return, and the timers  *)
(* of callers fire.  Nothing is assumed of the server or the link.          *)
LiveSpec == Spec /\ WF_vars(TaskStep) /\ \A r \in Requests : WF_vars(Timeout(r))

-----------------------------------------------------------------------------
(* Properties.                                                              *)

TypeOK ==
  /\ transport \in BOOLEAN /\ open \in BOOLEAN /\ connector \in BOOLEAN
  /\ pending \in [TxnIds -> Entry \cup {None}]
  /\ queued \in Seq(Entry)
  /\ next_txn_id \in TxnIds /\ in_flight \in 0..N
  /\ pc \in {"fill", "dispatch", "select", "batch", "connect", "ended"}
  /\ cur \in Entry \cup {None} /\ (pc = "dispatch" <=> cur # None)
  /\ back \in {"fill", "batch"} /\ count \in 0..BatchMax
  /\ cmd \in Seq(Command) /\ Len(cmd) <= Capacity
  /\ outcome \in [Requests -> {"idle", "waiting", "returned", "Timeout", "refused"}]
  /\ budget \in [connect : 0..MaxConnects, disconnect : 0..MaxDisconnects]
  /\ peer \subseteq [txn_id : TxnIds, req : Requests]
  /\ replies \in [Requests -> Seq(Result)]
  /\ tries \in [Requests -> Nat]
  /\ asked \in Seq(Requests)

(* The places a request of which the channel was handed the command can be. *)
Places(r) ==
  {<<"cmd", k>> : k \in {k \in DOMAIN cmd : cmd[k] = Req(r)}}
    \cup {<<"queued", k>> : k \in {k \in DOMAIN queued : queued[k].req = r}}
    \cup {<<"pending", k>> : k \in {k \in InMap : pending[k].req = r}}
    \cup {<<"cur", 0>> : k \in {e \in {cur} \ {None} : e.req = r}}

(* in_flight is the size of the pending map, as its comment says, through   *)
(* connection loss, damaged frames, reconnects and drains: it neither leaks *)
(* a slot of the pipeline nor lets it grow past N.                          *)
InFlightExact == in_flight = Cardinality(InMap) /\ in_flight <= N

(* Sends and failed reconnects together never exceed the configured retries *)
(* and the first attempt, over all the ways dispatch_request and            *)
(* handle_connection_loss spend an attempt.                                 *)
RetryBudget == \A r \in Requests : tries[r] <= Attempts[r] + 1

(* On TCP the reply to a request is the server's response to that request,  *)
(* also when responses come late, out of order, on a later connection or    *)
(* after a damaged frame failed another entry.                              *)
ResponseMatchesRequest ==
  \A r \in Requests : \A k \in DOMAIN replies[r] :
    replies[r][k] \in Requests => replies[r][k] = r

(* Requests are tried for the first time in the order in which callers      *)
(* submitted them: neither the backlog, nor the batch of commands taken     *)
(* after a wake-up, nor re-queued requests let a later one overtake one     *)
(* that is still to be sent.                                                *)
FirstTryInOrder ==
  \A i, j \in DOMAIN asked :
    i < j /\ tries[asked[j]] > 0 => tries[asked[i]] > 0 \/ replies[asked[i]] # <<>>

(* Every request the channel takes is released by the task in the end, even *)
(* if the server never answers and the link never fails: what its caller    *)
(* leaves behind at a time-out does not stay in the map or in the backlog.  *)
EventuallyReleased ==
  \A r \in Requests : (outcome[r] = "waiting") ~> (Places(r) = {})

(* What the client promises its application: see RequestLedger.             *)
LedgerStatus ==
  [r \in Requests |->
     CASE outcome[r] = "idle"    -> "new"
       [] outcome[r] = "refused" -> "declined"
       [] Cardinality(Places(r)) = 1 /\ replies[r] = <<>> -> "pending"
       [] Places(r) = {} /\ Len(replies[r]) = 1 -> "answered"
       [] OTHER                  -> "lost or answered twice"]
Ledger == INSTANCE RequestLedger WITH status <- LedgerStatus

(* The asynchronous client implements the request ledger: a command it took *)
(* is pending while exactly one part of the task holds it (channel,         *)
(* dispatch_request, pending map or backlog), and from then on answered,    *)
(* exactly once and for good.  Nothing is lost or sent twice, however often *)
(* the connection is lost in between (handle_connection_loss, drain_all,    *)
(* the end of the task).                                                    *)
ImplementsLedger == Ledger!Spec
=============================================================================
