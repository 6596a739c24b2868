----------------------------- MODULE WasmClient -----------------------------
(***************************************************************************)
(* The browser client (mbus-ffi, wasm): calls of a JavaScript program,     *)
(* each a promise with a time-out and an abort signal, a background task   *)
(* that sends them and matches the responses, and the transport object     *)
(* that replaces channel, connection and task when it reconnects.          *)
(*                                                                         *)
(* Everything runs on the one thread of the browser: a step of the model   *)
(* is what happens between two awaits.  Futures given to spawn_local start *)
(* in the order in which they were spawned.  A generation is one channel,  *)
(* the connection made together with it and the task spawned for both.     *)
(***************************************************************************)
EXTENDS Integers, Sequences, FiniteSets, SequencesExt

CONSTANTS
  Calls,       \* calls the program makes
  Serial,      \* responses carry no transaction id
  MaxTxn,      \* bound: u16::MAX
  CountMod,    \* bound: 2^32, the range of usize in the browser
  MaxResets,   \* bound: calls to reconnect and close
  Overlap,     \* the program may reconnect again before the promise settles
  None

Gens == 0..MaxResets
TxnIds == 1..MaxTxn
Replies == Calls \cup {"failed"}    \* the response to a call, or an error

ASSUME WasmAssumption ==
  /\ MaxTxn \in Nat \ {0} /\ CountMod \in Nat \ {0, 1} /\ MaxResets \in Nat
  /\ Serial \in BOOLEAN /\ Overlap \in BOOLEAN
ASSUME CallsAssumption == "failed" \notin Calls /\ None \notin Replies /\ None \notin Gens

VARIABLES
  phase,             \* of a call: idle, waiting, settled
  oneshot,           \* the reply on its way to the call, or None
  outcome,           \* how the call was settled, or None
  pending_count,
  cmd_tx,            \* the generation whose channel calls are sent to, or None
  active_transport,  \* the connection that waits for a task, or None
  chan,              \* generation -> the calls in its channel
  task,              \* generation -> unborn, spawned, running, gone
  transport,         \* generation -> the connection its task uses, or None
  pending,           \* generation -> transaction id -> call, or None
  next_txn_id,       \* generation -> the next transaction id
  open,              \* the connections that are open
  sent,              \* connection -> requests without a response as yet
  spawned,           \* futures spawned and not started
  resets,            \* calls made to reconnect and close
  miscounted         \* history: the count was reset with calls in flight

taskVars == <<chan, task, transport, pending, next_txn_id>>
callVars == <<phase, outcome, pending_count>>
lifeVars == <<cmd_tx, active_transport, spawned, resets, miscounted>>
vars == <<phase, oneshot, outcome, pending_count, cmd_tx, active_transport, chan, task,
          transport, pending, next_txn_id, open, sent, spawned, resets, miscounted>>

Start(g) == [at |-> "start", gen |-> g]
Reconnection == [at |-> "reconnect", gen |-> None]
NoPending == [x \in TxnIds |-> None]

(* connect_rust, and the start of the task it spawns.                      *)
Init ==
  /\ phase = [r \in Calls |-> "idle"]
  /\ oneshot = [r \in Calls |-> None] /\ outcome = [r \in Calls |-> None]
  /\ pending_count = 0
  /\ cmd_tx = 0 /\ active_transport = None
  /\ chan = [g \in Gens |-> <<>>]
  /\ task = [g \in Gens |-> IF g = 0 THEN "running" ELSE "unborn"]
  /\ transport = [g \in Gens |-> IF g = 0 THEN 0 ELSE None]
  /\ pending = [g \in Gens |-> NoPending]
  /\ next_txn_id = [g \in Gens |-> 1]
  /\ open = {0} /\ sent = [g \in Gens |-> {}]
  /\ spawned = <<>> /\ resets = 0 /\ miscounted = FALSE

-----------------------------------------------------------------------------
Waiting == {r \in Calls : phase[r] = "waiting"}
Listening(g) == task[g] \in {"spawned", "running"}
Connected == IF cmd_tx = None THEN FALSE ELSE Listening(cmd_tx)
CallsIn(p) == {p[x] : x \in TxnIds} \ {None}

(* A reply is lost when the call has been settled meanwhile; a sender that  *)
(* is dropped with its container tells the call so.                         *)
Replied(rs, reply) ==
  [r \in Calls |-> IF r \in rs /\ phase[r] = "waiting" /\ oneshot[r] = None
                   THEN reply ELSE oneshot[r]]

Decremented == (pending_count + CountMod - 1) % CountMod

-----------------------------------------------------------------------------
(* WasmModbusClient::dispatch and the future it spawns.                     *)

Dispatch(r) ==
  /\ phase[r] = "idle"
  /\ Connected
  /\ chan' = [chan EXCEPT ![cmd_tx] = Append(@, r)]
  /\ phase' = [phase EXCEPT ![r] = "waiting"]
  /\ pending_count' = (pending_count + 1) % CountMod
  /\ UNCHANGED <<oneshot, outcome, task, transport, pending, next_txn_id, open, sent, lifeVars>>

Refused(r) ==
  /\ phase' = [phase EXCEPT ![r] = "settled"]
  /\ outcome' = [outcome EXCEPT ![r] = "failed"]
  /\ UNCHANGED <<oneshot, taskVars, open, sent, lifeVars>>

(* The signal was aborted before the call: the count goes up and down.      *)
DispatchAborted(r) ==
  /\ phase[r] = "idle"
  /\ Refused(r) /\ UNCHANGED pending_count

DispatchClosedKeepsCount(r) ==
  /\ phase[r] = "idle" /\ ~Connected
  /\ Refused(r) /\ pending_count' = (pending_count + 1) % CountMod

(* There is no receiver, and likewise.                                      *)
DispatchClosed(r) ==
  /\ phase[r] = "idle" /\ ~Connected
  /\ Refused(r) /\ UNCHANGED pending_count

Settled(r, how) ==
  /\ phase' = [phase EXCEPT ![r] = "settled"]
  /\ outcome' = [outcome EXCEPT ![r] = how]
  /\ oneshot' = [oneshot EXCEPT ![r] = None]
  /\ pending_count' = Decremented
  /\ UNCHANGED <<taskVars, open, sent, lifeVars>>

Respond(r) == phase[r] = "waiting" /\ oneshot[r] # None /\ Settled(r, oneshot[r])

(* Time-out or abort; the entry stays in the channel or with the task.      *)
GiveUp(r) == phase[r] = "waiting" /\ Settled(r, "failed")

-----------------------------------------------------------------------------
(* The transport object.                                                    *)

CallReconnect ==
  /\ resets < MaxResets
  /\ Overlap \/ ~Contains(spawned, Reconnection)
  /\ spawned' = Append(spawned, Reconnection)
  /\ resets' = resets + 1
  /\ UNCHANGED <<callVars, oneshot, taskVars, open, sent, cmd_tx, active_transport, miscounted>>

CountReset ==
  /\ pending_count' = 0
  /\ miscounted' = (miscounted \/ Waiting # {})
  /\ UNCHANGED <<phase, outcome>>

Unborn == {g \in Gens : task[g] = "unborn"}

(* The future of reconnect: it has no await before it resolves, and drops   *)
(* the sender of the channel in use.                                        *)
RunReconnect ==
  /\ spawned # <<>> /\ Head(spawned) = Reconnection
  /\ \E g \in Unborn : \A h \in Unborn :
       /\ g <= h
       /\ cmd_tx' = g /\ active_transport' = g
       /\ open' = (open \ {active_transport}) \cup {g}
       /\ task' = [task EXCEPT ![g] = "spawned"]
       /\ spawned' = Append(Tail(spawned), Start(g))
  /\ CountReset
  /\ UNCHANGED <<oneshot, chan, transport, pending, next_txn_id, sent, resets>>

RunReconnectFailsSwapped ==
  /\ spawned # <<>> /\ Head(spawned) = Reconnection
  /\ spawned' = Tail(spawned)
  /\ \E g \in Unborn : cmd_tx' = g /\ task' = [task EXCEPT ![g] = "gone"]
  /\ UNCHANGED <<callVars, oneshot, chan, transport, pending, next_txn_id, open, sent, active_transport,
                 resets, miscounted>>

(* The connection is refused and the promise rejected.                      *)
RunReconnectFails ==
  /\ spawned # <<>> /\ Head(spawned) = Reconnection
  /\ spawned' = Tail(spawned)
  /\ UNCHANGED <<callVars, oneshot, taskVars, open, sent, cmd_tx, active_transport, resets, miscounted>>

Close ==
  /\ resets < MaxResets /\ resets' = resets + 1
  /\ cmd_tx' = None /\ active_transport' = None
  /\ open' = open \ {active_transport}
  /\ CountReset
  /\ UNCHANGED <<oneshot, taskVars, sent, spawned>>

(* The future that was spawned for a generation takes the connection that   *)
(* waits, whichever it is, and drops its channel when there is none.        *)
StartTask ==
  /\ spawned # <<>> /\ Head(spawned).at = "start"
  /\ spawned' = Tail(spawned)
  /\ active_transport' = None
  /\ LET g == Head(spawned).gen IN
     IF active_transport # None
     THEN /\ task' = [task EXCEPT ![g] = "running"]
          /\ transport' = [transport EXCEPT ![g] = active_transport]
          /\ UNCHANGED <<oneshot, chan>>
     ELSE /\ task' = [task EXCEPT ![g] = "gone"]
          /\ oneshot' = Replied(ToSet(chan[g]), "failed")
          /\ chan' = [chan EXCEPT ![g] = <<>>]
          /\ UNCHANGED transport
  /\ UNCHANGED <<callVars, pending, next_txn_id, open, sent, cmd_tx, resets, miscounted>>

-----------------------------------------------------------------------------
(* WasmClientTask.                                                          *)

Running(g) == task[g] = "running"
InFlight(g) == CallsIn(pending[g])

advance_txn_id(g) == [next_txn_id EXCEPT ![g] = IF @ = MaxTxn THEN 1 ELSE @ + 1]

(* drain_all_with_error, and then the task is dropped, with its channel and  *)
(* its connection.                                                          *)
TaskEnds(g) ==
  /\ task' = [task EXCEPT ![g] = "gone"]
  /\ oneshot' = Replied(InFlight(g) \cup ToSet(chan[g]), "failed")
  /\ pending' = [pending EXCEPT ![g] = NoPending]
  /\ next_txn_id' = [next_txn_id EXCEPT ![g] = 1]
  /\ chan' = [chan EXCEPT ![g] = <<>>]
  /\ open' = open \ {transport[g]}
  /\ sent' = [sent EXCEPT ![transport[g]] = {}]
  /\ UNCHANGED <<callVars, transport, lifeVars>>

ChannelClosedWhenIdle(g) ==
  /\ Running(g) /\ chan[g] = <<>> /\ cmd_tx # g /\ InFlight(g) = {}
  /\ TaskEnds(g)

(* Calls that are still in the channel come first.                          *)
ChannelClosed(g) ==
  /\ Running(g) /\ chan[g] = <<>> /\ cmd_tx # g
  /\ TaskEnds(g)

HandleCommand(g) ==
  /\ Running(g) /\ chan[g] # <<>> /\ transport[g] \in open
  /\ LET r == Head(chan[g])
         x == next_txn_id[g] IN
     /\ oneshot' = Replied({pending[g][x]}, "failed")
     /\ pending' = [pending EXCEPT ![g][x] = r]
     /\ sent' = [sent EXCEPT ![transport[g]] = @ \cup {<<x, r>>}]
  /\ chan' = [chan EXCEPT ![g] = Tail(@)]
  /\ next_txn_id' = advance_txn_id(g)
  /\ UNCHANGED <<callVars, task, transport, open, lifeVars>>

CommandRefusedSilently(g) ==
  /\ Running(g) /\ chan[g] # <<>>
  /\ chan' = [chan EXCEPT ![g] = Tail(@)]
  /\ next_txn_id' \in {next_txn_id, advance_txn_id(g)}
  /\ UNCHANGED <<callVars, oneshot, task, transport, pending, open, sent, lifeVars>>

(* The request cannot be built, or (an id later) not be encoded or sent.    *)
CommandRefused(g) ==
  /\ Running(g) /\ chan[g] # <<>>
  /\ oneshot' = Replied({Head(chan[g])}, "failed")
  /\ chan' = [chan EXCEPT ![g] = Tail(@)]
  /\ \/ next_txn_id' = next_txn_id
     \/ next_txn_id' = advance_txn_id(g)
  /\ UNCHANGED <<callVars, task, transport, pending, open, sent, lifeVars>>

KeyAny(g, x) == {y \in TxnIds : pending[g][y] # None}

(* The entry a response goes to: the map's first key, which may be any,     *)
(* when the response has no transaction id.                                 *)
Key(g, x) ==
  IF Serial THEN {y \in TxnIds : pending[g][y] # None} ELSE {x}

(* A frame comes and process_frame looks for its entry.                     *)
ProcessFrame(g) ==
  /\ Running(g) /\ InFlight(g) # {} /\ transport[g] \in open
  /\ \E f \in sent[transport[g]] : \E y \in Key(g, f[1]) :
       /\ sent' = [sent EXCEPT ![transport[g]] = @ \ {f}]
       /\ oneshot' = Replied({pending[g][y]}, f[2])
       /\ pending' = [pending EXCEPT ![g][y] = None]
  /\ UNCHANGED <<callVars, chan, task, transport, next_txn_id, open, lifeVars>>

(* A frame that cannot be decoded fails any one entry.                      *)
ProcessDamaged(g) ==
  /\ Running(g) /\ InFlight(g) # {} /\ transport[g] \in open
  /\ \E f \in sent[transport[g]], y \in TxnIds :
       /\ pending[g][y] # None
       /\ sent' = [sent EXCEPT ![transport[g]] = @ \ {f}]
       /\ oneshot' = Replied({pending[g][y]}, "failed")
       /\ pending' = [pending EXCEPT ![g][y] = None]
  /\ UNCHANGED <<callVars, chan, task, transport, next_txn_id, open, lifeVars>>

(* recv_frame is only awaited with requests in flight: the loss of a        *)
(* connection that is idle goes unnoticed.                                  *)
ReceiveFails(g) ==
  /\ Running(g) /\ InFlight(g) # {} /\ transport[g] \notin open
  /\ TaskEnds(g)

(* A frame with an impossible length ends the task too.                     *)
ReceiveMalformed(g) ==
  /\ Running(g) /\ InFlight(g) # {} /\ transport[g] \in open
  /\ sent[transport[g]] # {}
  /\ TaskEnds(g)

ConnectionLost(g) ==
  /\ g \in open
  /\ open' = open \ {g}
  /\ sent' = [sent EXCEPT ![g] = {}]
  /\ UNCHANGED <<callVars, oneshot, taskVars, lifeVars>>

-----------------------------------------------------------------------------
CallStep(r) ==
  Dispatch(r) \/ DispatchAborted(r) \/ DispatchClosed(r) \/ Respond(r) \/ GiveUp(r)
RunSpawned == RunReconnect \/ RunReconnectFails \/ StartTask
TaskStep(g) == ChannelClosed(g) \/ HandleCommand(g) \/ CommandRefused(g) \/ ReceiveFails(g)
LinkStep(g) ==
  ProcessFrame(g) \/ ProcessDamaged(g) \/ ReceiveMalformed(g) \/ ConnectionLost(g)

Next ==
  \/ \E r \in Calls : CallStep(r)
  \/ CallReconnect \/ Close \/ RunSpawned
  \/ \E g \in Gens : TaskStep(g) \/ LinkStep(g)

Spec == Init /\ [][Next]_vars

(* The browser runs whatever can run.  Nothing is assumed of the server,    *)
(* nor of the timers.                                                       *)
FairSpec ==
  /\ Spec
  /\ WF_vars(RunSpawned)
  /\ \A r \in Calls : WF_vars(Respond(r))
  /\ \A g \in Gens : WF_vars(TaskStep(g))

-----------------------------------------------------------------------------
(* Properties.                                                              *)

TypeOK ==
  /\ phase \in [Calls -> {"idle", "waiting", "settled"}]
  /\ oneshot \in [Calls -> Replies \cup {None}]
  /\ outcome \in [Calls -> Replies \cup {None}]
  /\ pending_count \in 0..(CountMod - 1)
  /\ cmd_tx \in Gens \cup {None} /\ active_transport \in Gens \cup {None}
  /\ chan \in [Gens -> Seq(Calls)]
  /\ task \in [Gens -> {"unborn", "spawned", "running", "gone"}]
  /\ transport \in [Gens -> Gens \cup {None}]
  /\ pending \in [Gens -> [TxnIds -> Calls \cup {None}]]
  /\ next_txn_id \in [Gens -> TxnIds]
  /\ open \subseteq Gens /\ sent \in [Gens -> SUBSET (TxnIds \X Calls)]
  /\ spawned \in Seq({Start(g) : g \in Gens} \cup {Reconnection})
  /\ resets \in 0..MaxResets /\ miscounted \in BOOLEAN

Places(r) ==
  {p \in UNION {{g} \X DOMAIN chan[g] : g \in Gens} : chan[p[1]][p[2]] = r}
    \cup {p \in Gens \X {-x : x \in TxnIds} : pending[p[1]][-p[2]] = r}

(* Exactly one reply can reach a call that waits: its sender is in one      *)
(* channel somebody reads or with one task that runs, or it has been used,  *)
(* whatever was closed, replaced or lost meanwhile.                         *)
HeldOnce ==
  \A r \in Waiting :
    /\ Cardinality(Places(r)) + (IF oneshot[r] = None THEN 0 ELSE 1) = 1
    /\ \A p \in Places(r) : Listening(p[1])

(* A call is settled with the response to its own request, also when        *)
(* others gave up, and across reconnections, where the ids start again.     *)
ResponseMatchesRequest == \A r \in Calls : outcome[r] \in Calls => outcome[r] = r

(* pendingRequests counts the calls that wait, as long as neither close     *)
(* nor reconnect met any.                                                   *)
CountExact == ~miscounted => pending_count = Cardinality(Waiting)

(* What reconnect promises when it resolves: the channel that calls are     *)
(* sent to is read by a task that has the connection made for it.           *)
ReconnectServes ==
  cmd_tx # None /\ spawned = <<>> => transport[cmd_tx] = cmd_tx

Cut(r) ==
  /\ phase[r] = "waiting"
  /\ \E g \in Gens \ {cmd_tx} : Contains(chan[g], r) \/ r \in InFlight(g)

(* reconnect and close discard the requests in flight: a call cut off from  *)
(* the channel in use is settled, without help of its timer and of the      *)
(* server.                                                                  *)
DiscardedSettle == \A r \in Calls : Cut(r) ~> phase[r] = "settled"
=============================================================================
