-------------------------- MODULE WasmClientProofs --------------------------
(***************************************************************************)
(* Proofs about WasmClient, for any number of calls, reconnections and     *)
(* transaction ids.                                                        *)
(*                                                                         *)
(* HeldOnce rests on where the oneshot senders are: Placed (no sender is   *)
(* in two places), Served (only where somebody will look for it) and Owed  *)
(* (a call waits exactly as long as its sender is somewhere or its reply   *)
(* is on the way).                                                         *)
(*                                                                         *)
(* Three results have a hypothesis. ResponsesMatch excludes serial links,  *)
(* which carry no transaction id, and the reuse of an id while a request   *)
(* that carried it is unanswered. CountsExact excludes more calls than the *)
(* counter can count. ReconnectionsServe excludes reconnect() calls that   *)
(* overlap.                                                                *)
(***************************************************************************)
EXTENDS WasmClient, FiniteSetTheorems, SequenceTheorems, TLAPS

(* A spawned task is started once, and it is the one its generation is      *)
(* waiting for.                                                             *)
Started ==
  /\ \A k \in DOMAIN spawned :
       spawned[k].at = "start" => task[spawned[k].gen] = "spawned"
  /\ \A j, k \in DOMAIN spawned :
       spawned[j].at = "start" /\ spawned[j] = spawned[k] => j = k

(* No oneshot sender is in two places: two commands of the channels, two    *)
(* entries of the pending maps, or one of each.                             *)
Placed ==
  /\ \A g, h \in Gens : \A k \in DOMAIN chan[g], l \in DOMAIN chan[h] :
       chan[g][k] = chan[h][l] => g = h /\ k = l
  /\ \A g, h \in Gens : \A x, y \in TxnIds :
       pending[g][x] # None /\ pending[g][x] = pending[h][y] => g = h /\ x = y
  /\ \A g, h \in Gens : \A k \in DOMAIN chan[g], y \in TxnIds : chan[g][k] # pending[h][y]

(* Commands are only in channels somebody will read, and entries only in    *)
(* the pending map of a task that runs.                                     *)
Served ==
  /\ \A g \in Gens : chan[g] # <<>> => Listening(g)
  /\ \A g \in Gens, x \in TxnIds : pending[g][x] # None => Running(g)

(* The sender of call r is in a channel or in a pending map.                *)
Held(r) ==
  \E g \in Gens : \/ \E k \in DOMAIN chan[g] : chan[g][k] = r
                  \/ \E x \in TxnIds : pending[g][x] = r
(* A call waits for its reply exactly as long as its sender is held or the  *)
(* reply is in its oneshot.                                                 *)
Owed ==
  \A r \in Calls :
    /\ phase[r] = "idle" => ~Held(r)
    /\ phase[r] # "waiting" => oneshot[r] = None
    /\ phase[r] = "waiting" => (oneshot[r] = None <=> Held(r))

(* A connection is used by one task, or still waits for the one that will   *)
(* take it.                                                                 *)
OneTask ==
  /\ active_transport # None => task[active_transport] # "unborn"
  /\ \A g \in Gens : transport[g] # None =>
       transport[g] # active_transport /\ task[transport[g]] # "unborn"
  /\ \A g, h \in Gens : transport[g] # None /\ transport[g] = transport[h] => g = h

(* What the peer owes under a transaction id is what the task waits for     *)
(* under that id, if it waits at all.                                       *)
Awaited ==
  \A g \in Gens : transport[g] # None =>
    \A f \in sent[transport[g]] : pending[g][f[1]] # None => pending[g][f[1]] = f[2]

(* A reply on its way, or taken, is the one to the caller's request.        *)
OwnReply ==
  \A r \in Calls : /\ oneshot[r] \in Calls => oneshot[r] = r
                   /\ outcome[r] \in Calls => outcome[r] = r

(* With one reconnection at a time: at most one task waits to be started,   *)
(* on the connection that waits for it, and the commands' channel is the    *)
(* one of the task that has its own connection.                             *)
NewestServed ==
  \/ /\ spawned \in {<<>>, <<Reconnection>>}
     /\ active_transport = None
     /\ cmd_tx # None => transport[cmd_tx] = cmd_tx
  \/ \E g \in Gens :
       /\ spawned \in {<<Start(g)>>, <<Start(g), Reconnection>>}
       /\ <<cmd_tx, active_transport>> \in {<<g, g>>, <<None, None>>}

-----------------------------------------------------------------------------
(* What may be spawned.                                                     *)
Future == {Start(g) : g \in Gens} \cup {Reconnection}

(* Taking the head of a sequence moves every other element by one.          *)
LEMMA TailFacts ==
  ASSUME NEW S, NEW s \in Seq(S), s # <<>>
  PROVE  /\ Head(s) \in S /\ Head(s) = s[1] /\ 1 \in DOMAIN s /\ Tail(s) \in Seq(S)
         /\ Len(s) \in Nat /\ DOMAIN s = 1..Len(s) /\ DOMAIN Tail(s) = 1..(Len(s) - 1)
         /\ \A k \in 1..(Len(s) - 1) : Tail(s)[k] = s[k + 1]
<1>1. Len(s) \in Nat \ {0} /\ DOMAIN s = 1..Len(s)
  BY EmptySeq, LenProperties
<1>2. /\ Head(s) \in S /\ Tail(s) \in Seq(S) /\ Len(Tail(s)) = Len(s) - 1
      /\ \A k \in 1..Len(Tail(s)) : Tail(s)[k] = s[k + 1]
  BY HeadTailProperties
<1>3. DOMAIN Tail(s) = 1..Len(Tail(s))
  BY <1>2, LenProperties
<1>4. Head(s) = s[1]
  OBVIOUS
<1> QED
  BY <1>1, <1>2, <1>3, <1>4

(* Appending leaves the other elements where they are.                      *)
LEMMA AppendFacts ==
  ASSUME NEW S, NEW s \in Seq(S), NEW x \in S
  PROVE  /\ Append(s, x) \in Seq(S) /\ Append(s, x) # <<>>
         /\ Len(s) \in Nat /\ DOMAIN s = 1..Len(s) /\ DOMAIN Append(s, x) = 1..(Len(s) + 1)
         /\ \A k \in 1..Len(s) : Append(s, x)[k] = s[k]
         /\ Append(s, x)[Len(s) + 1] = x
BY AppendProperties, LenProperties

(* A reconnection starts a generation nobody has used.                      *)
LEMMA FreshGeneration ==
  ASSUME TypeOK, RunReconnect
  PROVE  \E g \in Gens : /\ task[g] = "unborn"
                         /\ cmd_tx' = g /\ active_transport' = g
                         /\ open' = (open \ {active_transport}) \cup {g}
                         /\ task' = [task EXCEPT ![g] = "spawned"]
                         /\ spawned' = Append(Tail(spawned), Start(g))
BY DEF RunReconnect, Unborn

(* Replying to any set of calls keeps the oneshots typed.                   *)
LEMMA RepliedType ==
  ASSUME TypeOK, NEW rs, NEW reply \in Replies
  PROVE  Replied(rs, reply) \in [Calls -> Replies \cup {None}]
BY DEF Replied, TypeOK

(* The counter stays in its width.                                          *)
LEMMA CountTypes ==
  ASSUME TypeOK
  PROVE  (pending_count + 1) % CountMod \in 0..(CountMod - 1) /\ Decremented \in 0..(CountMod - 1)
BY WasmAssumption DEF TypeOK, Decremented

(* The next transaction id is one.                                          *)
LEMMA AdvanceType ==
  ASSUME TypeOK, NEW g \in Gens
  PROVE  advance_txn_id(g) \in [Gens -> TxnIds]
BY WasmAssumption DEF TypeOK, advance_txn_id, TxnIds

(* The end of a task keeps the types.                                       *)
LEMMA EndsType ==
  ASSUME TypeOK, NEW g \in Gens, TaskEnds(g)
  PROVE  TypeOK'
<1> USE WasmAssumption, CallsAssumption DEF TypeOK
<1>1. oneshot' \in [Calls -> Replies \cup {None}]
  BY RepliedType DEF TaskEnds, Replies
<1>2. pending' \in [Gens -> [TxnIds -> Calls \cup {None}]]
  BY DEF TaskEnds, NoPending
<1>3. <<>> \in Seq(Calls)
  BY EmptySeq
<1>4. chan' \in [Gens -> Seq(Calls)]
  BY <1>3 DEF TaskEnds
<1>5. next_txn_id' \in [Gens -> TxnIds]
  BY DEF TaskEnds, TxnIds
<1>6. /\ task' \in [Gens -> {"unborn", "spawned", "running", "gone"}]
      /\ open' \subseteq Gens /\ sent' \in [Gens -> SUBSET (TxnIds \X Calls)]
  BY DEF TaskEnds
<1> QED
  BY <1>1, <1>2, <1>4, <1>5, <1>6 DEF TaskEnds, callVars, lifeVars

(* No step breaks the type invariant.                                       *)
LEMMA TypeStep ==
  ASSUME TypeOK, [Next]_vars
  PROVE  TypeOK'
<1> USE WasmAssumption, CallsAssumption DEF TypeOK
<1>1. ASSUME NEW r \in Calls, Dispatch(r) PROVE TypeOK'
  <2>1. cmd_tx \in Gens
    BY <1>1 DEF Dispatch, Connected
  <2>2. Append(chan[cmd_tx], r) \in Seq(Calls)
    BY <2>1, AppendFacts
  <2>3. chan' \in [Gens -> Seq(Calls)]
    BY <1>1, <2>1, <2>2 DEF Dispatch
  <2>4. pending_count' \in 0..(CountMod - 1)
    BY <1>1, CountTypes DEF Dispatch
  <2> QED
    BY <1>1, <2>3, <2>4 DEF Dispatch, lifeVars
<1>2. ASSUME NEW r \in Calls, DispatchAborted(r) PROVE TypeOK'
  BY <1>2 DEF DispatchAborted, Refused, taskVars, lifeVars, Replies
<1>3. ASSUME NEW r \in Calls, DispatchClosed(r) PROVE TypeOK'
  BY <1>3 DEF DispatchClosed, Refused, taskVars, lifeVars, Replies
<1>4. ASSUME NEW r \in Calls, Respond(r) PROVE TypeOK'
  <2>1. pending_count' \in 0..(CountMod - 1)
    BY <1>4, CountTypes DEF Respond, Settled
  <2> QED
    BY <1>4, <2>1 DEF Respond, Settled, taskVars, lifeVars
<1>5. ASSUME NEW r \in Calls, GiveUp(r) PROVE TypeOK'
  <2>1. pending_count' \in 0..(CountMod - 1)
    BY <1>5, CountTypes DEF GiveUp, Settled
  <2> QED
    BY <1>5, <2>1 DEF GiveUp, Settled, taskVars, lifeVars, Replies
<1>6. CASE CallReconnect
  <2>1. spawned' \in Seq({Start(g) : g \in Gens} \cup {Reconnection})
    BY <1>6, AppendFacts DEF CallReconnect
  <2>2. resets' \in 0..MaxResets
    BY <1>6 DEF CallReconnect
  <2> QED
    BY <1>6, <2>1, <2>2 DEF CallReconnect, callVars, taskVars
<1>7. CASE Close
  BY <1>7 DEF Close, CountReset, callVars, taskVars, lifeVars
<1>8. CASE RunReconnect
  <2>1. PICK g \in Gens : /\ cmd_tx' = g /\ active_transport' = g
                         /\ open' = (open \ {active_transport}) \cup {g}
                         /\ task' = [task EXCEPT ![g] = "spawned"]
                         /\ spawned' = Append(Tail(spawned), Start(g))
    BY <1>8, FreshGeneration
  <2>2. Tail(spawned) \in Seq(Future)
    BY <1>8, TailFacts DEF RunReconnect, Future
  <2>3. spawned' \in Seq(Future)
    BY <2>1, <2>2, AppendFacts DEF Future
  <2> QED
    BY <1>8, <2>1, <2>3 DEF RunReconnect, CountReset, Future
<1>9. CASE RunReconnectFails
  <2>1. spawned' \in Seq(Future)
    BY <1>9, TailFacts DEF RunReconnectFails, Future
  <2> QED
    BY <1>9, <2>1 DEF RunReconnectFails, Future, callVars, taskVars
<1>10. CASE StartTask
  <2>1. spawned' \in Seq(Future) /\ Head(spawned) \in Future
    BY <1>10, TailFacts DEF StartTask, Future
  <2>2. PICK g \in Gens : Head(spawned) = Start(g)
    BY <1>10, <2>1 DEF StartTask, Future, Start, Reconnection
  <2>3. Head(spawned).gen = g
    BY <2>2 DEF Start
  <2>4. oneshot' \in [Calls -> Replies \cup {None}]
    BY <1>10, RepliedType DEF StartTask, Replies
  <2>5. chan' \in [Gens -> Seq(Calls)]
    <3>1. <<>> \in Seq(Calls)
      BY EmptySeq
    <3> QED
      BY <1>10, <3>1 DEF StartTask
  <2>6. /\ task' \in [Gens -> {"unborn", "spawned", "running", "gone"}]
        /\ transport' \in [Gens -> Gens \cup {None}] /\ active_transport' = None
    <3>1. CASE active_transport # None
      <4>1. /\ task' = [task EXCEPT ![g] = "running"]
            /\ transport' = [transport EXCEPT ![g] = active_transport] /\ active_transport' = None
        BY <1>10, <3>1, <2>3 DEF StartTask
      <4> QED
        BY <3>1, <4>1
    <3>2. CASE active_transport = None
      <4>1. task' = [task EXCEPT ![g] = "gone"] /\ transport' = transport
            /\ active_transport' = None
        BY <1>10, <3>2, <2>3 DEF StartTask
      <4> QED
        BY <4>1
    <3> QED
      BY <3>1, <3>2
  <2> QED
    BY <1>10, <2>1, <2>4, <2>5, <2>6 DEF StartTask, Future, callVars
<1>11. ASSUME NEW g \in Gens, ChannelClosed(g) PROVE TypeOK'
  <2>1. TaskEnds(g)
    BY <1>11 DEF ChannelClosed
  <2> QED
    BY <2>1, EndsType
<1>12. ASSUME NEW g \in Gens, HandleCommand(g) PROVE TypeOK'
  <2>1. Head(chan[g]) \in Calls /\ Tail(chan[g]) \in Seq(Calls)
    BY <1>12, TailFacts DEF HandleCommand
  <2>2. oneshot' \in [Calls -> Replies \cup {None}]
    BY <1>12, RepliedType DEF HandleCommand, Replies
  <2>3. pending' \in [Gens -> [TxnIds -> Calls \cup {None}]]
    BY <1>12, <2>1 DEF HandleCommand
  <2>4. sent' \in [Gens -> SUBSET (TxnIds \X Calls)]
    BY <1>12, <2>1 DEF HandleCommand
  <2>5. next_txn_id' \in [Gens -> TxnIds]
    BY <1>12, AdvanceType DEF HandleCommand
  <2>6. chan' \in [Gens -> Seq(Calls)]
    BY <1>12, <2>1 DEF HandleCommand
  <2> QED
    BY <1>12, <2>2, <2>3, <2>4, <2>5, <2>6 DEF HandleCommand, callVars, lifeVars
<1>13. ASSUME NEW g \in Gens, CommandRefused(g) PROVE TypeOK'
  <2>1. chan' \in [Gens -> Seq(Calls)]
    BY <1>13, TailFacts DEF CommandRefused
  <2>2. oneshot' \in [Calls -> Replies \cup {None}]
    BY <1>13, RepliedType DEF CommandRefused, Replies
  <2>3. next_txn_id' \in [Gens -> TxnIds]
    BY <1>13, AdvanceType DEF CommandRefused
  <2> QED
    BY <1>13, <2>1, <2>2, <2>3 DEF CommandRefused, callVars, lifeVars
<1>14. ASSUME NEW g \in Gens, ReceiveFails(g) PROVE TypeOK'
  <2>1. TaskEnds(g)
    BY <1>14 DEF ReceiveFails
  <2> QED
    BY <2>1, EndsType
<1>15. ASSUME NEW g \in Gens, ProcessFrame(g) PROVE TypeOK'
  <2>0. PICK f \in sent[transport[g]] : \E y \in Key(g, f[1]) :
          /\ sent' = [sent EXCEPT ![transport[g]] = @ \ {f}]
          /\ oneshot' = Replied({pending[g][y]}, f[2])
          /\ pending' = [pending EXCEPT ![g][y] = None]
    BY <1>15 DEF ProcessFrame
  <2>1. PICK y \in Key(g, f[1]) :
          /\ sent' = [sent EXCEPT ![transport[g]] = @ \ {f}]
          /\ oneshot' = Replied({pending[g][y]}, f[2])
          /\ pending' = [pending EXCEPT ![g][y] = None]
    BY <2>0
  <2>2. transport[g] \in Gens
    BY <1>15 DEF ProcessFrame
  <2>3. f \in TxnIds \X Calls /\ y \in TxnIds
    BY <2>1, <2>2 DEF Key
  <2>4. oneshot' \in [Calls -> Replies \cup {None}]
    BY <2>1, <2>3, RepliedType DEF Replies
  <2>5. sent' \in [Gens -> SUBSET (TxnIds \X Calls)]
    BY <2>1, <2>2
  <2>6. pending' \in [Gens -> [TxnIds -> Calls \cup {None}]]
    BY <2>1, <2>3
  <2> QED
    BY <1>15, <2>4, <2>5, <2>6 DEF ProcessFrame, callVars, lifeVars
<1>16. ASSUME NEW g \in Gens, ProcessDamaged(g) PROVE TypeOK'
  <2>1. PICK f \in sent[transport[g]], y \in TxnIds :
          /\ sent' = [sent EXCEPT ![transport[g]] = @ \ {f}]
          /\ oneshot' = Replied({pending[g][y]}, "failed")
          /\ pending' = [pending EXCEPT ![g][y] = None]
    BY <1>16 DEF ProcessDamaged
  <2>2. transport[g] \in Gens
    BY <1>16 DEF ProcessDamaged
  <2>4. oneshot' \in [Calls -> Replies \cup {None}]
    BY <2>1, RepliedType DEF Replies
  <2>5. sent' \in [Gens -> SUBSET (TxnIds \X Calls)]
    BY <2>1, <2>2
  <2>6. pending' \in [Gens -> [TxnIds -> Calls \cup {None}]]
    BY <2>1
  <2> QED
    BY <1>16, <2>4, <2>5, <2>6 DEF ProcessDamaged, callVars, lifeVars
<1>17. ASSUME NEW g \in Gens, ReceiveMalformed(g) PROVE TypeOK'
  <2>1. TaskEnds(g)
    BY <1>17 DEF ReceiveMalformed
  <2> QED
    BY <2>1, EndsType
<1>18. ASSUME NEW g \in Gens, ConnectionLost(g) PROVE TypeOK'
  BY <1>18 DEF ConnectionLost, callVars, taskVars, lifeVars
<1>19. CASE UNCHANGED vars
  BY <1>19 DEF vars
<1> QED
  BY <1>1, <1>2, <1>3, <1>4, <1>5, <1>6, <1>7, <1>8, <1>9, <1>10, <1>11, <1>12, <1>13, <1>14,
     <1>15, <1>16, <1>17, <1>18, <1>19 DEF Next, CallStep, RunSpawned, TaskStep, LinkStep


-----------------------------------------------------------------------------
(* The future StartTask runs is the start of a generation that waits for    *)
(* it.                                                                      *)
LEMMA HeadOfSpawned ==
  ASSUME TypeOK, Started, StartTask
  PROVE  \E g \in Gens : /\ Head(spawned) = Start(g) /\ Head(spawned).gen = g
                         /\ spawned[1] = Start(g) /\ task[g] = "spawned"
<1>1. /\ Head(spawned) \in Future /\ Head(spawned) = spawned[1] /\ 1 \in DOMAIN spawned
      /\ Head(spawned).at = "start"
  BY TailFacts DEF StartTask, Future, TypeOK
<1>2. PICK g \in Gens : Head(spawned) = Start(g)
  BY <1>1 DEF Future, Start, Reconnection
<1>3. Head(spawned).gen = g
  BY <1>2 DEF Start
<1> QED
  BY <1>1, <1>2, <1>3 DEF Started

(* Started survives the run of the first future.                            *)
LEMMA StartedFewer ==
  ASSUME TypeOK, Started, spawned # <<>>, spawned' = Tail(spawned),
         \A h \in Gens : task'[h] = task[h] \/ (spawned[1].at = "start" /\ spawned[1].gen = h)
  PROVE  Started'
<1>1. /\ Len(spawned) \in Nat /\ DOMAIN spawned = 1..Len(spawned)
      /\ DOMAIN spawned' = 1..(Len(spawned) - 1) /\ 1 \in DOMAIN spawned
      /\ \A k \in 1..(Len(spawned) - 1) : spawned'[k] = spawned[k + 1]
  BY TailFacts DEF TypeOK
<1>2. \A k \in DOMAIN spawned : spawned[k] \in Future
  BY ElementOfSeq, <1>1 DEF TypeOK, Future
<1>3. \A k \in DOMAIN spawned : spawned[k].at = "start" =>
        spawned[k].gen \in Gens /\ spawned[k] = Start(spawned[k].gen)
  BY <1>2 DEF Future, Start, Reconnection
<1>4. ASSUME NEW k \in DOMAIN spawned', spawned'[k].at = "start"
      PROVE  task'[spawned'[k].gen] = "spawned"
  <2>1. k + 1 \in DOMAIN spawned /\ k + 1 # 1 /\ spawned'[k] = spawned[k + 1]
    BY <1>1
  <2>2. spawned[k + 1] # spawned[1]
    BY <1>1, <1>4, <2>1 DEF Started
  <2>3. ~(spawned[1].at = "start" /\ spawned[1].gen = spawned[k + 1].gen)
    BY <1>1, <1>3, <1>4, <2>1, <2>2
  <2> QED
    BY <2>1, <2>3, <1>3, <1>4 DEF Started
<1>5. ASSUME NEW j \in DOMAIN spawned', NEW k \in DOMAIN spawned',
             spawned'[j].at = "start", spawned'[j] = spawned'[k]
      PROVE  j = k
  <2>1. /\ j + 1 \in DOMAIN spawned /\ spawned'[j] = spawned[j + 1]
        /\ k + 1 \in DOMAIN spawned /\ spawned'[k] = spawned[k + 1]
    BY <1>1
  <2>2. j + 1 = k + 1
    BY <2>1, <1>5 DEF Started
  <2> QED
    BY <2>2, <1>1
<1> QED
  BY <1>4, <1>5 DEF Started

(* Started survives one more future.                                        *)
LEMMA StartedMore ==
  ASSUME TypeOK, Started, NEW x \in Future, spawned' = Append(spawned, x),
         \A h \in Gens : task[h] = "spawned" => task'[h] = "spawned",
         x.at = "start" => task[x.gen] = "unborn" /\ task'[x.gen] = "spawned"
  PROVE  Started'
<1>1. /\ Len(spawned) \in Nat /\ DOMAIN spawned = 1..Len(spawned)
      /\ DOMAIN spawned' = 1..(Len(spawned) + 1)
      /\ \A k \in 1..Len(spawned) : spawned'[k] = spawned[k]
      /\ spawned'[Len(spawned) + 1] = x
  BY AppendFacts DEF TypeOK, Future
<1>2. \A k \in DOMAIN spawned : spawned[k] \in Future
  BY ElementOfSeq, <1>1 DEF TypeOK, Future
<1>3. \A k \in DOMAIN spawned : spawned[k].at = "start" => spawned[k].gen \in Gens
  BY <1>2 DEF Future, Start, Reconnection
<1>4. \A k \in DOMAIN spawned : spawned[k].at = "start" => spawned[k] # x
  BY <1>3 DEF Started
<1>5. \A k \in DOMAIN spawned' :
        spawned'[k].at = "start" => task'[spawned'[k].gen] = "spawned"
  BY <1>1, <1>3 DEF Started
<1>6. ASSUME NEW j \in DOMAIN spawned', NEW k \in DOMAIN spawned',
             spawned'[j].at = "start", spawned'[j] = spawned'[k]
      PROVE  j = k
  BY <1>1, <1>4, <1>6 DEF Started
<1> QED
  BY <1>5, <1>6 DEF Started

(* The generation of a spawned task is one.                                 *)
LEMMA FutureTypes ==
  ASSUME TypeOK
  PROVE  \A k \in DOMAIN spawned : spawned[k].at = "start" => spawned[k].gen \in Gens
<1>1. \A k \in DOMAIN spawned : spawned[k] \in Future
  BY ElementOfSeq, LenProperties DEF TypeOK, Future
<1> QED
  BY <1>1 DEF Future, Start, Reconnection

(* No step breaks Started.                                                  *)
LEMMA StartedStep ==
  ASSUME TypeOK, Started, [Next]_vars
  PROVE  Started'
<1>1. ASSUME NEW r \in Calls, Dispatch(r) PROVE Started'
  BY <1>1 DEF Dispatch, Refused, Settled, lifeVars, taskVars, Started
<1>2. ASSUME NEW r \in Calls, DispatchAborted(r) PROVE Started'
  BY <1>2 DEF DispatchAborted, Refused, Settled, lifeVars, taskVars, Started
<1>3. ASSUME NEW r \in Calls, DispatchClosed(r) PROVE Started'
  BY <1>3 DEF DispatchClosed, Refused, Settled, lifeVars, taskVars, Started
<1>4. ASSUME NEW r \in Calls, Respond(r) PROVE Started'
  BY <1>4 DEF Respond, Refused, Settled, lifeVars, taskVars, Started
<1>5. ASSUME NEW r \in Calls, GiveUp(r) PROVE Started'
  BY <1>5 DEF GiveUp, Refused, Settled, lifeVars, taskVars, Started
<1>6. CASE CallReconnect
  <2>1. Reconnection \in Future /\ Reconnection.at # "start"
    BY DEF Future, Reconnection
  <2> QED
    BY <1>6, <2>1, StartedMore DEF CallReconnect, taskVars
<1>7. CASE Close
  BY <1>7 DEF Close, taskVars, Started
<1>8. CASE RunReconnect
  <2>1. PICK g \in Gens : /\ task[g] = "unborn" /\ task' = [task EXCEPT ![g] = "spawned"]
                         /\ spawned' = Append(Tail(spawned), Start(g))
    BY <1>8, FreshGeneration
  <2> DEFINE s == Tail(spawned)
  <2>2. s \in Seq(Future) /\ spawned # <<>> /\ Start(g) \in Future
    BY <1>8, TailFacts DEF RunReconnect, TypeOK, Future
  <2>3. /\ Len(spawned) \in Nat /\ DOMAIN spawned = 1..Len(spawned)
        /\ DOMAIN s = 1..(Len(spawned) - 1)
        /\ \A k \in 1..(Len(spawned) - 1) : s[k] = spawned[k + 1]
    BY <2>2, TailFacts DEF TypeOK
  <2>4. /\ Len(s) \in Nat /\ DOMAIN s = 1..Len(s) /\ DOMAIN spawned' = 1..(Len(s) + 1)
        /\ \A k \in 1..Len(s) : spawned'[k] = s[k]
        /\ spawned'[Len(s) + 1] = Start(g)
    BY <2>1, <2>2, AppendFacts
  <2>5. \A k \in DOMAIN s : s[k].at = "start" => /\ s[k].gen \in Gens
                                                 /\ task[s[k].gen] = "spawned" /\ s[k] # Start(g)
    <3> TAKE k \in DOMAIN s
    <3> HAVE s[k].at = "start"
    <3>1. k + 1 \in DOMAIN spawned /\ s[k] = spawned[k + 1]
      BY <2>3
    <3>2. s[k].gen \in Gens /\ task[s[k].gen] = "spawned"
      BY <3>1, FutureTypes DEF Started
    <3> QED
      BY <3>2, <2>1 DEF Start
  <2>6. \A j, k \in DOMAIN s : s[j].at = "start" /\ s[j] = s[k] => j = k
    <3> TAKE j, k \in DOMAIN s
    <3> HAVE s[j].at = "start" /\ s[j] = s[k]
    <3>1. /\ j + 1 \in DOMAIN spawned /\ s[j] = spawned[j + 1] /\ j \in Int
          /\ k + 1 \in DOMAIN spawned /\ s[k] = spawned[k + 1] /\ k \in Int
      BY <2>3
    <3>2. j + 1 = k + 1
      BY <3>1 DEF Started
    <3> QED
      BY <3>1, <3>2
  <2> HIDE DEF s
  <2>7. \A h \in Gens : task[h] = "spawned" => task'[h] = "spawned"
    BY <2>1 DEF TypeOK
  <2>8. task'[g] = "spawned" /\ Start(g).gen = g
    BY <2>1 DEF TypeOK, Start
  <2>9. \A k \in DOMAIN spawned' : spawned'[k].at = "start" => task'[spawned'[k].gen] = "spawned"
    BY <2>4, <2>5, <2>7, <2>8
  <2>10. \A j, k \in DOMAIN spawned' :
           spawned'[j].at = "start" /\ spawned'[j] = spawned'[k] => j = k
    BY <2>4, <2>5, <2>6
  <2> QED
    BY <2>9, <2>10 DEF Started
<1>9. CASE RunReconnectFails
  BY <1>9, StartedFewer DEF RunReconnectFails, taskVars
<1>10. CASE StartTask
  <2>1. PICK g \in Gens : /\ Head(spawned) = Start(g) /\ Head(spawned).gen = g
                         /\ spawned[1] = Start(g)
    BY <1>10, HeadOfSpawned
  <2>2. spawned[1].at = "start" /\ spawned[1].gen = g
    BY <2>1 DEF Start
  <2>3. \A h \in Gens : task'[h] = task[h] \/ g = h
    BY <1>10, <2>1 DEF StartTask, TypeOK
  <2> QED
    BY <1>10, <2>2, <2>3, StartedFewer DEF StartTask
<1>11. ASSUME NEW g \in Gens, ChannelClosed(g) PROVE Started'
  <2>1. \A h \in Gens : task[h] = "spawned" => task'[h] = "spawned"
    BY <1>11 DEF ChannelClosed, TaskEnds, Running, TypeOK
  <2>2. spawned' = spawned
    BY <1>11 DEF ChannelClosed, TaskEnds, lifeVars
  <2> QED
    BY <2>1, <2>2, FutureTypes DEF Started
<1>12. ASSUME NEW g \in Gens, HandleCommand(g) PROVE Started'
  BY <1>12 DEF HandleCommand, Refused, Settled, lifeVars, taskVars, Started
<1>13. ASSUME NEW g \in Gens, CommandRefused(g) PROVE Started'
  BY <1>13 DEF CommandRefused, Refused, Settled, lifeVars, taskVars, Started
<1>14. ASSUME NEW g \in Gens, ReceiveFails(g) PROVE Started'
  <2>1. \A h \in Gens : task[h] = "spawned" => task'[h] = "spawned"
    BY <1>14 DEF ReceiveFails, TaskEnds, Running, TypeOK
  <2>2. spawned' = spawned
    BY <1>14 DEF ReceiveFails, TaskEnds, lifeVars
  <2> QED
    BY <2>1, <2>2, FutureTypes DEF Started
<1>15. ASSUME NEW g \in Gens, ProcessFrame(g) PROVE Started'
  BY <1>15 DEF ProcessFrame, Refused, Settled, lifeVars, taskVars, Started
<1>16. ASSUME NEW g \in Gens, ProcessDamaged(g) PROVE Started'
  BY <1>16 DEF ProcessDamaged, Refused, Settled, lifeVars, taskVars, Started
<1>17. ASSUME NEW g \in Gens, ReceiveMalformed(g) PROVE Started'
  <2>1. \A h \in Gens : task[h] = "spawned" => task'[h] = "spawned"
    BY <1>17 DEF ReceiveMalformed, TaskEnds, Running, TypeOK
  <2>2. spawned' = spawned
    BY <1>17 DEF ReceiveMalformed, TaskEnds, lifeVars
  <2> QED
    BY <2>1, <2>2, FutureTypes DEF Started
<1>18. ASSUME NEW g \in Gens, ConnectionLost(g) PROVE Started'
  BY <1>18 DEF ConnectionLost, Refused, Settled, lifeVars, taskVars, Started
<1>19. CASE UNCHANGED vars
  BY <1>19 DEF vars, Started
<1> QED
  BY <1>1, <1>2, <1>3, <1>4, <1>5, <1>6, <1>7, <1>8, <1>9, <1>10, <1>11, <1>12, <1>13, <1>14,
     <1>15, <1>16, <1>17, <1>18, <1>19 DEF Next, CallStep, RunSpawned, TaskStep, LinkStep


-----------------------------------------------------------------------------
(* What a channel holds.                                                    *)
LEMMA ChanTypes ==
  ASSUME TypeOK, NEW g \in Gens
  PROVE  /\ Len(chan[g]) \in Nat /\ DOMAIN chan[g] = 1..Len(chan[g])
         /\ \A k \in DOMAIN chan[g] : chan[g][k] \in Calls
         /\ chan[g] # <<>> <=> DOMAIN chan[g] # {}
<1>1. chan[g] \in Seq(Calls)
  BY DEF TypeOK
<1>2. Len(chan[g]) \in Nat /\ DOMAIN chan[g] = 1..Len(chan[g])
  BY <1>1, LenProperties
<1>3. \A k \in DOMAIN chan[g] : chan[g][k] \in Calls
  BY <1>1, <1>2, ElementOfSeq
<1>4. chan[g] # <<>> <=> Len(chan[g]) # 0
  BY <1>1, EmptySeq
<1>5. Len(chan[g]) # 0 <=> DOMAIN chan[g] # {}
  BY <1>2
<1> QED
  BY <1>2, <1>3, <1>4, <1>5

(* Placed survives whatever only takes senders away.                        *)
LEMMA PlacedFewer ==
  ASSUME TypeOK, Placed, NEW n \in [Gens -> Nat],
         \A g \in Gens : \A k \in DOMAIN chan'[g] :
           k \in Int /\ k + n[g] \in DOMAIN chan[g] /\ chan'[g][k] = chan[g][k + n[g]],
         \A g \in Gens, x \in TxnIds : pending'[g][x] \in {pending[g][x], None}
  PROVE  Placed'
<1>1. ASSUME NEW g \in Gens, NEW h \in Gens, NEW k \in DOMAIN chan'[g], NEW l \in DOMAIN chan'[h],
             chan'[g][k] = chan'[h][l]
      PROVE  g = h /\ k = l
  <2>1. k \in Int /\ l \in Int /\ n[g] \in Nat /\ n[h] \in Nat
    OBVIOUS
  <2>2. g = h /\ k + n[g] = l + n[h]
    BY <1>1 DEF Placed
  <2> QED
    BY <2>1, <2>2
<1>2. \A g, h \in Gens : \A x, y \in TxnIds :
        pending'[g][x] # None /\ pending'[g][x] = pending'[h][y] => g = h /\ x = y
  BY DEF Placed
<1>3. ASSUME NEW g \in Gens, NEW h \in Gens, NEW k \in DOMAIN chan'[g], NEW y \in TxnIds
      PROVE  chan'[g][k] # pending'[h][y]
  <2>1. chan'[g][k] \in Calls
    BY ChanTypes
  <2> QED
    BY <2>1, <1>3, CallsAssumption DEF Placed, Replies
<1> QED
  BY <1>1, <1>2, <1>3 DEF Placed

(* A dispatch puts the sender at the end of the channel in use.             *)
LEMMA DispatchPlaces ==
  ASSUME TypeOK, NEW r \in Calls, Dispatch(r)
  PROVE  /\ cmd_tx \in Gens /\ Listening(cmd_tx) /\ pending' = pending
         /\ \A h \in Gens : h # cmd_tx => chan'[h] = chan[h]
         /\ DOMAIN chan'[cmd_tx] = 1..(Len(chan[cmd_tx]) + 1)
         /\ \A k \in 1..Len(chan[cmd_tx]) : chan'[cmd_tx][k] = chan[cmd_tx][k]
         /\ chan'[cmd_tx][Len(chan[cmd_tx]) + 1] = r
<1>1. cmd_tx \in Gens /\ Listening(cmd_tx)
  BY DEF Dispatch, Connected, TypeOK
<1>2. chan' = [chan EXCEPT ![cmd_tx] = Append(chan[cmd_tx], r)] /\ chan[cmd_tx] \in Seq(Calls)
  BY <1>1 DEF Dispatch, TypeOK
<1>3. chan'[cmd_tx] = Append(chan[cmd_tx], r) /\ \A h \in Gens : h # cmd_tx => chan'[h] = chan[h]
  BY <1>1, <1>2 DEF TypeOK
<1> QED
  BY <1>1, <1>2, <1>3, AppendFacts DEF Dispatch

(* Taking a command moves the rest of its channel by one.                   *)
LEMMA TakePlaces ==
  ASSUME TypeOK, NEW g \in Gens, chan[g] # <<>>, chan' = [chan EXCEPT ![g] = Tail(@)]
  PROVE  /\ \A h \in Gens : h # g => chan'[h] = chan[h]
         /\ Head(chan[g]) = chan[g][1] /\ chan[g][1] \in Calls /\ 1 \in DOMAIN chan[g]
         /\ Len(chan[g]) \in Nat /\ DOMAIN chan[g] = 1..Len(chan[g])
         /\ DOMAIN chan'[g] = 1..(Len(chan[g]) - 1)
         /\ \A k \in 1..(Len(chan[g]) - 1) : chan'[g][k] = chan[g][k + 1]
<1>1. chan'[g] = Tail(chan[g]) /\ chan[g] \in Seq(Calls)
      /\ \A h \in Gens : h # g => chan'[h] = chan[h]
  BY DEF TypeOK
<1>2. /\ Head(chan[g]) \in Calls /\ Head(chan[g]) = chan[g][1] /\ 1 \in DOMAIN chan[g]
      /\ Len(chan[g]) \in Nat /\ DOMAIN chan[g] = 1..Len(chan[g])
      /\ DOMAIN Tail(chan[g]) = 1..(Len(chan[g]) - 1)
      /\ \A k \in 1..(Len(chan[g]) - 1) : Tail(chan[g])[k] = chan[g][k + 1]
  <2>1. chan[g] \in Seq(Calls)
    BY <1>1
  <2> QED
    BY <2>1, TailFacts, Zenon
<1> QED
  BY <1>1, <1>2

(* The task moves the sender into the pending map, and drops the one it     *)
(* finds there.                                                             *)
LEMMA HandlePlaces ==
  ASSUME TypeOK, NEW g \in Gens, HandleCommand(g)
  PROVE  LET x == next_txn_id[g] IN
         /\ x \in TxnIds /\ pending'[g][x] = chan[g][1]
         /\ \A h \in Gens, y \in TxnIds : ~(h = g /\ y = x) => pending'[h][y] = pending[h][y]
         /\ oneshot' = Replied({pending[g][x]}, "failed")
BY TakePlaces DEF HandleCommand, TypeOK

(* A task that ends leaves no sender behind.                                *)
LEMMA EndPlaces ==
  ASSUME TypeOK, NEW g \in Gens, TaskEnds(g)
  PROVE  /\ \A h \in Gens : h # g => chan'[h] = chan[h] /\ pending'[h] = pending[h]
         /\ chan'[g] = <<>> /\ DOMAIN chan'[g] = {} /\ pending'[g] = NoPending
         /\ \A x \in TxnIds : pending'[g][x] = None
<1>1. /\ \A h \in Gens : h # g => chan'[h] = chan[h] /\ pending'[h] = pending[h]
      /\ chan'[g] = <<>> /\ pending'[g] = NoPending
  BY DEF TaskEnds, TypeOK
<1> QED
  BY <1>1 DEF NoPending

(* A frame takes at most one sender out of the pending map, and replies to  *)
(* it.                                                                      *)
LEMMA FramePlaces ==
  ASSUME TypeOK, NEW g \in Gens, ProcessFrame(g) \/ ProcessDamaged(g)
  PROVE  \E y \in TxnIds, reply \in Replies :
           /\ chan' = chan /\ pending'[g][y] = None
           /\ \A h \in Gens, x \in TxnIds : ~(h = g /\ x = y) => pending'[h][x] = pending[h][x]
           /\ oneshot' = Replied({pending[g][y]}, reply)
<1>t. transport[g] \in Gens
  BY DEF ProcessFrame, ProcessDamaged, TypeOK
<1>1. CASE ProcessFrame(g)
  <2>1. PICK f \in sent[transport[g]] : \E y \in Key(g, f[1]) :
          /\ oneshot' = Replied({pending[g][y]}, f[2])
          /\ pending' = [pending EXCEPT ![g][y] = None]
    BY <1>1 DEF ProcessFrame
  <2>2. f \in TxnIds \X Calls
    BY <1>t, <2>1 DEF TypeOK
  <2>3. PICK y \in Key(g, f[1]) :
          /\ oneshot' = Replied({pending[g][y]}, f[2])
          /\ pending' = [pending EXCEPT ![g][y] = None]
    BY <2>1
  <2>4. y \in TxnIds /\ f[2] \in Replies /\ chan' = chan
    BY <1>1, <2>2, <2>3 DEF Key, Replies, ProcessFrame
  <2>5. /\ pending'[g][y] = None
        /\ \A h \in Gens, x \in TxnIds : ~(h = g /\ x = y) => pending'[h][x] = pending[h][x]
    BY <2>3, <2>4 DEF TypeOK
  <2> QED
    BY <2>3, <2>4, <2>5
<1>2. CASE ProcessDamaged(g)
  <2>1. PICK f \in sent[transport[g]], y \in TxnIds :
          /\ oneshot' = Replied({pending[g][y]}, "failed")
          /\ pending' = [pending EXCEPT ![g][y] = None]
    BY <1>2 DEF ProcessDamaged
  <2>2. /\ pending'[g][y] = None /\ chan' = chan /\ "failed" \in Replies
        /\ \A h \in Gens, x \in TxnIds : ~(h = g /\ x = y) => pending'[h][x] = pending[h][x]
    BY <1>2, <2>1 DEF TypeOK, ProcessDamaged, Replies
  <2> QED
    BY <2>1, <2>2
<1> QED
  BY <1>1, <1>2

(* A task that starts takes over its channel, or drops what is in it when   *)
(* it finds no connection.                                                  *)
LEMMA StartPlaces ==
  ASSUME TypeOK, Started, Served, StartTask
  PROVE  \E g \in Gens :
           /\ task[g] = "spawned" /\ Head(spawned).gen = g /\ pending' = pending
           /\ \A h \in Gens : h # g => chan'[h] = chan[h] /\ task'[h] = task[h]
           /\ \A x \in TxnIds : pending[g][x] = None
           /\ \/ task'[g] = "running" /\ chan' = chan /\ oneshot' = oneshot
              \/ /\ task'[g] = "gone" /\ chan'[g] = <<>> /\ DOMAIN chan'[g] = {}
                 /\ oneshot' = Replied(ToSet(chan[g]), "failed")
<1>1. PICK g \in Gens : Head(spawned).gen = g /\ task[g] = "spawned"
  BY HeadOfSpawned
<1>2. \A x \in TxnIds : pending[g][x] = None
  BY <1>1 DEF Served, Running
<1>3. pending' = pending /\ \A h \in Gens : h # g => chan'[h] = chan[h] /\ task'[h] = task[h]
  BY <1>1 DEF StartTask, TypeOK
<1>4. CASE active_transport # None
  <2>1. task'[g] = "running" /\ chan' = chan /\ oneshot' = oneshot
    BY <1>1, <1>4 DEF StartTask, TypeOK
  <2> QED
    BY <1>1, <1>2, <1>3, <2>1
<1>5. CASE active_transport = None
  <2>1. task'[g] = "gone" /\ chan'[g] = <<>> /\ oneshot' = Replied(ToSet(chan[g]), "failed")
    BY <1>1, <1>5 DEF StartTask, TypeOK
  <2>2. DOMAIN chan'[g] = {}
    BY <2>1
  <2> QED
    BY <1>1, <1>2, <1>3, <2>1, <2>2
<1> QED
  BY <1>4, <1>5

(* No step puts a sender in two places.                                     *)
LEMMA PlacedStep ==
  ASSUME TypeOK, TypeOK', Started, Served, Owed, Placed, [Next]_vars
  PROVE  Placed'
<1>1. ASSUME NEW r \in Calls, Dispatch(r) PROVE Placed'
  <2> DEFINE c == cmd_tx
  <2>1. /\ c \in Gens /\ pending' = pending
        /\ \A h \in Gens : h # c => chan'[h] = chan[h]
        /\ DOMAIN chan'[c] = 1..(Len(chan[c]) + 1)
        /\ \A k \in 1..Len(chan[c]) : chan'[c][k] = chan[c][k]
        /\ chan'[c][Len(chan[c]) + 1] = r
    BY <1>1, DispatchPlaces
  <2>2. Len(chan[c]) \in Nat /\ DOMAIN chan[c] = 1..Len(chan[c])
    BY <2>1, ChanTypes
  <2>3. ~Held(r)
    BY <1>1 DEF Dispatch, Owed
  <2> HIDE DEF c
  <2>4. \A g, h \in Gens : \A k \in DOMAIN chan'[g], l \in DOMAIN chan'[h] :
          chan'[g][k] = chan'[h][l] => g = h /\ k = l
    <3> SUFFICES ASSUME NEW g \in Gens, NEW h \in Gens, NEW k \in DOMAIN chan'[g],
                        NEW l \in DOMAIN chan'[h], chan'[g][k] = chan'[h][l]
                 PROVE  g = h /\ k = l
      OBVIOUS
    <3>1. (k \in DOMAIN chan[g] /\ chan'[g][k] = chan[g][k]) \/ (g = c /\ k = Len(chan[c]) + 1)
      BY <2>1, <2>2
    <3>2. (l \in DOMAIN chan[h] /\ chan'[h][l] = chan[h][l]) \/ (h = c /\ l = Len(chan[c]) + 1)
      BY <2>1, <2>2
    <3> QED
      BY <3>1, <3>2, <2>1, <2>3 DEF Held, Placed
  <2>5. \A g, h \in Gens : \A k \in DOMAIN chan'[g], y \in TxnIds : chan'[g][k] # pending'[h][y]
    <3> SUFFICES ASSUME NEW g \in Gens, NEW h \in Gens, NEW k \in DOMAIN chan'[g],
                        NEW y \in TxnIds
                 PROVE  chan'[g][k] # pending'[h][y]
      OBVIOUS
    <3>1. (k \in DOMAIN chan[g] /\ chan'[g][k] = chan[g][k]) \/ (g = c /\ k = Len(chan[c]) + 1)
      BY <2>1, <2>2
    <3> QED
      BY <3>1, <2>1, <2>3 DEF Held, Placed
  <2> QED
    BY <2>1, <2>4, <2>5 DEF Placed
<1>2. ASSUME NEW r \in Calls, DispatchAborted(r) PROVE Placed'
  BY <1>2 DEF DispatchAborted, Refused, Settled, callVars, lifeVars, taskVars, Placed
<1>3. ASSUME NEW r \in Calls, DispatchClosed(r) PROVE Placed'
  BY <1>3 DEF DispatchClosed, Refused, Settled, callVars, lifeVars, taskVars, Placed
<1>4. ASSUME NEW r \in Calls, Respond(r) PROVE Placed'
  BY <1>4 DEF Respond, Refused, Settled, callVars, lifeVars, taskVars, Placed
<1>5. ASSUME NEW r \in Calls, GiveUp(r) PROVE Placed'
  BY <1>5 DEF GiveUp, Refused, Settled, callVars, lifeVars, taskVars, Placed
<1>6. CASE CallReconnect
  BY <1>6 DEF CallReconnect, Refused, Settled, callVars, lifeVars, taskVars, Placed
<1>7. CASE Close
  BY <1>7 DEF Close, Refused, Settled, callVars, lifeVars, taskVars, Placed
<1>8. CASE RunReconnect
  BY <1>8 DEF RunReconnect, Refused, Settled, callVars, lifeVars, taskVars, Placed
<1>9. CASE RunReconnectFails
  BY <1>9 DEF RunReconnectFails, Refused, Settled, callVars, lifeVars, taskVars, Placed
<1>10. CASE StartTask
  <2> DEFINE n == [h \in Gens |-> 0]
  <2>z. n \in [Gens -> Nat] /\ \A h \in Gens : n[h] = 0
    OBVIOUS
  <2>1. PICK g \in Gens :
          /\ pending' = pending /\ \A h \in Gens : h # g => chan'[h] = chan[h]
          /\ chan' = chan \/ DOMAIN chan'[g] = {}
    BY <1>10, StartPlaces
  <2>2. \A h \in Gens : \A k \in DOMAIN chan'[h] :
          k \in Int /\ k + n[h] \in DOMAIN chan[h] /\ chan'[h][k] = chan[h][k + n[h]]
    BY <2>z, <2>1, ChanTypes
  <2> HIDE DEF n
  <2> QED
    BY <2>z, <2>1, <2>2, PlacedFewer
<1>11. ASSUME NEW g \in Gens, ChannelClosed(g) PROVE Placed'
  <2> DEFINE n == [h \in Gens |-> 0]
  <2>z. n \in [Gens -> Nat] /\ \A h \in Gens : n[h] = 0
    OBVIOUS
  <2>1. /\ \A h \in Gens : h # g => chan'[h] = chan[h] /\ pending'[h] = pending[h]
        /\ DOMAIN chan'[g] = {} /\ \A x \in TxnIds : pending'[g][x] = None
    BY <1>11, EndPlaces DEF ChannelClosed
  <2>2. \A h \in Gens : \A k \in DOMAIN chan'[h] :
          k \in Int /\ k + n[h] \in DOMAIN chan[h] /\ chan'[h][k] = chan[h][k + n[h]]
    BY <2>z, <2>1, ChanTypes
  <2> HIDE DEF n
  <2> QED
    BY <2>z, <2>1, <2>2, PlacedFewer
<1>12. ASSUME NEW g \in Gens, HandleCommand(g) PROVE Placed'
  <2> DEFINE x == next_txn_id[g]
             r == chan[g][1]
  <2>1. /\ \A h \in Gens : h # g => chan'[h] = chan[h]
        /\ r \in Calls /\ 1 \in DOMAIN chan[g]
        /\ Len(chan[g]) \in Nat /\ DOMAIN chan[g] = 1..Len(chan[g])
        /\ DOMAIN chan'[g] = 1..(Len(chan[g]) - 1)
        /\ \A k \in 1..(Len(chan[g]) - 1) : chan'[g][k] = chan[g][k + 1]
    BY <1>12, TakePlaces DEF HandleCommand
  <2>2. /\ x \in TxnIds /\ pending'[g][x] = r
        /\ \A h \in Gens, y \in TxnIds : ~(h = g /\ y = x) => pending'[h][y] = pending[h][y]
    BY <1>12, HandlePlaces
  <2>3. \A h \in Gens : \A k \in DOMAIN chan'[h] :
          /\ k \in Int
          /\ \E l \in DOMAIN chan[h] : /\ chan'[h][k] = chan[h][l] /\ ~(h = g /\ l = 1)
                                       /\ l = IF h = g THEN k + 1 ELSE k
    <3> TAKE h \in Gens
    <3>1. CASE h = g
      <4> TAKE k \in DOMAIN chan'[h]
      <4>1. k \in Int /\ k + 1 \in DOMAIN chan[g] /\ chan'[g][k] = chan[g][k + 1] /\ k + 1 # 1
        BY <3>1, <2>1
      <4> QED
        BY <3>1, <4>1
    <3>2. CASE h # g
      BY <3>2, <2>1, ChanTypes
    <3> QED
      BY <3>1, <3>2
  <2> HIDE DEF x, r
  <2>4. \A e, h \in Gens : \A k \in DOMAIN chan'[e], l \in DOMAIN chan'[h] :
          chan'[e][k] = chan'[h][l] => e = h /\ k = l
    <3> SUFFICES ASSUME NEW e \in Gens, NEW h \in Gens, NEW k \in DOMAIN chan'[e],
                        NEW l \in DOMAIN chan'[h], chan'[e][k] = chan'[h][l]
                 PROVE  e = h /\ k = l
      OBVIOUS
    <3>1. PICK i \in DOMAIN chan[e] : chan'[e][k] = chan[e][i] /\ i = IF e = g THEN k + 1 ELSE k
      BY <2>3
    <3>2. PICK j \in DOMAIN chan[h] : chan'[h][l] = chan[h][j] /\ j = IF h = g THEN l + 1 ELSE l
      BY <2>3
    <3>3. e = h /\ i = j
      <4>1. chan[e][i] = chan[h][j]
        BY <3>1, <3>2
      <4> QED
        BY <4>1 DEF Placed
    <3>4. k \in Int /\ l \in Int
      BY <2>3
    <3> QED
      BY <3>1, <3>2, <3>3, <3>4
  <2>5. \A e, h \in Gens : \A k \in DOMAIN chan'[e], y \in TxnIds : chan'[e][k] # pending'[h][y]
    <3> SUFFICES ASSUME NEW e \in Gens, NEW h \in Gens, NEW k \in DOMAIN chan'[e],
                        NEW y \in TxnIds
                 PROVE  chan'[e][k] # pending'[h][y]
      OBVIOUS
    <3>1. PICK i \in DOMAIN chan[e] : chan'[e][k] = chan[e][i] /\ ~(e = g /\ i = 1)
      BY <2>3
    <3> QED
      BY <3>1, <2>1, <2>2 DEF Placed, r
  <2>6. \A e, h \in Gens : \A y, z \in TxnIds :
          pending'[e][y] # None /\ pending'[e][y] = pending'[h][z] => e = h /\ y = z
    BY <2>1, <2>2 DEF Placed, r
  <2> QED
    BY <2>4, <2>5, <2>6 DEF Placed
<1>13. ASSUME NEW g \in Gens, CommandRefused(g) PROVE Placed'
  <2> DEFINE n == [h \in Gens |-> IF h = g THEN 1 ELSE 0]
  <2>z. n \in [Gens -> Nat] /\ n[g] = 1 /\ \A h \in Gens : h # g => n[h] = 0
    OBVIOUS
  <2>1. /\ \A h \in Gens : h # g => chan'[h] = chan[h]
        /\ Len(chan[g]) \in Nat /\ DOMAIN chan[g] = 1..Len(chan[g])
        /\ DOMAIN chan'[g] = 1..(Len(chan[g]) - 1)
        /\ \A k \in 1..(Len(chan[g]) - 1) : chan'[g][k] = chan[g][k + 1]
    BY <1>13, TakePlaces DEF CommandRefused
  <2> HIDE DEF n
  <2>2. \A h \in Gens : \A k \in DOMAIN chan'[h] :
          k \in Int /\ k + n[h] \in DOMAIN chan[h] /\ chan'[h][k] = chan[h][k + n[h]]
    <3> TAKE h \in Gens
    <3>1. CASE h = g
      BY <3>1, <2>z, <2>1
    <3>2. CASE h # g
      BY <3>2, <2>z, <2>1, ChanTypes
    <3> QED
      BY <3>1, <3>2
  <2>3. pending' = pending
    BY <1>13 DEF CommandRefused
  <2> QED
    BY <2>z, <2>2, <2>3, PlacedFewer
<1>14. ASSUME NEW g \in Gens, ReceiveFails(g) PROVE Placed'
  <2> DEFINE n == [h \in Gens |-> 0]
  <2>z. n \in [Gens -> Nat] /\ \A h \in Gens : n[h] = 0
    OBVIOUS
  <2>1. /\ \A h \in Gens : h # g => chan'[h] = chan[h] /\ pending'[h] = pending[h]
        /\ DOMAIN chan'[g] = {} /\ \A x \in TxnIds : pending'[g][x] = None
    BY <1>14, EndPlaces DEF ReceiveFails
  <2>2. \A h \in Gens : \A k \in DOMAIN chan'[h] :
          k \in Int /\ k + n[h] \in DOMAIN chan[h] /\ chan'[h][k] = chan[h][k + n[h]]
    BY <2>z, <2>1, ChanTypes
  <2> HIDE DEF n
  <2> QED
    BY <2>z, <2>1, <2>2, PlacedFewer
<1>15. ASSUME NEW g \in Gens, ProcessFrame(g) PROVE Placed'
  <2> DEFINE n == [h \in Gens |-> 0]
  <2>z. n \in [Gens -> Nat] /\ \A h \in Gens : n[h] = 0
    OBVIOUS
  <2>1. PICK y \in TxnIds :
          /\ chan' = chan /\ pending'[g][y] = None
          /\ \A h \in Gens, x \in TxnIds : ~(h = g /\ x = y) => pending'[h][x] = pending[h][x]
    BY <1>15, FramePlaces
  <2>2. \A h \in Gens : \A k \in DOMAIN chan'[h] :
          k \in Int /\ k + n[h] \in DOMAIN chan[h] /\ chan'[h][k] = chan[h][k + n[h]]
    BY <2>z, <2>1, ChanTypes
  <2> HIDE DEF n
  <2> QED
    BY <2>z, <2>1, <2>2, PlacedFewer
<1>16. ASSUME NEW g \in Gens, ProcessDamaged(g) PROVE Placed'
  <2> DEFINE n == [h \in Gens |-> 0]
  <2>z. n \in [Gens -> Nat] /\ \A h \in Gens : n[h] = 0
    OBVIOUS
  <2>1. PICK y \in TxnIds :
          /\ chan' = chan /\ pending'[g][y] = None
          /\ \A h \in Gens, x \in TxnIds : ~(h = g /\ x = y) => pending'[h][x] = pending[h][x]
    BY <1>16, FramePlaces
  <2>2. \A h \in Gens : \A k \in DOMAIN chan'[h] :
          k \in Int /\ k + n[h] \in DOMAIN chan[h] /\ chan'[h][k] = chan[h][k + n[h]]
    BY <2>z, <2>1, ChanTypes
  <2> HIDE DEF n
  <2> QED
    BY <2>z, <2>1, <2>2, PlacedFewer
<1>17. ASSUME NEW g \in Gens, ReceiveMalformed(g) PROVE Placed'
  <2> DEFINE n == [h \in Gens |-> 0]
  <2>z. n \in [Gens -> Nat] /\ \A h \in Gens : n[h] = 0
    OBVIOUS
  <2>1. /\ \A h \in Gens : h # g => chan'[h] = chan[h] /\ pending'[h] = pending[h]
        /\ DOMAIN chan'[g] = {} /\ \A x \in TxnIds : pending'[g][x] = None
    BY <1>17, EndPlaces DEF ReceiveMalformed
  <2>2. \A h \in Gens : \A k \in DOMAIN chan'[h] :
          k \in Int /\ k + n[h] \in DOMAIN chan[h] /\ chan'[h][k] = chan[h][k + n[h]]
    BY <2>z, <2>1, ChanTypes
  <2> HIDE DEF n
  <2> QED
    BY <2>z, <2>1, <2>2, PlacedFewer
<1>18. ASSUME NEW g \in Gens, ConnectionLost(g) PROVE Placed'
  BY <1>18 DEF ConnectionLost, Refused, Settled, callVars, lifeVars, taskVars, Placed
<1>19. CASE UNCHANGED vars
  BY <1>19 DEF vars, Placed
<1> QED
  BY <1>1, <1>2, <1>3, <1>4, <1>5, <1>6, <1>7, <1>8, <1>9, <1>10, <1>11, <1>12, <1>13, <1>14,
     <1>15, <1>16, <1>17, <1>18, <1>19 DEF Next, CallStep, RunSpawned, TaskStep, LinkStep


-----------------------------------------------------------------------------

(* No step leaves a sender where nobody looks for it.                       *)
LEMMA ServedStep ==
  ASSUME TypeOK, TypeOK', Started, Served, [Next]_vars
  PROVE  Served'
<1>1. ASSUME NEW r \in Calls, Dispatch(r) PROVE Served'
  <2>1. /\ cmd_tx \in Gens /\ Listening(cmd_tx) /\ pending' = pending
        /\ \A h \in Gens : h # cmd_tx => chan'[h] = chan[h]
    BY <1>1, DispatchPlaces
  <2>2. task' = task
    BY <1>1 DEF Dispatch
  <2> QED
    BY <2>1, <2>2 DEF Served, Listening, Running
<1>2. ASSUME NEW r \in Calls, DispatchAborted(r) PROVE Served'
  BY <1>2 DEF DispatchAborted, Refused, Settled, callVars, lifeVars, taskVars, Served, Listening, Running
<1>3. ASSUME NEW r \in Calls, DispatchClosed(r) PROVE Served'
  BY <1>3 DEF DispatchClosed, Refused, Settled, callVars, lifeVars, taskVars, Served, Listening, Running
<1>4. ASSUME NEW r \in Calls, Respond(r) PROVE Served'
  BY <1>4 DEF Respond, Refused, Settled, callVars, lifeVars, taskVars, Served, Listening, Running
<1>5. ASSUME NEW r \in Calls, GiveUp(r) PROVE Served'
  BY <1>5 DEF GiveUp, Refused, Settled, callVars, lifeVars, taskVars, Served, Listening, Running
<1>6. CASE CallReconnect
  BY <1>6 DEF CallReconnect, Refused, Settled, callVars, lifeVars, taskVars, Served, Listening, Running
<1>7. CASE Close
  BY <1>7 DEF Close, Refused, Settled, callVars, lifeVars, taskVars, Served, Listening, Running
<1>8. CASE RunReconnect
  <2>1. PICK g \in Gens : task[g] = "unborn" /\ task' = [task EXCEPT ![g] = "spawned"]
    BY <1>8, FreshGeneration
  <2>2. UNCHANGED <<chan, pending>>
    BY <1>8 DEF RunReconnect
  <2> QED
    BY <2>1, <2>2 DEF Served, Listening, Running, TypeOK
<1>9. CASE RunReconnectFails
  BY <1>9 DEF RunReconnectFails, Refused, Settled, callVars, lifeVars, taskVars, Served, Listening, Running
<1>10. CASE StartTask
  <2>1. PICK g \in Gens :
           /\ task[g] = "spawned" /\ pending' = pending
           /\ \A h \in Gens : h # g => chan'[h] = chan[h] /\ task'[h] = task[h]
           /\ \A x \in TxnIds : pending[g][x] = None
           /\ task'[g] = "running" \/ chan'[g] = <<>>
    BY <1>10, StartPlaces
  <2> QED
    BY <2>1 DEF Served, Listening, Running
<1>11. ASSUME NEW g \in Gens, ChannelClosed(g) PROVE Served'
  <2>1. /\ \A h \in Gens : h # g => chan'[h] = chan[h] /\ pending'[h] = pending[h]
        /\ chan'[g] = <<>> /\ \A x \in TxnIds : pending'[g][x] = None
    BY <1>11, EndPlaces DEF ChannelClosed
  <2>2. \A h \in Gens : h # g => task'[h] = task[h]
    BY <1>11 DEF ChannelClosed, TaskEnds, TypeOK
  <2> QED
    BY <2>1, <2>2 DEF Served, Listening, Running
<1>12. ASSUME NEW g \in Gens, HandleCommand(g) PROVE Served'
  <2>1. /\ \A h \in Gens : h # g => chan'[h] = chan[h]
        /\ UNCHANGED task /\ Running(g)
    BY <1>12, TakePlaces DEF HandleCommand
  <2>2. \A h \in Gens, y \in TxnIds : h # g => pending'[h][y] = pending[h][y]
    BY <1>12, HandlePlaces
  <2> QED
    BY <2>1, <2>2 DEF Served, Listening, Running
<1>13. ASSUME NEW g \in Gens, CommandRefused(g) PROVE Served'
  <2>1. /\ \A h \in Gens : h # g => chan'[h] = chan[h]
        /\ UNCHANGED <<task, pending>> /\ Running(g)
    BY <1>13, TakePlaces DEF CommandRefused
  <2> QED
    BY <2>1 DEF Served, Listening, Running
<1>14. ASSUME NEW g \in Gens, ReceiveFails(g) PROVE Served'
  <2>1. /\ \A h \in Gens : h # g => chan'[h] = chan[h] /\ pending'[h] = pending[h]
        /\ chan'[g] = <<>> /\ \A x \in TxnIds : pending'[g][x] = None
    BY <1>14, EndPlaces DEF ReceiveFails
  <2>2. \A h \in Gens : h # g => task'[h] = task[h]
    BY <1>14 DEF ReceiveFails, TaskEnds, TypeOK
  <2> QED
    BY <2>1, <2>2 DEF Served, Listening, Running
<1>15. ASSUME NEW g \in Gens, ProcessFrame(g) PROVE Served'
  <2>1. PICK y \in TxnIds :
          /\ chan' = chan /\ pending'[g][y] = None
          /\ \A h \in Gens, x \in TxnIds : ~(h = g /\ x = y) => pending'[h][x] = pending[h][x]
    BY <1>15, FramePlaces
  <2>2. task' = task
    BY <1>15 DEF ProcessFrame
  <2> QED
    BY <2>1, <2>2 DEF Served, Listening, Running
<1>16. ASSUME NEW g \in Gens, ProcessDamaged(g) PROVE Served'
  <2>1. PICK y \in TxnIds :
          /\ chan' = chan /\ pending'[g][y] = None
          /\ \A h \in Gens, x \in TxnIds : ~(h = g /\ x = y) => pending'[h][x] = pending[h][x]
    BY <1>16, FramePlaces
  <2>2. task' = task
    BY <1>16 DEF ProcessDamaged
  <2> QED
    BY <2>1, <2>2 DEF Served, Listening, Running
<1>17. ASSUME NEW g \in Gens, ReceiveMalformed(g) PROVE Served'
  <2>1. /\ \A h \in Gens : h # g => chan'[h] = chan[h] /\ pending'[h] = pending[h]
        /\ chan'[g] = <<>> /\ \A x \in TxnIds : pending'[g][x] = None
    BY <1>17, EndPlaces DEF ReceiveMalformed
  <2>2. \A h \in Gens : h # g => task'[h] = task[h]
    BY <1>17 DEF ReceiveMalformed, TaskEnds, TypeOK
  <2> QED
    BY <2>1, <2>2 DEF Served, Listening, Running
<1>18. ASSUME NEW g \in Gens, ConnectionLost(g) PROVE Served'
  BY <1>18 DEF ConnectionLost, Refused, Settled, callVars, lifeVars, taskVars, Served, Listening, Running
<1>19. CASE UNCHANGED vars
  BY <1>19 DEF vars, Served, Listening, Running
<1> QED
  BY <1>1, <1>2, <1>3, <1>4, <1>5, <1>6, <1>7, <1>8, <1>9, <1>10, <1>11, <1>12, <1>13, <1>14,
     <1>15, <1>16, <1>17, <1>18, <1>19 DEF Next, CallStep, RunSpawned, TaskStep, LinkStep


(* Owed survives replying to the calls whose senders are taken away.        *)
LEMMA OwedLess ==
  ASSUME TypeOK, Owed, NEW rs, NEW reply \in Replies,
         \A s \in Calls : Held(s)' <=> Held(s) /\ s \notin rs,
         \A s \in Calls : s \in rs => Held(s),
         oneshot' = Replied(rs, reply), UNCHANGED phase
  PROVE  Owed'
<1>1. reply # None
  BY CallsAssumption
<1> QED
  BY <1>1 DEF Owed, Replied

(* Owed only depends on the calls and the places of their senders.          *)
LEMMA OwedSame ==
  ASSUME Owed, UNCHANGED <<phase, oneshot, chan, pending>>
  PROVE  Owed'
BY DEF Owed, Held

(* Owed survives a call that ends.                                          *)
LEMMA OwedSettled ==
  ASSUME TypeOK, Owed, NEW r \in Calls, phase' = [phase EXCEPT ![r] = "settled"],
         oneshot' = [oneshot EXCEPT ![r] = None] \/ (oneshot' = oneshot /\ phase[r] = "idle"),
         UNCHANGED <<chan, pending>>
  PROVE  Owed'
<1>1. \A s \in Calls : Held(s)' <=> Held(s)
  BY DEF Held
<1>2. /\ phase'[r] = "settled" /\ oneshot'[r] = None
      /\ \A s \in Calls : s # r => phase'[s] = phase[s] /\ oneshot'[s] = oneshot[s]
  BY DEF TypeOK, Owed
<1> QED
  BY <1>1, <1>2 DEF Owed

(* Taking a command takes exactly one sender out of the channel.            *)
LEMMA TakenHeld ==
  ASSUME TypeOK, Placed, NEW g \in Gens, 1 \in DOMAIN chan[g],
         Len(chan[g]) \in Nat, DOMAIN chan[g] = 1..Len(chan[g]),
         DOMAIN chan'[g] = 1..(Len(chan[g]) - 1),
         \A k \in 1..(Len(chan[g]) - 1) : chan'[g][k] = chan[g][k + 1]
  PROVE  \A s \in Calls : (\E k \in DOMAIN chan'[g] : chan'[g][k] = s)
                            <=> (\E k \in DOMAIN chan[g] : chan[g][k] = s) /\ s # chan[g][1]
<1> TAKE s \in Calls
<1>1. ASSUME NEW k \in DOMAIN chan'[g], chan'[g][k] = s
      PROVE  (\E l \in DOMAIN chan[g] : chan[g][l] = s) /\ s # chan[g][1]
  <2>1. k + 1 \in DOMAIN chan[g] /\ chan[g][k + 1] = s /\ k + 1 # 1
    BY <1>1
  <2> QED
    BY <2>1 DEF Placed
<1>2. ASSUME NEW k \in DOMAIN chan[g], chan[g][k] = s, s # chan[g][1]
      PROVE  \E l \in DOMAIN chan'[g] : chan'[g][l] = s
  <2>1. k - 1 \in DOMAIN chan'[g] /\ (k - 1) + 1 = k
    BY <1>2
  <2>2. chan'[g][k - 1] = s
    BY <2>1, <1>2
  <2> QED
    BY <2>1, <2>2
<1> QED
  BY <1>1, <1>2

(* No step loses a reply, and none makes a second one.                      *)
LEMMA OwedStep ==
  ASSUME TypeOK, TypeOK', Started, Served, Placed, Owed, [Next]_vars
  PROVE  Owed'
<1>1. ASSUME NEW r \in Calls, Dispatch(r) PROVE Owed'
  <2> DEFINE c == cmd_tx
  <2>1. /\ c \in Gens /\ pending' = pending
        /\ \A h \in Gens : h # c => chan'[h] = chan[h]
        /\ DOMAIN chan'[c] = 1..(Len(chan[c]) + 1)
        /\ \A k \in 1..Len(chan[c]) : chan'[c][k] = chan[c][k]
        /\ chan'[c][Len(chan[c]) + 1] = r
    BY <1>1, DispatchPlaces
  <2>2. Len(chan[c]) \in Nat /\ DOMAIN chan[c] = 1..Len(chan[c])
    BY <2>1, ChanTypes
  <2>3. /\ phase[r] = "idle" /\ oneshot' = oneshot /\ phase'[r] = "waiting"
        /\ \A s \in Calls : s # r => phase'[s] = phase[s]
    BY <1>1 DEF Dispatch, TypeOK
  <2> HIDE DEF c
  <2>4. Held(r)'
    <3>1. Len(chan[c]) + 1 \in DOMAIN chan'[c]
      BY <2>1, <2>2
    <3> QED
      BY <3>1, <2>1 DEF Held
  <2>5. ASSUME NEW s \in Calls, s # r PROVE Held(s)' <=> Held(s)
    <3>1. \A h \in Gens : (\E k \in DOMAIN chan'[h] : chan'[h][k] = s)
                           <=> (\E k \in DOMAIN chan[h] : chan[h][k] = s)
      <4> TAKE h \in Gens
      <4>1. CASE h # c
        BY <4>1, <2>1
      <4>2. CASE h = c
        BY <4>2, <2>1, <2>2, <2>5
      <4> QED
        BY <4>1, <4>2
    <3> QED
      BY <3>1, <2>1 DEF Held
  <2> QED
    BY <2>3, <2>4, <2>5 DEF Owed
<1>2. ASSUME NEW r \in Calls, DispatchAborted(r) PROVE Owed'
  BY <1>2, OwedSettled DEF DispatchAborted, Refused, taskVars
<1>3. ASSUME NEW r \in Calls, DispatchClosed(r) PROVE Owed'
  BY <1>3, OwedSettled DEF DispatchClosed, Refused, taskVars
<1>4. ASSUME NEW r \in Calls, Respond(r) PROVE Owed'
  BY <1>4, OwedSettled DEF Respond, Settled, taskVars
<1>5. ASSUME NEW r \in Calls, GiveUp(r) PROVE Owed'
  BY <1>5, OwedSettled DEF GiveUp, Settled, taskVars
<1>6. CASE CallReconnect
  BY <1>6, OwedSame DEF CallReconnect, CountReset, callVars, taskVars, lifeVars
<1>7. CASE Close
  BY <1>7, OwedSame DEF Close, CountReset, callVars, taskVars, lifeVars
<1>8. CASE RunReconnect
  BY <1>8, OwedSame DEF RunReconnect, CountReset, callVars, taskVars, lifeVars
<1>9. CASE RunReconnectFails
  BY <1>9, OwedSame DEF RunReconnectFails, CountReset, callVars, taskVars, lifeVars
<1>10. CASE StartTask
  <2>1. PICK g \in Gens :
           /\ pending' = pending /\ \A x \in TxnIds : pending[g][x] = None
           /\ \A h \in Gens : h # g => chan'[h] = chan[h]
           /\ \/ chan' = chan /\ oneshot' = oneshot
              \/ DOMAIN chan'[g] = {} /\ oneshot' = Replied(ToSet(chan[g]), "failed")
    BY <1>10, StartPlaces
  <2>2. UNCHANGED phase
    BY <1>10 DEF StartTask, callVars
  <2>3. CASE chan' = chan /\ oneshot' = oneshot
    BY <2>1, <2>2, <2>3, OwedSame
  <2>4. CASE DOMAIN chan'[g] = {} /\ oneshot' = Replied(ToSet(chan[g]), "failed")
    <3>1. \A s \in Calls : Held(s)' <=> Held(s) /\ s \notin ToSet(chan[g])
      BY <2>1, <2>4, CallsAssumption DEF Held, ToSet, Placed
    <3>2. \A s \in Calls : s \in ToSet(chan[g]) => Held(s)
      BY DEF Held, ToSet
    <3>3. "failed" \in Replies
      BY DEF Replies
    <3> QED
      BY <2>2, <2>4, <3>1, <3>2, <3>3, OwedLess
  <2> QED
    BY <2>1, <2>3, <2>4
<1>11. ASSUME NEW g \in Gens, ChannelClosed(g) PROVE Owed'
  <2> DEFINE rs == InFlight(g) \cup ToSet(chan[g])
  <2>1. /\ \A h \in Gens : h # g => chan'[h] = chan[h] /\ pending'[h] = pending[h]
        /\ DOMAIN chan'[g] = {} /\ \A x \in TxnIds : pending'[g][x] = None
    BY <1>11, EndPlaces DEF ChannelClosed
  <2>2. oneshot' = Replied(rs, "failed") /\ UNCHANGED phase /\ "failed" \in Replies
    BY <1>11 DEF ChannelClosed, TaskEnds, callVars, Replies
  <2>3. \A s \in Calls : s \in rs <=> \/ \E k \in DOMAIN chan[g] : chan[g][k] = s
                                      \/ \E x \in TxnIds : pending[g][x] = s
    BY CallsAssumption DEF InFlight, CallsIn, ToSet, Replies
  <2> HIDE DEF rs
  <2>4. ASSUME NEW s \in Calls PROVE Held(s)' <=> Held(s) /\ s \notin rs
    <3>1. s # None
      BY CallsAssumption DEF Replies
    <3>2. ASSUME Held(s)' PROVE Held(s) /\ s \notin rs
      <4>1. PICK h \in Gens : \/ \E k \in DOMAIN chan'[h] : chan'[h][k] = s
                              \/ \E x \in TxnIds : pending'[h][x] = s
        BY <3>2 DEF Held
      <4>2. h # g /\ chan'[h] = chan[h] /\ pending'[h] = pending[h]
        BY <4>1, <2>1, <3>1
      <4> QED
        BY <4>1, <4>2, <2>3, <3>1 DEF Held, Placed
    <3>3. ASSUME Held(s), s \notin rs PROVE Held(s)'
      <4>1. PICK h \in Gens : \/ \E k \in DOMAIN chan[h] : chan[h][k] = s
                              \/ \E x \in TxnIds : pending[h][x] = s
        BY <3>3 DEF Held
      <4>2. h # g
        BY <4>1, <3>3, <2>3
      <4> QED
        BY <4>1, <4>2, <2>1 DEF Held
    <3> QED
      BY <3>2, <3>3
  <2>5. \A s \in Calls : s \in rs => Held(s)
    BY <2>3 DEF Held
  <2> QED
    BY <2>2, <2>4, <2>5, OwedLess
<1>12. ASSUME NEW g \in Gens, HandleCommand(g) PROVE Owed'
  <2> DEFINE x == next_txn_id[g]
             r == chan[g][1]
             p == pending[g][x]
  <2>1. /\ \A h \in Gens : h # g => chan'[h] = chan[h]
        /\ r \in Calls /\ 1 \in DOMAIN chan[g]
        /\ Len(chan[g]) \in Nat /\ DOMAIN chan[g] = 1..Len(chan[g])
        /\ DOMAIN chan'[g] = 1..(Len(chan[g]) - 1)
        /\ \A k \in 1..(Len(chan[g]) - 1) : chan'[g][k] = chan[g][k + 1]
    BY <1>12, TakePlaces DEF HandleCommand
  <2>2. /\ x \in TxnIds /\ pending'[g][x] = r
        /\ \A h \in Gens, y \in TxnIds : ~(h = g /\ y = x) => pending'[h][y] = pending[h][y]
        /\ oneshot' = Replied({p}, "failed")
    BY <1>12, HandlePlaces
  <2>3. \A s \in Calls : (\E k \in DOMAIN chan'[g] : chan'[g][k] = s)
                          <=> (\E k \in DOMAIN chan[g] : chan[g][k] = s) /\ s # r
    BY <2>1, TakenHeld
  <2>4. r # p /\ Held(r)
    BY <2>1, <2>2 DEF Placed, Held
  <2> HIDE DEF x
  <2>5. ASSUME NEW s \in Calls, s # r PROVE Held(s)' <=> Held(s) /\ s # p
    <3>1. ASSUME Held(s)' PROVE Held(s) /\ s # p
      <4>1. PICK h \in Gens : \/ \E k \in DOMAIN chan'[h] : chan'[h][k] = s
                              \/ \E y \in TxnIds : pending'[h][y] = s
        BY <3>1 DEF Held
      <4>2. CASE \E k \in DOMAIN chan'[h] : chan'[h][k] = s
        <5>1. PICK k \in DOMAIN chan[h] : chan[h][k] = s
          <6>1. CASE h = g
            BY <4>2, <6>1, <2>3
          <6>2. CASE h # g
            BY <4>2, <6>2, <2>1
          <6> QED
            BY <6>1, <6>2
        <5> QED
          BY <5>1, <2>2 DEF Held, Placed
      <4>3. ASSUME NEW y \in TxnIds, pending'[h][y] = s PROVE Held(s) /\ s # p
        <5>1. ~(h = g /\ y = x) /\ pending[h][y] = s
          BY <4>3, <2>2, <2>5
        <5>2. s # None
          BY CallsAssumption DEF Replies
        <5> QED
          BY <5>1, <5>2, <2>2 DEF Held, Placed
      <4> QED
        BY <4>1, <4>2, <4>3
    <3>2. ASSUME Held(s), s # p PROVE Held(s)'
      <4>1. PICK h \in Gens : \/ \E k \in DOMAIN chan[h] : chan[h][k] = s
                              \/ \E y \in TxnIds : pending[h][y] = s
        BY <3>2 DEF Held
      <4>2. CASE \E k \in DOMAIN chan[h] : chan[h][k] = s
        <5>1. \E k \in DOMAIN chan'[h] : chan'[h][k] = s
          BY <4>2, <2>1, <2>3, <2>5
        <5> QED
          BY <5>1 DEF Held
      <4>3. CASE \E y \in TxnIds : pending[h][y] = s
        BY <4>3, <3>2, <2>2 DEF Held
      <4> QED
        BY <4>1, <4>2, <4>3
    <3> QED
      BY <3>1, <3>2
  <2>6. ASSUME NEW s \in Calls, s = r PROVE Held(s)' /\ Held(s) /\ s # p
    BY <2>2, <2>4, <2>6 DEF Held
  <2>7. \A s \in Calls : Held(s)' <=> Held(s) /\ s \notin {p}
    BY <2>5, <2>6
  <2>8. \A s \in Calls : s \in {p} => Held(s)
    BY <2>2 DEF Held
  <2>9. "failed" \in Replies /\ UNCHANGED phase
    BY <1>12 DEF Replies, HandleCommand, callVars
  <2> HIDE DEF r, p
  <2> QED
    BY <2>2, <2>7, <2>8, <2>9, OwedLess
<1>13. ASSUME NEW g \in Gens, CommandRefused(g) PROVE Owed'
  <2> DEFINE r == chan[g][1]
  <2>1. /\ \A h \in Gens : h # g => chan'[h] = chan[h]
        /\ Head(chan[g]) = r /\ r \in Calls /\ 1 \in DOMAIN chan[g]
        /\ Len(chan[g]) \in Nat /\ DOMAIN chan[g] = 1..Len(chan[g])
        /\ DOMAIN chan'[g] = 1..(Len(chan[g]) - 1)
        /\ \A k \in 1..(Len(chan[g]) - 1) : chan'[g][k] = chan[g][k + 1]
    BY <1>13, TakePlaces DEF CommandRefused
  <2>2. pending' = pending /\ phase' = phase /\ oneshot' = Replied({r}, "failed")
    BY <1>13, <2>1 DEF CommandRefused, callVars
  <2>3. \A s \in Calls : (\E k \in DOMAIN chan'[g] : chan'[g][k] = s)
                          <=> (\E k \in DOMAIN chan[g] : chan[g][k] = s) /\ s # r
    BY <2>1, TakenHeld
  <2>4. ASSUME NEW s \in Calls PROVE Held(s)' <=> Held(s) /\ s \notin {r}
    <3>1. \A h \in Gens : (\E k \in DOMAIN chan'[h] : chan'[h][k] = s)
                           <=> (\E k \in DOMAIN chan[h] : chan[h][k] = s) /\ s # r
      <4> TAKE h \in Gens
      <4>1. CASE h = g
        BY <4>1, <2>3
      <4>2. CASE h # g
        BY <4>2, <2>1 DEF Placed
      <4> QED
        BY <4>1, <4>2
    <3>2. \A h \in Gens, x \in TxnIds : pending[h][x] # r
      BY <2>1 DEF Placed
    <3> HIDE DEF r
    <3> QED
      BY <3>1, <3>2, <2>2 DEF Held
  <2>5. \A s \in Calls : s \in {r} => Held(s)
    BY <2>1 DEF Held
  <2>6. "failed" \in Replies
    BY DEF Replies
  <2> HIDE DEF r
  <2> QED
    BY <2>2, <2>4, <2>5, <2>6, OwedLess
<1>14. ASSUME NEW g \in Gens, ReceiveFails(g) PROVE Owed'
  <2> DEFINE rs == InFlight(g) \cup ToSet(chan[g])
  <2>1. /\ \A h \in Gens : h # g => chan'[h] = chan[h] /\ pending'[h] = pending[h]
        /\ DOMAIN chan'[g] = {} /\ \A x \in TxnIds : pending'[g][x] = None
    BY <1>14, EndPlaces DEF ReceiveFails
  <2>2. oneshot' = Replied(rs, "failed") /\ UNCHANGED phase /\ "failed" \in Replies
    BY <1>14 DEF ReceiveFails, TaskEnds, callVars, Replies
  <2>3. \A s \in Calls : s \in rs <=> \/ \E k \in DOMAIN chan[g] : chan[g][k] = s
                                      \/ \E x \in TxnIds : pending[g][x] = s
    BY CallsAssumption DEF InFlight, CallsIn, ToSet, Replies
  <2> HIDE DEF rs
  <2>4. ASSUME NEW s \in Calls PROVE Held(s)' <=> Held(s) /\ s \notin rs
    <3>1. s # None
      BY CallsAssumption DEF Replies
    <3>2. ASSUME Held(s)' PROVE Held(s) /\ s \notin rs
      <4>1. PICK h \in Gens : \/ \E k \in DOMAIN chan'[h] : chan'[h][k] = s
                              \/ \E x \in TxnIds : pending'[h][x] = s
        BY <3>2 DEF Held
      <4>2. h # g /\ chan'[h] = chan[h] /\ pending'[h] = pending[h]
        BY <4>1, <2>1, <3>1
      <4> QED
        BY <4>1, <4>2, <2>3, <3>1 DEF Held, Placed
    <3>3. ASSUME Held(s), s \notin rs PROVE Held(s)'
      <4>1. PICK h \in Gens : \/ \E k \in DOMAIN chan[h] : chan[h][k] = s
                              \/ \E x \in TxnIds : pending[h][x] = s
        BY <3>3 DEF Held
      <4>2. h # g
        BY <4>1, <3>3, <2>3
      <4> QED
        BY <4>1, <4>2, <2>1 DEF Held
    <3> QED
      BY <3>2, <3>3
  <2>5. \A s \in Calls : s \in rs => Held(s)
    BY <2>3 DEF Held
  <2> QED
    BY <2>2, <2>4, <2>5, OwedLess
<1>15. ASSUME NEW g \in Gens, ProcessFrame(g) PROVE Owed'
  <2>1. PICK y \in TxnIds, reply \in Replies :
          /\ chan' = chan /\ pending'[g][y] = None
          /\ \A h \in Gens, x \in TxnIds : ~(h = g /\ x = y) => pending'[h][x] = pending[h][x]
          /\ oneshot' = Replied({pending[g][y]}, reply)
    BY <1>15, FramePlaces
  <2> DEFINE p == pending[g][y]
  <2>2. UNCHANGED phase
    BY <1>15 DEF ProcessFrame, callVars
  <2>3. ASSUME NEW s \in Calls PROVE Held(s)' <=> Held(s) /\ s \notin {p}
    <3>1. s # None
      BY CallsAssumption DEF Replies
    <3>2. ASSUME Held(s)' PROVE Held(s) /\ s \notin {p}
      <4>1. PICK h \in Gens : \/ \E k \in DOMAIN chan[h] : chan[h][k] = s
                              \/ \E x \in TxnIds : pending'[h][x] = s
        BY <2>1, <3>2 DEF Held
      <4>2. CASE \E k \in DOMAIN chan[h] : chan[h][k] = s
        BY <4>2, <2>1 DEF Held, Placed
      <4>3. ASSUME NEW x \in TxnIds, pending'[h][x] = s PROVE Held(s) /\ s \notin {p}
        <5>1. ~(h = g /\ x = y) /\ pending[h][x] = s
          BY <4>3, <2>1, <3>1
        <5> QED
          BY <5>1, <3>1, <2>1 DEF Held, Placed
      <4> QED
        BY <4>1, <4>2, <4>3
    <3>3. ASSUME Held(s), s \notin {p} PROVE Held(s)'
      <4>1. PICK h \in Gens : \/ \E k \in DOMAIN chan[h] : chan[h][k] = s
                              \/ \E x \in TxnIds : pending[h][x] = s
        BY <3>3 DEF Held
      <4> QED
        BY <4>1, <3>3, <2>1 DEF Held
    <3> QED
      BY <3>2, <3>3
  <2>4. \A s \in Calls : s \in {p} => Held(s)
    BY <2>1 DEF Held
  <2> HIDE DEF p
  <2> QED
    BY <2>1, <2>2, <2>3, <2>4, OwedLess DEF p
<1>16. ASSUME NEW g \in Gens, ProcessDamaged(g) PROVE Owed'
  <2>1. PICK y \in TxnIds, reply \in Replies :
          /\ chan' = chan /\ pending'[g][y] = None
          /\ \A h \in Gens, x \in TxnIds : ~(h = g /\ x = y) => pending'[h][x] = pending[h][x]
          /\ oneshot' = Replied({pending[g][y]}, reply)
    BY <1>16, FramePlaces
  <2> DEFINE p == pending[g][y]
  <2>2. UNCHANGED phase
    BY <1>16 DEF ProcessDamaged, callVars
  <2>3. ASSUME NEW s \in Calls PROVE Held(s)' <=> Held(s) /\ s \notin {p}
    <3>1. s # None
      BY CallsAssumption DEF Replies
    <3>2. ASSUME Held(s)' PROVE Held(s) /\ s \notin {p}
      <4>1. PICK h \in Gens : \/ \E k \in DOMAIN chan[h] : chan[h][k] = s
                              \/ \E x \in TxnIds : pending'[h][x] = s
        BY <2>1, <3>2 DEF Held
      <4>2. CASE \E k \in DOMAIN chan[h] : chan[h][k] = s
        BY <4>2, <2>1 DEF Held, Placed
      <4>3. ASSUME NEW x \in TxnIds, pending'[h][x] = s PROVE Held(s) /\ s \notin {p}
        <5>1. ~(h = g /\ x = y) /\ pending[h][x] = s
          BY <4>3, <2>1, <3>1
        <5> QED
          BY <5>1, <3>1, <2>1 DEF Held, Placed
      <4> QED
        BY <4>1, <4>2, <4>3
    <3>3. ASSUME Held(s), s \notin {p} PROVE Held(s)'
      <4>1. PICK h \in Gens : \/ \E k \in DOMAIN chan[h] : chan[h][k] = s
                              \/ \E x \in TxnIds : pending[h][x] = s
        BY <3>3 DEF Held
      <4> QED
        BY <4>1, <3>3, <2>1 DEF Held
    <3> QED
      BY <3>2, <3>3
  <2>4. \A s \in Calls : s \in {p} => Held(s)
    BY <2>1 DEF Held
  <2> HIDE DEF p
  <2> QED
    BY <2>1, <2>2, <2>3, <2>4, OwedLess DEF p
<1>17. ASSUME NEW g \in Gens, ReceiveMalformed(g) PROVE Owed'
  <2> DEFINE rs == InFlight(g) \cup ToSet(chan[g])
  <2>1. /\ \A h \in Gens : h # g => chan'[h] = chan[h] /\ pending'[h] = pending[h]
        /\ DOMAIN chan'[g] = {} /\ \A x \in TxnIds : pending'[g][x] = None
    BY <1>17, EndPlaces DEF ReceiveMalformed
  <2>2. oneshot' = Replied(rs, "failed") /\ UNCHANGED phase /\ "failed" \in Replies
    BY <1>17 DEF ReceiveMalformed, TaskEnds, callVars, Replies
  <2>3. \A s \in Calls : s \in rs <=> \/ \E k \in DOMAIN chan[g] : chan[g][k] = s
                                      \/ \E x \in TxnIds : pending[g][x] = s
    BY CallsAssumption DEF InFlight, CallsIn, ToSet, Replies
  <2> HIDE DEF rs
  <2>4. ASSUME NEW s \in Calls PROVE Held(s)' <=> Held(s) /\ s \notin rs
    <3>1. s # None
      BY CallsAssumption DEF Replies
    <3>2. ASSUME Held(s)' PROVE Held(s) /\ s \notin rs
      <4>1. PICK h \in Gens : \/ \E k \in DOMAIN chan'[h] : chan'[h][k] = s
                              \/ \E x \in TxnIds : pending'[h][x] = s
        BY <3>2 DEF Held
      <4>2. h # g /\ chan'[h] = chan[h] /\ pending'[h] = pending[h]
        BY <4>1, <2>1, <3>1
      <4> QED
        BY <4>1, <4>2, <2>3, <3>1 DEF Held, Placed
    <3>3. ASSUME Held(s), s \notin rs PROVE Held(s)'
      <4>1. PICK h \in Gens : \/ \E k \in DOMAIN chan[h] : chan[h][k] = s
                              \/ \E x \in TxnIds : pending[h][x] = s
        BY <3>3 DEF Held
      <4>2. h # g
        BY <4>1, <3>3, <2>3
      <4> QED
        BY <4>1, <4>2, <2>1 DEF Held
    <3> QED
      BY <3>2, <3>3
  <2>5. \A s \in Calls : s \in rs => Held(s)
    BY <2>3 DEF Held
  <2> QED
    BY <2>2, <2>4, <2>5, OwedLess
<1>18. ASSUME NEW g \in Gens, ConnectionLost(g) PROVE Owed'
  BY <1>18, OwedSame DEF ConnectionLost, CountReset, callVars, taskVars, lifeVars
<1>19. CASE UNCHANGED vars
  BY <1>19, OwedSame DEF vars
<1> QED
  BY <1>1, <1>2, <1>3, <1>4, <1>5, <1>6, <1>7, <1>8, <1>9, <1>10, <1>11, <1>12, <1>13, <1>14,
     <1>15, <1>16, <1>17, <1>18, <1>19 DEF Next, CallStep, RunSpawned, TaskStep, LinkStep


-----------------------------------------------------------------------------

(* No step gives a connection to two tasks.                                 *)
LEMMA OneTaskStep ==
  ASSUME TypeOK, TypeOK', Started, OneTask, [Next]_vars
  PROVE  OneTask'
<1> USE CallsAssumption DEF OneTask
<1>1. ASSUME NEW r \in Calls, Dispatch(r) PROVE OneTask'
  BY <1>1 DEF Dispatch, Refused, Settled, callVars, lifeVars, taskVars
<1>2. ASSUME NEW r \in Calls, DispatchAborted(r) PROVE OneTask'
  BY <1>2 DEF DispatchAborted, Refused, Settled, callVars, lifeVars, taskVars
<1>3. ASSUME NEW r \in Calls, DispatchClosed(r) PROVE OneTask'
  BY <1>3 DEF DispatchClosed, Refused, Settled, callVars, lifeVars, taskVars
<1>4. ASSUME NEW r \in Calls, Respond(r) PROVE OneTask'
  BY <1>4 DEF Respond, Refused, Settled, callVars, lifeVars, taskVars
<1>5. ASSUME NEW r \in Calls, GiveUp(r) PROVE OneTask'
  BY <1>5 DEF GiveUp, Refused, Settled, callVars, lifeVars, taskVars
<1>6. CASE CallReconnect
  BY <1>6 DEF CallReconnect, Refused, Settled, callVars, lifeVars, taskVars
<1>7. CASE Close
  BY <1>7 DEF Close, taskVars, TypeOK
<1>8. CASE RunReconnect
  <2>1. PICK g \in Gens : /\ task[g] = "unborn" /\ active_transport' = g
                         /\ task' = [task EXCEPT ![g] = "spawned"]
    BY <1>8, FreshGeneration
  <2>2. transport' = transport
    BY <1>8 DEF RunReconnect
  <2> QED
    BY <2>1, <2>2 DEF TypeOK
<1>9. CASE RunReconnectFails
  BY <1>9 DEF RunReconnectFails, Refused, Settled, callVars, lifeVars, taskVars
<1>10. CASE StartTask
  <2>1. PICK g \in Gens : Head(spawned).gen = g
    BY <1>10, HeadOfSpawned
  <2>2. active_transport' = None /\ \A h \in Gens : task[h] # "unborn" => task'[h] # "unborn"
    BY <1>10, <2>1 DEF StartTask, TypeOK
  <2>3. CASE active_transport = None
    <3>1. transport' = transport
      BY <1>10, <2>3 DEF StartTask
    <3> QED
      BY <2>2, <3>1 DEF TypeOK
  <2>4. CASE active_transport # None
    <3>1. transport'[g] = active_transport /\ \A h \in Gens : h # g => transport'[h] = transport[h]
      BY <1>10, <2>1, <2>4 DEF StartTask, TypeOK
    <3> QED
      BY <2>2, <2>4, <3>1 DEF TypeOK
  <2> QED
    BY <2>3, <2>4
<1>11. ASSUME NEW g \in Gens, ChannelClosed(g) PROVE OneTask'
  <2>1. /\ UNCHANGED <<transport, active_transport>>
        /\ \A h \in Gens : task[h] # "unborn" => task'[h] # "unborn"
    BY <1>11 DEF ChannelClosed, TaskEnds, lifeVars, TypeOK
  <2> QED
    BY <2>1 DEF TypeOK
<1>12. ASSUME NEW g \in Gens, HandleCommand(g) PROVE OneTask'
  BY <1>12 DEF HandleCommand, Refused, Settled, callVars, lifeVars, taskVars
<1>13. ASSUME NEW g \in Gens, CommandRefused(g) PROVE OneTask'
  BY <1>13 DEF CommandRefused, Refused, Settled, callVars, lifeVars, taskVars
<1>14. ASSUME NEW g \in Gens, ReceiveFails(g) PROVE OneTask'
  <2>1. /\ UNCHANGED <<transport, active_transport>>
        /\ \A h \in Gens : task[h] # "unborn" => task'[h] # "unborn"
    BY <1>14 DEF ReceiveFails, TaskEnds, lifeVars, TypeOK
  <2> QED
    BY <2>1 DEF TypeOK
<1>15. ASSUME NEW g \in Gens, ProcessFrame(g) PROVE OneTask'
  BY <1>15 DEF ProcessFrame, Refused, Settled, callVars, lifeVars, taskVars
<1>16. ASSUME NEW g \in Gens, ProcessDamaged(g) PROVE OneTask'
  BY <1>16 DEF ProcessDamaged, Refused, Settled, callVars, lifeVars, taskVars
<1>17. ASSUME NEW g \in Gens, ReceiveMalformed(g) PROVE OneTask'
  <2>1. /\ UNCHANGED <<transport, active_transport>>
        /\ \A h \in Gens : task[h] # "unborn" => task'[h] # "unborn"
    BY <1>17 DEF ReceiveMalformed, TaskEnds, lifeVars, TypeOK
  <2> QED
    BY <2>1 DEF TypeOK
<1>18. ASSUME NEW g \in Gens, ConnectionLost(g) PROVE OneTask'
  BY <1>18 DEF ConnectionLost, Refused, Settled, callVars, lifeVars, taskVars
<1>19. CASE UNCHANGED vars
  BY <1>19 DEF vars
<1> QED
  BY <1>1, <1>2, <1>3, <1>4, <1>5, <1>6, <1>7, <1>8, <1>9, <1>10, <1>11, <1>12, <1>13, <1>14,
     <1>15, <1>16, <1>17, <1>18, <1>19 DEF Next, CallStep, RunSpawned, TaskStep, LinkStep

(* The task gives no request the transaction id of one the peer has yet to  *)
(* answer: 65536 requests are not outstanding together.                     *)
NoIdReused ==
  \A g \in Gens : HandleCommand(g) => \A f \in sent[transport[g]] : f[1] # next_txn_id[g]

(* Awaited survives whatever only answers or forgets.                       *)
LEMMA AwaitedFewer ==
  ASSUME TypeOK, Awaited, transport' = transport,
         \A c \in Gens : sent'[c] \subseteq sent[c],
         \A h \in Gens, x \in TxnIds : pending'[h][x] \in {pending[h][x], None}
  PROVE  Awaited'
<1>1. ASSUME NEW h \in Gens, transport[h] # None, NEW f \in sent'[transport[h]],
             pending'[h][f[1]] # None
      PROVE  pending'[h][f[1]] = f[2]
  <2>1. transport[h] \in Gens
    BY <1>1 DEF TypeOK
  <2>2. f \in sent[transport[h]]
    BY <1>1, <2>1
  <2>3. f[1] \in TxnIds
    BY <2>1, <2>2 DEF TypeOK
  <2> QED
    BY <1>1, <2>2, <2>3 DEF Awaited
<1> QED
  BY <1>1 DEF Awaited

(* Unless an id is reused, the pending map and the peer agree.              *)
LEMMA AwaitedStep ==
  ASSUME TypeOK, TypeOK', Started, Served, OneTask, Awaited, [NoIdReused]_vars, [Next]_vars
  PROVE  Awaited'
<1>1. ASSUME NEW r \in Calls, Dispatch(r) PROVE Awaited'
  BY <1>1 DEF Dispatch, Refused, Settled, callVars, lifeVars, taskVars, Awaited
<1>2. ASSUME NEW r \in Calls, DispatchAborted(r) PROVE Awaited'
  BY <1>2 DEF DispatchAborted, Refused, Settled, callVars, lifeVars, taskVars, Awaited
<1>3. ASSUME NEW r \in Calls, DispatchClosed(r) PROVE Awaited'
  BY <1>3 DEF DispatchClosed, Refused, Settled, callVars, lifeVars, taskVars, Awaited
<1>4. ASSUME NEW r \in Calls, Respond(r) PROVE Awaited'
  BY <1>4 DEF Respond, Refused, Settled, callVars, lifeVars, taskVars, Awaited
<1>5. ASSUME NEW r \in Calls, GiveUp(r) PROVE Awaited'
  BY <1>5 DEF GiveUp, Refused, Settled, callVars, lifeVars, taskVars, Awaited
<1>6. CASE CallReconnect
  BY <1>6 DEF CallReconnect, Refused, Settled, callVars, lifeVars, taskVars, Awaited
<1>7. CASE Close
  BY <1>7 DEF Close, Refused, Settled, callVars, lifeVars, taskVars, Awaited
<1>8. CASE RunReconnect
  BY <1>8 DEF RunReconnect, Refused, Settled, callVars, lifeVars, taskVars, Awaited
<1>9. CASE RunReconnectFails
  BY <1>9 DEF RunReconnectFails, Refused, Settled, callVars, lifeVars, taskVars, Awaited
<1>10. CASE StartTask
  <2>1. PICK g \in Gens :
           /\ Head(spawned).gen = g /\ pending' = pending
           /\ \A x \in TxnIds : pending[g][x] = None
    BY <1>10, StartPlaces
  <2>2. sent' = sent /\ \A h \in Gens : h # g => transport'[h] = transport[h]
    BY <1>10, <2>1 DEF StartTask, TypeOK
  <2>3. ASSUME NEW h \in Gens, transport'[h] # None, NEW f \in sent'[transport'[h]],
               pending'[h][f[1]] # None
        PROVE  pending'[h][f[1]] = f[2]
    <3>1. f[1] \in TxnIds
      BY <2>3 DEF TypeOK
    <3>2. h # g
      BY <2>1, <2>3, <3>1
    <3> QED
      BY <2>1, <2>2, <2>3, <3>2 DEF Awaited
  <2> QED
    BY <2>3 DEF Awaited
<1>11. ASSUME NEW g \in Gens, ChannelClosed(g) PROVE Awaited'
  <2>1. /\ \A h \in Gens : h # g => pending'[h] = pending[h]
        /\ \A x \in TxnIds : pending'[g][x] = None
    BY <1>11, EndPlaces DEF ChannelClosed
  <2>2. transport' = transport /\ \A c \in Gens : sent'[c] \subseteq sent[c]
    BY <1>11 DEF ChannelClosed, TaskEnds, TypeOK
  <2> QED
    BY <2>1, <2>2, AwaitedFewer
<1>12. ASSUME NEW g \in Gens, HandleCommand(g) PROVE Awaited'
  <2> DEFINE x == next_txn_id[g]
             r == chan[g][1]
             t == transport[g]
  <2>1. /\ x \in TxnIds /\ pending'[g][x] = r
        /\ \A h \in Gens, y \in TxnIds : ~(h = g /\ y = x) => pending'[h][y] = pending[h][y]
    BY <1>12, HandlePlaces
  <2>2. /\ t \in Gens /\ t # None /\ transport' = transport
        /\ \A c \in Gens : c # t => sent'[c] = sent[c]
        /\ sent'[t] = sent[t] \cup {<<x, r>>}
    BY <1>12, TakePlaces, CallsAssumption DEF HandleCommand, TypeOK
  <2>3. CASE UNCHANGED vars
    BY <2>3 DEF vars, Awaited
  <2>4. CASE NoIdReused
    <3>1. \A f \in sent[t] : f[1] # x
      BY <1>12, <2>4 DEF NoIdReused
    <3> HIDE DEF x, r, t
    <3>2. ASSUME NEW h \in Gens, transport'[h] # None, NEW f \in sent'[transport'[h]],
                 pending'[h][f[1]] # None
          PROVE  pending'[h][f[1]] = f[2]
      <4>1. f[1] \in TxnIds
        BY <3>2 DEF TypeOK
      <4>2. CASE h # g
        <5>1. transport[h] # t /\ transport[h] \in Gens
          BY <4>2, <3>2, <2>2 DEF OneTask, TypeOK, t
        <5>2. f \in sent[transport[h]] /\ pending'[h][f[1]] = pending[h][f[1]]
          BY <4>1, <4>2, <5>1, <3>2, <2>1, <2>2
        <5> QED
          BY <5>2, <3>2, <2>2 DEF Awaited
      <4>3. CASE h = g /\ f = <<x, r>>
        BY <4>3, <2>1
      <4>4. CASE h = g /\ f # <<x, r>>
        <5>1. f \in sent[transport[h]] /\ f[1] # x
          BY <4>4, <3>1, <3>2, <2>2 DEF t
        <5>2. pending'[h][f[1]] = pending[h][f[1]]
          BY <4>1, <5>1, <2>1
        <5> QED
          BY <5>1, <5>2, <3>2, <2>2 DEF Awaited
      <4> QED
        BY <4>2, <4>3, <4>4
    <3> QED
      BY <3>2 DEF Awaited
  <2> QED
    BY <2>3, <2>4
<1>13. ASSUME NEW g \in Gens, CommandRefused(g) PROVE Awaited'
  BY <1>13 DEF CommandRefused, Refused, Settled, callVars, lifeVars, taskVars, Awaited
<1>14. ASSUME NEW g \in Gens, ReceiveFails(g) PROVE Awaited'
  <2>1. /\ \A h \in Gens : h # g => pending'[h] = pending[h]
        /\ \A x \in TxnIds : pending'[g][x] = None
    BY <1>14, EndPlaces DEF ReceiveFails
  <2>2. transport' = transport /\ \A c \in Gens : sent'[c] \subseteq sent[c]
    BY <1>14 DEF ReceiveFails, TaskEnds, TypeOK
  <2> QED
    BY <2>1, <2>2, AwaitedFewer
<1>15. ASSUME NEW g \in Gens, ProcessFrame(g) PROVE Awaited'
  <2>1. PICK y \in TxnIds :
          /\ pending'[g][y] = None
          /\ \A h \in Gens, x \in TxnIds : ~(h = g /\ x = y) => pending'[h][x] = pending[h][x]
    BY <1>15, FramePlaces
  <2>2. transport' = transport /\ \A c \in Gens : sent'[c] \subseteq sent[c]
    BY <1>15 DEF ProcessFrame, TypeOK
  <2> QED
    BY <2>1, <2>2, AwaitedFewer
<1>16. ASSUME NEW g \in Gens, ProcessDamaged(g) PROVE Awaited'
  <2>1. PICK y \in TxnIds :
          /\ pending'[g][y] = None
          /\ \A h \in Gens, x \in TxnIds : ~(h = g /\ x = y) => pending'[h][x] = pending[h][x]
    BY <1>16, FramePlaces
  <2>2. transport' = transport /\ \A c \in Gens : sent'[c] \subseteq sent[c]
    BY <1>16 DEF ProcessDamaged, TypeOK
  <2> QED
    BY <2>1, <2>2, AwaitedFewer
<1>17. ASSUME NEW g \in Gens, ReceiveMalformed(g) PROVE Awaited'
  <2>1. /\ \A h \in Gens : h # g => pending'[h] = pending[h]
        /\ \A x \in TxnIds : pending'[g][x] = None
    BY <1>17, EndPlaces DEF ReceiveMalformed
  <2>2. transport' = transport /\ \A c \in Gens : sent'[c] \subseteq sent[c]
    BY <1>17 DEF ReceiveMalformed, TaskEnds, TypeOK
  <2> QED
    BY <2>1, <2>2, AwaitedFewer
<1>18. ASSUME NEW g \in Gens, ConnectionLost(g) PROVE Awaited'
  <2>1. UNCHANGED <<transport, pending>> /\ \A c \in Gens : sent'[c] \subseteq sent[c]
    BY <1>18 DEF ConnectionLost, taskVars, TypeOK
  <2> QED
    BY <2>1, AwaitedFewer
<1>19. CASE UNCHANGED vars
  BY <1>19 DEF vars, Awaited
<1> QED
  BY <1>1, <1>2, <1>3, <1>4, <1>5, <1>6, <1>7, <1>8, <1>9, <1>10, <1>11, <1>12, <1>13, <1>14,
     <1>15, <1>16, <1>17, <1>18, <1>19 DEF Next, CallStep, RunSpawned, TaskStep, LinkStep

(* A frame is matched to the request it answers.                            *)
LEMMA OwnReplyStep ==
  ASSUME ~Serial, TypeOK, Awaited, OwnReply, [Next]_vars
  PROVE  OwnReply'
<1> USE CallsAssumption DEF OwnReply
<1>1. ASSUME NEW r \in Calls, Dispatch(r) PROVE OwnReply'
  BY <1>1 DEF Dispatch, CountReset, callVars, lifeVars, taskVars
<1>2. ASSUME NEW r \in Calls, DispatchAborted(r) PROVE OwnReply'
  BY <1>2 DEF DispatchAborted, Refused, Settled, callVars, lifeVars, taskVars, Replies, TypeOK
<1>3. ASSUME NEW r \in Calls, DispatchClosed(r) PROVE OwnReply'
  BY <1>3 DEF DispatchClosed, Refused, Settled, callVars, lifeVars, taskVars, Replies, TypeOK
<1>4. ASSUME NEW r \in Calls, Respond(r) PROVE OwnReply'
  BY <1>4 DEF Respond, Refused, Settled, callVars, lifeVars, taskVars, Replies, TypeOK
<1>5. ASSUME NEW r \in Calls, GiveUp(r) PROVE OwnReply'
  BY <1>5 DEF GiveUp, Refused, Settled, callVars, lifeVars, taskVars, Replies, TypeOK
<1>6. CASE CallReconnect
  BY <1>6 DEF CallReconnect, CountReset, callVars, lifeVars, taskVars
<1>7. CASE Close
  BY <1>7 DEF Close, CountReset, callVars, lifeVars, taskVars
<1>8. CASE RunReconnect
  BY <1>8 DEF RunReconnect, CountReset, callVars, lifeVars, taskVars
<1>9. CASE RunReconnectFails
  BY <1>9 DEF RunReconnectFails, CountReset, callVars, lifeVars, taskVars
<1>10. CASE StartTask
  <2>1. oneshot' = oneshot \/ \E rs : oneshot' = Replied(rs, "failed")
    BY <1>10 DEF StartTask
  <2>2. UNCHANGED outcome
    BY <1>10 DEF StartTask, callVars
  <2> QED
    BY <2>1, <2>2 DEF Replied
<1>11. ASSUME NEW g \in Gens, ChannelClosed(g) PROVE OwnReply'
  <2>1. PICK rs : oneshot' = Replied(rs, "failed")
    BY <1>11 DEF ChannelClosed, TaskEnds
  <2>2. UNCHANGED outcome
    BY <1>11 DEF ChannelClosed, TaskEnds, callVars
  <2> QED
    BY <2>1, <2>2 DEF Replied
<1>12. ASSUME NEW g \in Gens, HandleCommand(g) PROVE OwnReply'
  <2>1. PICK rs : oneshot' = Replied(rs, "failed")
    BY <1>12 DEF HandleCommand
  <2>2. UNCHANGED outcome
    BY <1>12 DEF HandleCommand, callVars
  <2> QED
    BY <2>1, <2>2 DEF Replied
<1>13. ASSUME NEW g \in Gens, CommandRefused(g) PROVE OwnReply'
  <2>1. PICK rs : oneshot' = Replied(rs, "failed")
    BY <1>13 DEF CommandRefused
  <2>2. UNCHANGED outcome
    BY <1>13 DEF CommandRefused, callVars
  <2> QED
    BY <2>1, <2>2 DEF Replied
<1>14. ASSUME NEW g \in Gens, ReceiveFails(g) PROVE OwnReply'
  <2>1. PICK rs : oneshot' = Replied(rs, "failed")
    BY <1>14 DEF ReceiveFails, TaskEnds
  <2>2. UNCHANGED outcome
    BY <1>14 DEF ReceiveFails, TaskEnds, callVars
  <2> QED
    BY <2>1, <2>2 DEF Replied
<1>15. ASSUME NEW g \in Gens, ProcessFrame(g) PROVE OwnReply'
  <2>1. PICK f \in sent[transport[g]] : oneshot' = Replied({pending[g][f[1]]}, f[2])
    BY <1>15 DEF ProcessFrame, Key
  <2>2. UNCHANGED outcome /\ transport[g] # None
    BY <1>15, CallsAssumption DEF ProcessFrame, callVars, TypeOK
  <2>3. \A r \in Calls : r = pending[g][f[1]] => f[2] = r
    BY <2>1, <2>2 DEF Awaited, Replies
  <2> QED
    BY <2>1, <2>2, <2>3 DEF Replied
<1>16. ASSUME NEW g \in Gens, ProcessDamaged(g) PROVE OwnReply'
  <2>1. PICK rs : oneshot' = Replied(rs, "failed")
    BY <1>16 DEF ProcessDamaged
  <2>2. UNCHANGED outcome
    BY <1>16 DEF ProcessDamaged, callVars
  <2> QED
    BY <2>1, <2>2 DEF Replied
<1>17. ASSUME NEW g \in Gens, ReceiveMalformed(g) PROVE OwnReply'
  <2>1. PICK rs : oneshot' = Replied(rs, "failed")
    BY <1>17 DEF ReceiveMalformed, TaskEnds
  <2>2. UNCHANGED outcome
    BY <1>17 DEF ReceiveMalformed, TaskEnds, callVars
  <2> QED
    BY <2>1, <2>2 DEF Replied
<1>18. ASSUME NEW g \in Gens, ConnectionLost(g) PROVE OwnReply'
  BY <1>18 DEF ConnectionLost, CountReset, callVars, lifeVars, taskVars
<1>19. CASE UNCHANGED vars
  BY <1>19 DEF vars
<1> QED
  BY <1>1, <1>2, <1>3, <1>4, <1>5, <1>6, <1>7, <1>8, <1>9, <1>10, <1>11, <1>12, <1>13, <1>14,
     <1>15, <1>16, <1>17, <1>18, <1>19 DEF Next, CallStep, RunSpawned, TaskStep, LinkStep

(* Queues of one and two futures.                                           *)
LEMMA ShortQueues ==
  ASSUME NEW a, NEW b
  PROVE  /\ Append(<<a>>, b) = <<a, b>>
         /\ Tail(<<a>>) = <<>> /\ Tail(<<a, b>>) = <<b>>
<1>1. Append(<<a>>, b) = <<a, b>>
  <2> DEFINE s == Append(<<a>>, b)
  <2>1. <<a>> \in Seq({a, b}) /\ b \in {a, b} /\ <<a, b>> \in Seq({a, b})
    OBVIOUS
  <2>2. s \in Seq({a, b}) /\ Len(s) = 2 /\ s[1] = a /\ s[2] = b
    BY <2>1, AppendProperties
  <2>3. Len(<<a, b>>) = 2 /\ \A k \in 1..2 : s[k] = <<a, b>>[k]
    BY <2>2
  <2> HIDE DEF s
  <2>4. s = <<a, b>>
    BY <2>1, <2>2, <2>3, SeqEqual
  <2> QED
    BY <2>4 DEF s
<1>2. Tail(<<a>>) = <<>>
  OBVIOUS
<1>3. Tail(<<a, b>>) = <<b>>
  OBVIOUS
<1> QED
  BY <1>1, <1>2, <1>3

(* With one reconnection at a time, a reconnection runs alone.              *)
LEMMA HeadCases ==
  ASSUME NewestServed, spawned # <<>>, Head(spawned) = Reconnection
  PROVE  spawned = <<Reconnection>>
<1>1. \A g \in Gens : Start(g) # Reconnection
  BY DEF Start, Reconnection
<1>2. ASSUME NEW g \in Gens, spawned \in {<<Start(g)>>, <<Start(g), Reconnection>>} PROVE FALSE
  <2>1. Head(spawned) = Start(g)
    BY <1>2
  <2> QED
    BY <1>1, <2>1
<1> QED
  BY <1>2 DEF NewestServed

(* With one reconnection at a time, no step leaves the commands' channel    *)
(* without its connection.                                                  *)
LEMMA NewestServedStep ==
  ASSUME ~Overlap, TypeOK, Started, NewestServed, [Next]_vars
  PROVE  NewestServed'
<1> USE CallsAssumption
<1>1. ASSUME NEW r \in Calls, Dispatch(r) PROVE NewestServed'
  BY <1>1 DEF Dispatch, Refused, Settled, callVars, lifeVars, taskVars, NewestServed
<1>2. ASSUME NEW r \in Calls, DispatchAborted(r) PROVE NewestServed'
  BY <1>2 DEF DispatchAborted, Refused, Settled, callVars, lifeVars, taskVars, NewestServed
<1>3. ASSUME NEW r \in Calls, DispatchClosed(r) PROVE NewestServed'
  BY <1>3 DEF DispatchClosed, Refused, Settled, callVars, lifeVars, taskVars, NewestServed
<1>4. ASSUME NEW r \in Calls, Respond(r) PROVE NewestServed'
  BY <1>4 DEF Respond, Refused, Settled, callVars, lifeVars, taskVars, NewestServed
<1>5. ASSUME NEW r \in Calls, GiveUp(r) PROVE NewestServed'
  BY <1>5 DEF GiveUp, Refused, Settled, callVars, lifeVars, taskVars, NewestServed
<1>6. CASE CallReconnect
  <2>1. ~Contains(spawned, Reconnection) /\ spawned' = Append(spawned, Reconnection)
        /\ UNCHANGED <<cmd_tx, active_transport, transport>>
    BY <1>6 DEF CallReconnect, taskVars
  <2>2. CASE spawned = <<>>
    <3>1. spawned' = <<Reconnection>>
      BY <2>1, <2>2
    <3> QED
      BY <2>1, <2>2, <3>1 DEF NewestServed
  <2>3. spawned # <<Reconnection>> /\ \A g \in Gens : spawned # <<Start(g), Reconnection>>
    <3>1. spawned # <<Reconnection>>
      BY <2>1 DEF Contains
    <3>2. ASSUME NEW g \in Gens, spawned = <<Start(g), Reconnection>> PROVE FALSE
      <4>1. Len(spawned) = 2 /\ spawned[2] = Reconnection
        BY <3>2
      <4> QED
        BY <2>1, <4>1 DEF Contains
    <3> QED
      BY <3>1, <3>2
  <2>4. ASSUME NEW g \in Gens, spawned = <<Start(g)>>,
               <<cmd_tx, active_transport>> \in {<<g, g>>, <<None, None>>}
        PROVE  NewestServed'
    <3>1. spawned' = <<Start(g), Reconnection>>
      BY <2>1, <2>4, ShortQueues, Zenon
    <3> QED
      BY <2>1, <2>4, <3>1 DEF NewestServed
  <2> QED
    BY <2>2, <2>3, <2>4 DEF NewestServed
<1>7. CASE Close
  BY <1>7 DEF Close, taskVars, NewestServed
<1>8. CASE RunReconnect
  <2>1. spawned = <<Reconnection>>
    BY <1>8, HeadCases DEF RunReconnect
  <2>2. PICK g \in Gens : /\ cmd_tx' = g /\ active_transport' = g
                         /\ spawned' = Append(Tail(spawned), Start(g))
    BY <1>8, FreshGeneration
  <2>3. spawned' = <<Start(g)>>
    BY <2>1, <2>2
  <2> QED
    BY <2>2, <2>3 DEF NewestServed
<1>9. CASE RunReconnectFails
  <2>1. spawned = <<Reconnection>>
    BY <1>9, HeadCases DEF RunReconnectFails
  <2>2. spawned' = <<>> /\ UNCHANGED <<cmd_tx, active_transport, transport>>
    BY <1>9, <2>1 DEF RunReconnectFails, taskVars
  <2>3. \A g \in Gens : spawned # <<Start(g)>> /\ spawned # <<Start(g), Reconnection>>
    <3>1. \A g \in Gens : Start(g) # Reconnection
      BY DEF Start, Reconnection
    <3> QED
      BY <2>1, <3>1
  <2> QED
    BY <2>2, <2>3 DEF NewestServed
<1>10. CASE StartTask
  <2>1. PICK g \in Gens : Head(spawned) = Start(g) /\ Head(spawned).gen = g
    BY <1>10, HeadOfSpawned
  <2>2. /\ spawned \in {<<Start(g)>>, <<Start(g), Reconnection>>}
        /\ <<cmd_tx, active_transport>> \in {<<g, g>>, <<None, None>>}
    <3>1. /\ Start(g) # Reconnection
          /\ \A h \in Gens : Start(g) = Start(h) => g = h
      BY DEF Start, Reconnection
    <3>2. spawned # <<>> /\ spawned # <<Reconnection>>
      BY <1>10, <2>1, <3>1 DEF StartTask
    <3>3. PICK h \in Gens : /\ spawned \in {<<Start(h)>>, <<Start(h), Reconnection>>}
                            /\ <<cmd_tx, active_transport>> \in {<<h, h>>, <<None, None>>}
      BY <3>2 DEF NewestServed
    <3>4. Head(spawned) = Start(h)
      BY <3>3
    <3> QED
      BY <2>1, <3>1, <3>3, <3>4
  <2>3. spawned' \in {<<>>, <<Reconnection>>}
    <3>1. spawned' = Tail(spawned)
      BY <1>10 DEF StartTask
    <3>2. Tail(<<Start(g)>>) = <<>> /\ Tail(<<Start(g), Reconnection>>) = <<Reconnection>>
      BY ShortQueues, Zenon
    <3> QED
      BY <2>2, <3>1, <3>2, Zenon
  <2>4. active_transport' = None /\ cmd_tx' = cmd_tx
    BY <1>10 DEF StartTask
  <2>5. cmd_tx # None => transport'[cmd_tx] = cmd_tx
    <3> SUFFICES ASSUME cmd_tx # None PROVE transport'[cmd_tx] = cmd_tx
      OBVIOUS
    <3>1. cmd_tx = g /\ active_transport = g /\ active_transport # None
      BY <2>2
    <3> QED
      BY <1>10, <2>1, <3>1 DEF StartTask, TypeOK
  <2> QED
    BY <2>3, <2>4, <2>5 DEF NewestServed
<1>11. ASSUME NEW g \in Gens, ChannelClosed(g) PROVE NewestServed'
  BY <1>11 DEF ChannelClosed, TaskEnds, callVars, lifeVars, taskVars, NewestServed
<1>12. ASSUME NEW g \in Gens, HandleCommand(g) PROVE NewestServed'
  BY <1>12 DEF HandleCommand, Refused, Settled, callVars, lifeVars, taskVars, NewestServed
<1>13. ASSUME NEW g \in Gens, CommandRefused(g) PROVE NewestServed'
  BY <1>13 DEF CommandRefused, Refused, Settled, callVars, lifeVars, taskVars, NewestServed
<1>14. ASSUME NEW g \in Gens, ReceiveFails(g) PROVE NewestServed'
  BY <1>14 DEF ReceiveFails, TaskEnds, callVars, lifeVars, taskVars, NewestServed
<1>15. ASSUME NEW g \in Gens, ProcessFrame(g) PROVE NewestServed'
  BY <1>15 DEF ProcessFrame, Refused, Settled, callVars, lifeVars, taskVars, NewestServed
<1>16. ASSUME NEW g \in Gens, ProcessDamaged(g) PROVE NewestServed'
  BY <1>16 DEF ProcessDamaged, Refused, Settled, callVars, lifeVars, taskVars, NewestServed
<1>17. ASSUME NEW g \in Gens, ReceiveMalformed(g) PROVE NewestServed'
  BY <1>17 DEF ReceiveMalformed, TaskEnds, callVars, lifeVars, taskVars, NewestServed
<1>18. ASSUME NEW g \in Gens, ConnectionLost(g) PROVE NewestServed'
  BY <1>18 DEF ConnectionLost, Refused, Settled, callVars, lifeVars, taskVars, NewestServed
<1>19. CASE UNCHANGED vars
  BY <1>19 DEF vars, NewestServed
<1> QED
  BY <1>1, <1>2, <1>3, <1>4, <1>5, <1>6, <1>7, <1>8, <1>9, <1>10, <1>11, <1>12, <1>13, <1>14,
     <1>15, <1>16, <1>17, <1>18, <1>19 DEF Next, CallStep, RunSpawned, TaskStep, LinkStep


-----------------------------------------------------------------------------
(* Counting within the width.                                               *)
LEMMA ModuloFacts ==
  ASSUME NEW n \in Nat, NEW m \in Nat \ {0}, n < m
  PROVE  n % m = n /\ (n + m) % m = n
OBVIOUS

(* The waiting calls can be counted.                                        *)
LEMMA WaitingFacts ==
  ASSUME IsFiniteSet(Calls)
  PROVE  /\ IsFiniteSet(Waiting) /\ Cardinality(Waiting) \in Nat
         /\ Cardinality(Calls) \in Nat /\ Cardinality(Waiting) <= Cardinality(Calls)
<1>1. Waiting \subseteq Calls
  BY DEF Waiting
<1> QED
  BY <1>1, FS_Subset, FS_CardinalityType

(* A dispatch counts one call more.                                         *)
LEMMA CountUp ==
  ASSUME IsFiniteSet(Calls), Cardinality(Calls) < CountMod, TypeOK, CountExact,
         NEW r \in Calls, Dispatch(r)
  PROVE  CountExact'
<1>1. r \notin Waiting /\ Waiting' = Waiting \cup {r} /\ Waiting' \subseteq Calls
  BY DEF Dispatch, Waiting, TypeOK
<1>2. /\ IsFiniteSet(Waiting) /\ Cardinality(Waiting) \in Nat /\ Cardinality(Calls) \in Nat
  BY WaitingFacts
<1>3. Cardinality(Waiting') = Cardinality(Waiting) + 1
  BY <1>1, <1>2, FS_AddElement
<1>4. Cardinality(Waiting') <= Cardinality(Calls)
  BY <1>1, FS_Subset
<1>5. Cardinality(Waiting) + 1 \in Nat /\ Cardinality(Waiting) + 1 < CountMod
  BY <1>2, <1>3, <1>4, WasmAssumption
<1>6. (Cardinality(Waiting) + 1) % CountMod = Cardinality(Waiting) + 1
  BY <1>5, ModuloFacts, WasmAssumption
<1>7. miscounted' = miscounted /\ pending_count' = (pending_count + 1) % CountMod
  BY DEF Dispatch, lifeVars
<1> QED
  BY <1>3, <1>6, <1>7 DEF CountExact

(* A call that ends is counted off.                                         *)
LEMMA CountDown ==
  ASSUME IsFiniteSet(Calls), Cardinality(Calls) < CountMod, TypeOK, CountExact,
         NEW r \in Calls, Respond(r) \/ GiveUp(r)
  PROVE  CountExact'
<1>1. r \in Waiting /\ Waiting' = Waiting \ {r}
  BY DEF Respond, GiveUp, Settled, Waiting, TypeOK
<1>2. /\ IsFiniteSet(Waiting) /\ Cardinality(Waiting) \in Nat /\ Cardinality(Calls) \in Nat
      /\ Cardinality(Waiting) <= Cardinality(Calls)
  BY WaitingFacts
<1>3. Cardinality(Waiting') = Cardinality(Waiting) - 1 /\ Cardinality(Waiting') \in Nat
  BY <1>1, <1>2, FS_RemoveElement, FS_CardinalityType
<1> DEFINE n == Cardinality(Waiting) - 1
<1>4. n \in Nat /\ n < CountMod /\ CountMod \in Nat \ {0}
      /\ Cardinality(Waiting) + CountMod - 1 = n + CountMod
  BY <1>2, <1>3, WasmAssumption
<1>5. (n + CountMod) % CountMod = n
  <2> HIDE DEF n
  <2> QED
    BY <1>4, ModuloFacts
<1>6. miscounted' = miscounted /\ pending_count' = (pending_count + CountMod - 1) % CountMod
  BY DEF Respond, GiveUp, Settled, Decremented, lifeVars
<1>7. ASSUME ~miscounted PROVE pending_count' = n
  <2>1. pending_count + CountMod - 1 = n + CountMod
    BY <1>4, <1>7 DEF CountExact
  <2> HIDE DEF n
  <2> QED
    BY <2>1, <1>5, <1>6
<1> QED
  BY <1>3, <1>6, <1>7 DEF CountExact

(* No step counts wrong.                                                    *)
LEMMA CountStep ==
  ASSUME IsFiniteSet(Calls), Cardinality(Calls) < CountMod, TypeOK, CountExact, [Next]_vars
  PROVE  CountExact'
<1>1. ASSUME NEW r \in Calls, Dispatch(r) PROVE CountExact'
  BY <1>1, CountUp
<1>2. ASSUME NEW r \in Calls, DispatchAborted(r) PROVE CountExact'
  <2>1. Waiting' = Waiting /\ UNCHANGED <<pending_count, miscounted>>
    BY <1>2 DEF DispatchAborted, Refused, TaskEnds, callVars, lifeVars, Waiting, TypeOK
  <2> QED
    BY <2>1 DEF CountExact
<1>3. ASSUME NEW r \in Calls, DispatchClosed(r) PROVE CountExact'
  <2>1. Waiting' = Waiting /\ UNCHANGED <<pending_count, miscounted>>
    BY <1>3 DEF DispatchClosed, Refused, TaskEnds, callVars, lifeVars, Waiting, TypeOK
  <2> QED
    BY <2>1 DEF CountExact
<1>4. ASSUME NEW r \in Calls, Respond(r) PROVE CountExact'
  BY <1>4, CountDown
<1>5. ASSUME NEW r \in Calls, GiveUp(r) PROVE CountExact'
  BY <1>5, CountDown
<1>6. CASE CallReconnect
  <2>1. Waiting' = Waiting /\ UNCHANGED <<pending_count, miscounted>>
    BY <1>6 DEF CallReconnect, Refused, TaskEnds, callVars, lifeVars, Waiting, TypeOK
  <2> QED
    BY <2>1 DEF CountExact
<1>7. CASE Close
  <2>1. /\ Waiting' = Waiting /\ pending_count' = 0
        /\ miscounted' = (miscounted \/ Waiting # {})
    BY <1>7 DEF Close, CountReset, Waiting
  <2>2. Waiting = {} => Cardinality(Waiting) = 0
    BY FS_EmptySet
  <2> QED
    BY <2>1, <2>2 DEF CountExact
<1>8. CASE RunReconnect
  <2>1. /\ Waiting' = Waiting /\ pending_count' = 0
        /\ miscounted' = (miscounted \/ Waiting # {})
    BY <1>8 DEF RunReconnect, CountReset, Waiting
  <2>2. Waiting = {} => Cardinality(Waiting) = 0
    BY FS_EmptySet
  <2> QED
    BY <2>1, <2>2 DEF CountExact
<1>9. CASE RunReconnectFails
  <2>1. Waiting' = Waiting /\ UNCHANGED <<pending_count, miscounted>>
    BY <1>9 DEF RunReconnectFails, Refused, TaskEnds, callVars, lifeVars, Waiting, TypeOK
  <2> QED
    BY <2>1 DEF CountExact
<1>10. CASE StartTask
  <2>1. Waiting' = Waiting /\ UNCHANGED <<pending_count, miscounted>>
    BY <1>10 DEF StartTask, Refused, TaskEnds, callVars, lifeVars, Waiting, TypeOK
  <2> QED
    BY <2>1 DEF CountExact
<1>11. ASSUME NEW g \in Gens, ChannelClosed(g) PROVE CountExact'
  <2>1. Waiting' = Waiting /\ UNCHANGED <<pending_count, miscounted>>
    BY <1>11 DEF ChannelClosed, Refused, TaskEnds, callVars, lifeVars, Waiting, TypeOK
  <2> QED
    BY <2>1 DEF CountExact
<1>12. ASSUME NEW g \in Gens, HandleCommand(g) PROVE CountExact'
  <2>1. Waiting' = Waiting /\ UNCHANGED <<pending_count, miscounted>>
    BY <1>12 DEF HandleCommand, Refused, TaskEnds, callVars, lifeVars, Waiting, TypeOK
  <2> QED
    BY <2>1 DEF CountExact
<1>13. ASSUME NEW g \in Gens, CommandRefused(g) PROVE CountExact'
  <2>1. Waiting' = Waiting /\ UNCHANGED <<pending_count, miscounted>>
    BY <1>13 DEF CommandRefused, Refused, TaskEnds, callVars, lifeVars, Waiting, TypeOK
  <2> QED
    BY <2>1 DEF CountExact
<1>14. ASSUME NEW g \in Gens, ReceiveFails(g) PROVE CountExact'
  <2>1. Waiting' = Waiting /\ UNCHANGED <<pending_count, miscounted>>
    BY <1>14 DEF ReceiveFails, Refused, TaskEnds, callVars, lifeVars, Waiting, TypeOK
  <2> QED
    BY <2>1 DEF CountExact
<1>15. ASSUME NEW g \in Gens, ProcessFrame(g) PROVE CountExact'
  <2>1. Waiting' = Waiting /\ UNCHANGED <<pending_count, miscounted>>
    BY <1>15 DEF ProcessFrame, Refused, TaskEnds, callVars, lifeVars, Waiting, TypeOK
  <2> QED
    BY <2>1 DEF CountExact
<1>16. ASSUME NEW g \in Gens, ProcessDamaged(g) PROVE CountExact'
  <2>1. Waiting' = Waiting /\ UNCHANGED <<pending_count, miscounted>>
    BY <1>16 DEF ProcessDamaged, Refused, TaskEnds, callVars, lifeVars, Waiting, TypeOK
  <2> QED
    BY <2>1 DEF CountExact
<1>17. ASSUME NEW g \in Gens, ReceiveMalformed(g) PROVE CountExact'
  <2>1. Waiting' = Waiting /\ UNCHANGED <<pending_count, miscounted>>
    BY <1>17 DEF ReceiveMalformed, Refused, TaskEnds, callVars, lifeVars, Waiting, TypeOK
  <2> QED
    BY <2>1 DEF CountExact
<1>18. ASSUME NEW g \in Gens, ConnectionLost(g) PROVE CountExact'
  <2>1. Waiting' = Waiting /\ UNCHANGED <<pending_count, miscounted>>
    BY <1>18 DEF ConnectionLost, Refused, TaskEnds, callVars, lifeVars, Waiting, TypeOK
  <2> QED
    BY <2>1 DEF CountExact
<1>19. CASE UNCHANGED vars
  BY <1>19 DEF vars, CountExact, Waiting
<1> QED
  BY <1>1, <1>2, <1>3, <1>4, <1>5, <1>6, <1>7, <1>8, <1>9, <1>10, <1>11, <1>12, <1>13, <1>14,
     <1>15, <1>16, <1>17, <1>18, <1>19 DEF Next, CallStep, RunSpawned, TaskStep, LinkStep


-----------------------------------------------------------------------------
(* The places of a sender, as Placed names them.                            *)
LEMMA PlacesFacts ==
  ASSUME TypeOK, NEW r \in Calls
  PROVE  \A p : p \in Places(r) <=>
           \/ \E g \in Gens : \E k \in DOMAIN chan[g] : p = <<g, k>> /\ chan[g][k] = r
           \/ \E g \in Gens : \E x \in TxnIds : p = <<g, -x>> /\ pending[g][x] = r
<1> TAKE p
<1>1. ASSUME NEW g \in Gens, NEW k \in DOMAIN chan[g], p = <<g, k>>, chan[g][k] = r
      PROVE  p \in Places(r)
  BY <1>1 DEF Places
<1>2. ASSUME NEW g \in Gens, NEW x \in TxnIds, p = <<g, -x>>, pending[g][x] = r
      PROVE  p \in Places(r)
  <2>1. x \in Int /\ -(-x) = x
    BY WasmAssumption DEF TxnIds
  <2> QED
    BY <1>2, <2>1 DEF Places
<1>3. ASSUME p \in Places(r)
      PROVE  \/ \E g \in Gens : \E k \in DOMAIN chan[g] : p = <<g, k>> /\ chan[g][k] = r
             \/ \E g \in Gens : \E x \in TxnIds : p = <<g, -x>> /\ pending[g][x] = r
  <2>1. CASE p \in UNION {{g} \X DOMAIN chan[g] : g \in Gens} /\ chan[p[1]][p[2]] = r
    BY <2>1
  <2>2. CASE p \in Gens \X {-x : x \in TxnIds} /\ pending[p[1]][-p[2]] = r
    <3>1. PICK g \in Gens, x \in TxnIds : p = <<g, -x>>
      BY <2>2
    <3>2. x \in Int /\ -(-x) = x
      BY WasmAssumption DEF TxnIds
    <3> QED
      BY <2>2, <3>1, <3>2
  <2> QED
    BY <1>3, <2>1, <2>2 DEF Places
<1> QED
  BY <1>1, <1>2, <1>3

(* The invariants together say that every waiting call has exactly one      *)
(* sender or reply, where somebody will come for it.                        *)
LEMMA OneReply ==
  ASSUME TypeOK, Placed, Served, Owed
  PROVE  HeldOnce
<1> SUFFICES ASSUME NEW r \in Waiting
             PROVE  /\ Cardinality(Places(r)) + (IF oneshot[r] = None THEN 0 ELSE 1) = 1
                    /\ \A p \in Places(r) : Listening(p[1])
  BY DEF HeldOnce
<1>r. r \in Calls /\ phase[r] = "waiting" /\ r # None
  BY CallsAssumption DEF Waiting, Replies
<1>1. ASSUME NEW p \in Places(r), NEW q \in Places(r) PROVE p = q
  <2>1. \/ \E g \in Gens : \E k \in DOMAIN chan[g] : p = <<g, k>> /\ chan[g][k] = r
        \/ \E g \in Gens : \E x \in TxnIds : p = <<g, -x>> /\ pending[g][x] = r
    BY <1>r, PlacesFacts
  <2>2. \/ \E g \in Gens : \E k \in DOMAIN chan[g] : q = <<g, k>> /\ chan[g][k] = r
        \/ \E g \in Gens : \E x \in TxnIds : q = <<g, -x>> /\ pending[g][x] = r
    BY <1>r, PlacesFacts
  <2> QED
    BY <2>1, <2>2, <1>r DEF Placed
<1>2. ASSUME NEW p \in Places(r) PROVE Listening(p[1])
  <2>1. CASE \E g \in Gens : \E k \in DOMAIN chan[g] : p = <<g, k>> /\ chan[g][k] = r
    <3>1. PICK g \in Gens : \E k \in DOMAIN chan[g] : p = <<g, k>>
      BY <2>1
    <3> QED
      BY <3>1, ChanTypes DEF Served
  <2>2. CASE \E g \in Gens : \E x \in TxnIds : p = <<g, -x>> /\ pending[g][x] = r
    <3>1. PICK g \in Gens, x \in TxnIds : p = <<g, -x>> /\ pending[g][x] = r
      BY <2>2
    <3> QED
      BY <3>1, <1>r DEF Served, Listening, Running
  <2> QED
    BY <2>1, <2>2, <1>r, PlacesFacts
<1>3. Places(r) # {} <=> Held(r)
  BY <1>r, PlacesFacts DEF Held
<1>4. CASE oneshot[r] = None
  <2>1. PICK p : p \in Places(r)
    BY <1>3, <1>4, <1>r DEF Owed
  <2>2. Places(r) = {p}
    BY <2>1, <1>1
  <2>3. Cardinality(Places(r)) = 1
    BY <2>2, FS_Singleton
  <2> QED
    BY <1>2, <1>4, <2>3
<1>5. CASE oneshot[r] # None
  <2>1. Places(r) = {}
    BY <1>3, <1>5, <1>r DEF Owed
  <2>2. Cardinality(Places(r)) = 0
    BY <2>1, FS_EmptySet
  <2> QED
    BY <1>5, <2>1, <2>2
<1> QED
  BY <1>4, <1>5

(* The invariants hold at the start.                                        *)
LEMMA InitInv ==
  Init => /\ TypeOK /\ Started /\ Placed /\ Served /\ Owed /\ OneTask
          /\ Awaited /\ OwnReply /\ NewestServed
<1> SUFFICES ASSUME Init PROVE /\ TypeOK /\ Started /\ Placed /\ Served /\ Owed /\ OneTask
                               /\ Awaited /\ OwnReply /\ NewestServed
  OBVIOUS
<1> USE WasmAssumption, CallsAssumption
<1>g. 0 \in Gens
  BY DEF Gens
<1>e. \A S : <<>> \in Seq(S)
  OBVIOUS
<1>1. /\ \A h \in Gens : chan[h] = <<>> /\ DOMAIN chan[h] = {}
      /\ \A h \in Gens, x \in TxnIds : pending[h][x] = None
      /\ DOMAIN spawned = {} /\ spawned = <<>>
  BY DEF Init, NoPending
<1>2. TypeOK
  <2>1. chan \in [Gens -> Seq(Calls)] /\ spawned \in Seq({Start(g) : g \in Gens} \cup {Reconnection})
    BY <1>e DEF Init
  <2>2. next_txn_id \in [Gens -> TxnIds] /\ pending \in [Gens -> [TxnIds -> Calls \cup {None}]]
    BY DEF Init, TxnIds, NoPending
  <2>3. pending_count \in 0..(CountMod - 1) /\ resets \in 0..MaxResets
    BY DEF Init
  <2> QED
    BY <1>g, <2>1, <2>2, <2>3 DEF Init, TypeOK
<1>3. Started /\ Placed /\ Served
  BY <1>1 DEF Started, Placed, Served
<1>4. Owed
  <2>1. \A r \in Calls : ~Held(r)
    BY <1>1 DEF Held, Replies
  <2> QED
    BY <2>1 DEF Owed, Init
<1>5. OneTask /\ Awaited
  BY <1>g, <1>1 DEF Init, OneTask, Awaited
<1>6. OwnReply /\ NewestServed
  BY <1>g, <1>1 DEF Init, OwnReply, NewestServed, Replies
<1> QED
  BY <1>2, <1>3, <1>4, <1>5, <1>6

(* Every variable keeps its type, the wrapping counter included.            *)
THEOREM TypeCorrect == Spec => []TypeOK
<1>1. Init => TypeOK
  BY InitInv
<1>2. TypeOK /\ [Next]_vars => TypeOK'
  BY TypeStep
<1> QED
  BY <1>1, <1>2, PTL DEF Spec

(* The inductive invariant about the oneshot senders.                       *)
THEOREM SendersKept == Spec => [](Started /\ Placed /\ Served /\ Owed)
<1> DEFINE Inv == Started /\ Placed /\ Served /\ Owed
<1>1. Init => Inv
  BY InitInv
<1>2. TypeOK /\ TypeOK' /\ Inv /\ [Next]_vars => Inv'
  BY StartedStep, PlacedStep, ServedStep, OwedStep
<1> QED
  BY <1>1, <1>2, TypeCorrect, PTL DEF Spec

(* Every promise of a request in progress is settled by exactly one holder: *)
(* through any number of reconnections, replaced map entries, damaged       *)
(* frames and lost connections, no sender is lost or kept where nobody      *)
(* looks.                                                                   *)
THEOREM RepliesReach == Spec => []HeldOnce
<1>1. TypeOK /\ Started /\ Placed /\ Served /\ Owed => HeldOnce
  BY OneReply
<1> QED
  BY <1>1, TypeCorrect, SendersKept, PTL

(* Over TCP a promise is resolved with the response to its own request,     *)
(* also when connections are replaced with responses on their way, as long  *)
(* as no transaction id is reused while its request is unanswered.          *)
THEOREM ResponsesMatch ==
  ASSUME ~Serial
  PROVE  Spec /\ [][NoIdReused]_vars => []ResponseMatchesRequest
<1> DEFINE Inv == OneTask /\ Awaited /\ OwnReply
<1>1. Init => Inv
  BY InitInv
<1>2. /\ TypeOK /\ TypeOK' /\ Started /\ Placed /\ Served /\ Owed /\ Inv
      /\ [Next]_vars /\ [NoIdReused]_vars
      => Inv'
  BY OneTaskStep, AwaitedStep, OwnReplyStep
<1>3. Inv => ResponseMatchesRequest
  BY DEF OwnReply, ResponseMatchesRequest
<1> QED
  BY <1>1, <1>2, <1>3, TypeCorrect, SendersKept, PTL DEF Spec

(* pending_count is the number of calls in progress, unless there are more  *)
(* than the counter can count.                                              *)
THEOREM CountsExact ==
  ASSUME IsFiniteSet(Calls), Cardinality(Calls) < CountMod
  PROVE  Spec => []CountExact
<1>1. Init => CountExact
  <2> SUFFICES ASSUME Init PROVE pending_count = Cardinality(Waiting)
    BY DEF CountExact
  <2>1. Waiting = {}
    BY DEF Init, Waiting
  <2>2. Cardinality(Waiting) = 0
    BY <2>1, FS_EmptySet
  <2> QED
    BY <2>2 DEF Init
<1>2. TypeOK /\ CountExact /\ [Next]_vars => CountExact'
  BY CountStep
<1> QED
  BY <1>1, <1>2, TypeCorrect, PTL DEF Spec

(* As long as reconnect() is not called while an earlier one is under way,  *)
(* the task that commands are sent to has the newest connection.            *)
THEOREM ReconnectionsServe ==
  ASSUME ~Overlap
  PROVE  Spec => []ReconnectServes
<1>1. Init => NewestServed
  BY InitInv
<1>2. /\ TypeOK /\ Started /\ Placed /\ Served /\ Owed /\ NewestServed /\ [Next]_vars
      => NewestServed'
  BY NewestServedStep
<1>3. NewestServed => ReconnectServes
  <2> SUFFICES ASSUME NewestServed, cmd_tx # None, spawned = <<>>
               PROVE  transport[cmd_tx] = cmd_tx
    BY DEF ReconnectServes
  <2>1. \A g \in Gens : spawned # <<Start(g)>> /\ spawned # <<Start(g), Reconnection>>
    OBVIOUS
  <2> QED
    BY <2>1 DEF NewestServed
<1> QED
  BY <1>1, <1>2, <1>3, TypeCorrect, SendersKept, PTL DEF Spec

=============================================================================
