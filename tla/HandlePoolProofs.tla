--------------------------- MODULE HandlePoolProofs ---------------------------
(***************************************************************************)
(* Proofs about HandlePool, for any number of threads, sub-pools, slots    *)
(* and instances, any depth of callbacks, and both kinds of hooks.         *)
(*                                                                         *)
(* IndInv has three layers. Nested and Locked say what the hooks give:     *)
(* with mutexes a thread has one call in progress and the locks are held   *)
(* exactly by the calls at the places between lock and unlock; without,    *)
(* one thread runs and every call below its innermost one is at its        *)
(* callback. Disciplined is what the application keeps to. Borrowed,       *)
(* Created, Freed and Known relate the slots to the calls in progress and  *)
(* to the ids the application holds: a call on an instance, one that       *)
(* creates it, one that frees it, and none.                                *)
(*                                                                         *)
(* HeadMoves, Pushed and Popped are the three ways a step changes the      *)
(* calls of a thread; for each part of IndInv there is one lemma for each  *)
(* of the three, and one (...Step) that applies them to every action.      *)
(***************************************************************************)
EXTENDS HandlePool, FiniteSetTheorems, SequenceTheorems, TLAPS

(* t has a call in progress.                                                *)
Busy(t) == stack[t] # <<>>
(* The places of a pool_free() that has not emptied its slot yet.           *)
PreClear == {"lock", "pool", "drop", "clear"}

(* What a call in progress may look like at each of its places.             *)
WellFormed(f) ==
  \/ f.op = "with" /\ f.at \in {"lock", "check", "run", "unlock"} /\ f.id \in Ids
  \/ f.op = "new" /\ f.at \in {"pool", "scan"} /\ f.id = None /\ f.inst # None
  \/ f.op = "new" /\ f.at \in {"write", "publish"} /\ f.id \in Ids /\ f.inst # None
  \/ f.op = "new" /\ f.at = "unpool" /\ f.inst # None
  \/ f.op = "free" /\ f.at \in PreClear \cup {"unpool", "unlock"} /\ f.id \in Ids

(* Calls are nested by callbacks only, and only where the hooks do nothing; *)
(* there, one thread runs.                                                  *)
Nested ==
  \A t \in Threads :
    /\ \A k \in DOMAIN stack[t] :
         /\ WellFormed(stack[t][k])
         /\ k # 1 => stack[t][k].op = "with" /\ stack[t][k].at = "run" /\ hooks = "nothing"
    /\ \A u \in Threads : hooks = "nothing" /\ Busy(t) /\ Busy(u) => t = u

(* Call f is between locking its instance and unlocking it.                 *)
HoldsInstance(f) ==
  \/ f.op = "with" /\ f.at \in {"check", "run", "unlock"}
  \/ f.op = "free" /\ f.at \in {"pool", "drop", "clear", "unpool", "unlock"}
(* Call f is between locking the pool and unlocking it.                     *)
HoldsPool(f) ==
  \/ f.op = "new" /\ f.at \in {"scan", "write", "publish", "unpool"}
  \/ f.op = "free" /\ f.at \in {"drop", "clear", "unpool"}

(* A mutex is held by the thread whose innermost call is in the section it  *)
(* guards, and by no other.                                                 *)
Locked ==
  /\ hooks = "nothing" => \A l \in Locks : owner[l] = None
  /\ hooks = "mutex" => \A t \in Threads, l \in Locks : owner[l] = t <=>
       Busy(t) /\ ( \/ l = PoolLock /\ HoldsPool(Call(t))
                    \/ l # PoolLock /\ HoldsInstance(Call(t)) /\ l = LockOf(Call(t).id) )

(* The application creates nothing while calls or frees on ids it has given *)
(* up are in progress, frees nothing from a callback of the instance        *)
(* itself, and frees an id once at a time.                                  *)
Disciplined ==
  \A t \in Threads :
    /\ \A k \in DOMAIN stack[t] : stack[t][k].op = "with" /\ live[stack[t][k].id] = None => ~Creating
    /\ Busy(t) /\ Call(t).op = "free" =>
         /\ Call(t).inst = None => ~Creating
         /\ \A k \in DOMAIN stack[t] : k # 1 => stack[t][k].id # Call(t).id
         /\ \A u \in Threads : Busy(u) /\ Call(u).op = "free" /\ Call(u).id = Call(t).id => u = t

(* A call that runs has its slot borrowed, and no other call runs on the    *)
(* slot; the instance it was made for is in the slot, or none.              *)
Borrowed ==
  \A t \in Threads :
    /\ \A k \in DOMAIN stack[t] : stack[t][k].op = "with" =>
         /\ stack[t][k].at = "run" => occupied[stack[t][k].id] /\ borrow_flag[stack[t][k].id]
         /\ stack[t][k].inst # None =>
              /\ live[stack[t][k].id] \in {None, stack[t][k].inst}
              /\ value[stack[t][k].id] \in {None, stack[t][k].inst}
    /\ \A j, k \in DOMAIN stack[t] :
         /\ stack[t][j].op = "with" /\ stack[t][j].at = "run"
         /\ stack[t][k].op = "with" /\ stack[t][k].at = "run"
         /\ stack[t][j].id = stack[t][k].id
         => j = k

(* A slot being filled is free until it is published, and nobody frees it   *)
(* before its id is returned.                                               *)
Created ==
  \A t \in Threads : Busy(t) /\ Call(t).op = "new" /\ Call(t).id # None =>
    /\ Call(t).at \in {"write", "publish"} => ~occupied[Call(t).id]
    /\ Call(t).at = "publish" => value[Call(t).id] = Call(t).inst
    /\ Call(t).at = "unpool" =>
         occupied[Call(t).id] /\ value[Call(t).id] = Call(t).inst /\ live[Call(t).id] = None
    /\ \A u \in Threads : Busy(u) /\ Call(u).op = "free" /\ Call(u).at \in PreClear =>
         Call(u).id # Call(t).id

(* A slot being freed belongs to nobody and stays occupied until it is      *)
(* cleared.                                                                 *)
Freed ==
  \A t \in Threads : Busy(t) /\ Call(t).op = "free" /\ Call(t).at \in PreClear =>
    /\ live[Call(t).id] = None
    /\ Call(t).inst # None \/ Call(t).at = "clear" => occupied[Call(t).id]

(* Slots and ids agree: an id names what is in its slot, and a slot without *)
(* id, or without instance, is being created or freed.                      *)
Known ==
  \A id \in Ids :
    /\ live[id] # None => occupied[id] /\ value[id] = live[id]
    /\ occupied[id] /\ live[id] = None => \E t \in Threads :
         /\ Busy(t) /\ Call(t).id = id
         /\ \/ Call(t).op = "new" /\ Call(t).at = "unpool"
            \/ Call(t).op = "free" /\ Call(t).at \in PreClear
    /\ occupied[id] /\ value[id] = None => \E t \in Threads :
         Busy(t) /\ Call(t).id = id /\ Call(t).op = "free" /\ Call(t).at = "clear"


-----------------------------------------------------------------------------
(* The innermost call of t goes on, with id i, at a.                        *)
HeadMoves(t, i, a) ==
  /\ Busy(t) /\ Busy(t)'
  /\ Call(t) = stack[t][1] /\ Call(t)' = stack'[t][1]
  /\ 1 \in DOMAIN stack[t] /\ DOMAIN stack'[t] = DOMAIN stack[t]
  /\ \A k \in DOMAIN stack[t] : k # 1 => stack'[t][k] = stack[t][k]
  /\ \A u \in Threads : u # t => stack'[u] = stack[u]
  /\ Call(t)'.op = Call(t).op /\ Call(t)'.kind = Call(t).kind /\ Call(t)'.inst = Call(t).inst
  /\ Call(t)'.id = i /\ Call(t)'.at = a

(* t calls f.                                                               *)
Pushed(t, f) ==
  /\ Busy(t)' /\ Call(t)' = f /\ stack'[t][1] = f
  /\ Len(stack[t]) \in Nat /\ DOMAIN stack[t] = 1..Len(stack[t])
  /\ DOMAIN stack'[t] = 1..(Len(stack[t]) + 1)
  /\ \A k \in DOMAIN stack'[t] : k # 1 => k - 1 \in DOMAIN stack[t] /\ stack'[t][k] = stack[t][k - 1]
  /\ \A u \in Threads : u # t => stack'[u] = stack[u]

(* The innermost call of t returns.                                         *)
Popped(t) ==
  /\ Busy(t) /\ Call(t) = stack[t][1] /\ 1 \in DOMAIN stack[t]
  /\ Len(stack[t]) \in Nat /\ DOMAIN stack[t] = 1..Len(stack[t])
  /\ DOMAIN stack'[t] = 1..(Len(stack[t]) - 1)
  /\ \A k \in DOMAIN stack'[t] : k + 1 \in DOMAIN stack[t] /\ stack'[t][k] = stack[t][k + 1]
  /\ Busy(t)' => 1 \in DOMAIN stack'[t] /\ Call(t)' = stack'[t][1]
  /\ \A u \in Threads : u # t => stack'[u] = stack[u]

(* Elements, length and head of a sequence.                                 *)
LEMMA SeqFacts ==
  ASSUME NEW S, NEW s \in Seq(S)
  PROVE  /\ Len(s) \in Nat /\ DOMAIN s = 1..Len(s) /\ \A k \in DOMAIN s : s[k] \in S
         /\ s # <<>> <=> 1 \in DOMAIN s
         /\ s # <<>> => Head(s) = s[1] /\ Head(s) \in S
<1>1. Len(s) \in Nat /\ DOMAIN s = 1..Len(s) /\ (s # <<>> <=> Len(s) # 0)
  BY LenProperties, EmptySeq
<1>2. \A k \in DOMAIN s : s[k] \in S
  BY <1>1, ElementOfSeq
<1>3. s # <<>> <=> 1 \in DOMAIN s
  BY <1>1
<1>4. s # <<>> => Head(s) = s[1]
  OBVIOUS
<1> QED
  BY <1>1, <1>2, <1>3, <1>4

(* What the stack of a thread holds.                                        *)
LEMMA StackFacts ==
  ASSUME TypeOK, NEW t \in Threads
  PROVE  /\ Len(stack[t]) \in Nat /\ DOMAIN stack[t] = 1..Len(stack[t])
         /\ \A k \in DOMAIN stack[t] : stack[t][k] \in Frame
         /\ Busy(t) <=> 1 \in DOMAIN stack[t]
         /\ Busy(t) => Call(t) = stack[t][1] /\ Call(t) \in Frame
<1>1. stack[t] \in Seq(Frame)
  BY DEF TypeOK
<1> QED
  BY <1>1, SeqFacts DEF Busy, Call

(* Replacing the first element changes nothing else.                        *)
LEMMA ReplaceHead ==
  ASSUME NEW S, NEW s \in Seq(S), s # <<>>, NEW x \in S
  PROVE  LET r == [s EXCEPT ![1] = x] IN
         /\ r \in Seq(S) /\ r # <<>> /\ Head(r) = x /\ r[1] = x
         /\ DOMAIN r = DOMAIN s /\ \A k \in DOMAIN s : k # 1 => r[k] = s[k]
<1> DEFINE r == [s EXCEPT ![1] = x]
<1>1. /\ Len(s) \in Nat /\ DOMAIN s = 1..Len(s) /\ \A k \in DOMAIN s : s[k] \in S
      /\ 1 \in DOMAIN s
  BY SeqFacts
<1>2. s = [k \in 1..Len(s) |-> s[k]]
  BY SeqFacts
<1>3. DOMAIN r = DOMAIN s /\ r[1] = x /\ \A k \in DOMAIN s : k # 1 => r[k] = s[k]
  BY <1>1
<1>4. r \in [1..Len(s) -> S]
  BY <1>1, <1>3
<1>5. r \in Seq(S)
  BY <1>1, <1>4, SeqDef
<1>6. r # <<>> /\ Head(r) = r[1]
  BY <1>1, <1>3, <1>5, SeqFacts
<1> QED
  BY <1>3, <1>5, <1>6

(* Replacing the innermost call is a HeadMoves.                             *)
LEMMA Moves ==
  ASSUME TypeOK, NEW t \in Threads, Busy(t), NEW f \in Frame,
         f.op = Call(t).op, f.kind = Call(t).kind, f.inst = Call(t).inst,
         stack' = [stack EXCEPT ![t] = [@ EXCEPT ![1] = f]]
  PROVE  HeadMoves(t, f.id, f.at) /\ stack' \in [Threads -> Seq(Frame)] /\ Call(t)' = f
<1>1. stack[t] \in Seq(Frame) /\ stack[t] # <<>>
  BY DEF TypeOK, Busy
<1>2. stack'[t] = [stack[t] EXCEPT ![1] = f] /\ \A u \in Threads : u # t => stack'[u] = stack[u]
  BY DEF TypeOK
<1>3. /\ stack'[t] \in Seq(Frame) /\ stack'[t] # <<>> /\ Head(stack'[t]) = f /\ stack'[t][1] = f
      /\ DOMAIN stack'[t] = DOMAIN stack[t]
      /\ \A k \in DOMAIN stack[t] : k # 1 => stack'[t][k] = stack[t][k]
  BY <1>1, <1>2, ReplaceHead
<1>4. Call(t) = stack[t][1] /\ 1 \in DOMAIN stack[t]
  BY StackFacts
<1>5. stack' \in [Threads -> Seq(Frame)]
  BY <1>2, <1>3 DEF TypeOK
<1>6. Busy(t)' /\ Call(t)' = f
  BY <1>3 DEF Busy, Call
<1> QED
  BY <1>2, <1>3, <1>4, <1>5, <1>6 DEF HeadMoves

(* Goto is a HeadMoves.                                                     *)
LEMMA GotoMoves ==
  ASSUME TypeOK, NEW t \in Threads, Busy(t), NEW a \in Steps, Goto(t, a)
  PROVE  HeadMoves(t, Call(t).id, a) /\ stack' \in [Threads -> Seq(Frame)]
         /\ Call(t)' = [Call(t) EXCEPT !.at = a]
<1> DEFINE f == [Call(t) EXCEPT !.at = a]
<1>1. Call(t) \in Frame /\ Call(t) = stack[t][1] /\ 1 \in DOMAIN stack[t]
  BY StackFacts
<1>2. /\ f \in Frame /\ f.op = Call(t).op /\ f.kind = Call(t).kind /\ f.inst = Call(t).inst
      /\ f.id = Call(t).id /\ f.at = a
  BY <1>1 DEF Frame
<1>3. stack' = [stack EXCEPT ![t] = [@ EXCEPT ![1] = f]]
  BY <1>1 DEF Goto
<1> HIDE DEF f
<1>4. HeadMoves(t, f.id, f.at) /\ stack' \in [Threads -> Seq(Frame)] /\ Call(t)' = f
  BY <1>2, <1>3, Moves
<1> QED
  BY <1>2, <1>4 DEF f

(* So is the choice of a slot.                                              *)
LEMMA ScanMoves ==
  ASSUME TypeOK, NEW t \in Threads, Busy(t), NEW i \in Ids,
         stack' = [stack EXCEPT ![t][1].id = i, ![t][1].at = "write"]
  PROVE  HeadMoves(t, i, "write") /\ stack' \in [Threads -> Seq(Frame)]
<1> DEFINE f == [Call(t) EXCEPT !.id = i, !.at = "write"]
<1>1. Call(t) \in Frame /\ Call(t) = stack[t][1] /\ 1 \in DOMAIN stack[t]
  BY StackFacts
<1>2. /\ f \in Frame /\ f.op = Call(t).op /\ f.kind = Call(t).kind /\ f.inst = Call(t).inst
      /\ f.id = i /\ f.at = "write"
  BY <1>1 DEF Frame, Steps
<1>3. stack' = [stack EXCEPT ![t] = [@ EXCEPT ![1] = f]]
  <2>1. stack \in [Threads -> Seq(Frame)]
    BY DEF TypeOK
  <2> QED
    BY <1>1, <2>1
<1> HIDE DEF f
<1>4. HeadMoves(t, f.id, f.at) /\ stack' \in [Threads -> Seq(Frame)]
  BY <1>2, <1>3, Moves
<1> QED
  BY <1>2, <1>4

(* Push is Pushed.                                                          *)
LEMMA PushMoves ==
  ASSUME TypeOK, NEW t \in Threads, NEW f \in Frame, Push(t, f)
  PROVE  Pushed(t, f) /\ stack' \in [Threads -> Seq(Frame)]
<1>1. stack[t] \in Seq(Frame) /\ <<f>> \in Seq(Frame) /\ Len(<<f>>) = 1 /\ <<f>>[1] = f
  BY DEF TypeOK
<1>2. stack'[t] = <<f>> \o stack[t] /\ \A u \in Threads : u # t => stack'[u] = stack[u]
  BY DEF TypeOK, Push
<1>3. /\ stack'[t] \in Seq(Frame) /\ Len(stack'[t]) = 1 + Len(stack[t])
      /\ \A k \in 1..Len(stack'[t]) :
           stack'[t][k] = IF k <= 1 THEN <<f>>[k] ELSE stack[t][k - 1]
  BY <1>1, <1>2, ConcatProperties
<1>4. /\ Len(stack[t]) \in Nat /\ DOMAIN stack[t] = 1..Len(stack[t])
      /\ DOMAIN stack'[t] = 1..(Len(stack[t]) + 1)
  BY <1>1, <1>3, SeqFacts
<1>5. /\ stack'[t][1] = f
      /\ \A k \in DOMAIN stack'[t] : k # 1 =>
           k - 1 \in DOMAIN stack[t] /\ stack'[t][k] = stack[t][k - 1]
  BY <1>1, <1>3, <1>4
<1>6. Busy(t)' /\ Call(t)' = f
  BY <1>3, <1>4, <1>5, SeqFacts DEF Busy, Call
<1>7. stack' \in [Threads -> Seq(Frame)]
  BY <1>2, <1>3 DEF TypeOK, Push
<1> QED
  BY <1>2, <1>4, <1>5, <1>6, <1>7 DEF Pushed

(* Return is Popped.                                                        *)
LEMMA PopMoves ==
  ASSUME TypeOK, NEW t \in Threads, Busy(t), Return(t)
  PROVE  Popped(t) /\ stack' \in [Threads -> Seq(Frame)]
<1>1. stack[t] \in Seq(Frame) /\ stack[t] # <<>>
  BY DEF TypeOK, Busy
<1>2. stack'[t] = Tail(stack[t]) /\ \A u \in Threads : u # t => stack'[u] = stack[u]
  BY DEF TypeOK, Return
<1>3. /\ stack'[t] \in Seq(Frame) /\ Len(stack'[t]) = Len(stack[t]) - 1
      /\ \A k \in 1..Len(stack'[t]) : stack'[t][k] = stack[t][k + 1]
  BY <1>1, <1>2, HeadTailProperties
<1>4. /\ Len(stack[t]) \in Nat /\ DOMAIN stack[t] = 1..Len(stack[t]) /\ 1 \in DOMAIN stack[t]
      /\ DOMAIN stack'[t] = 1..(Len(stack[t]) - 1) /\ Call(t) = stack[t][1]
  BY <1>1, <1>3, SeqFacts DEF Call
<1>5. \A k \in DOMAIN stack'[t] : k + 1 \in DOMAIN stack[t] /\ stack'[t][k] = stack[t][k + 1]
  BY <1>3, <1>4
<1>6. Busy(t)' => 1 \in DOMAIN stack'[t] /\ Call(t)' = stack'[t][1]
  BY <1>3, SeqFacts DEF Busy, Call
<1>7. stack' \in [Threads -> Seq(Frame)]
  BY <1>2, <1>3 DEF TypeOK, Return
<1> QED
  BY <1>2, <1>4, <1>5, <1>6, <1>7 DEF Popped


-----------------------------------------------------------------------------
(* The innermost call of t, an op, goes from one place to the next.         *)
Turn(t, op, from, to) ==
  HeadMoves(t, Call(t).id, to) /\ Call(t).op = op /\ Call(t).at = from

(* The calls as the application starts them.                                *)
CallWithFrame(id) == [op |-> "with", kind |-> id.kind, id |-> id, inst |-> live[id], at |-> "lock"]
CallNewFrame(k, n) == [op |-> "new", kind |-> k, id |-> None, inst |-> n, at |-> "pool"]
CallFreeFrame(id) == [op |-> "free", kind |-> id.kind, id |-> id, inst |-> live[id], at |-> "lock"]

(* The actions that move a call on, and where.                              *)
LEMMA Turns ==
  ASSUME TypeOK, NEW t \in Threads
  PROVE
         /\ WithLock(t) => Turn(t, "with", "lock", "check") /\ stack' \in [Threads -> Seq(Frame)]
         /\ WithInvalid(t) => Turn(t, "with", "check", "unlock") /\ stack' \in [Threads -> Seq(Frame)]
         /\ WithBusy(t) => Turn(t, "with", "check", "unlock") /\ stack' \in [Threads -> Seq(Frame)]
         /\ WithBorrow(t) => Turn(t, "with", "check", "run") /\ stack' \in [Threads -> Seq(Frame)]
         /\ WithDone(t) => Turn(t, "with", "run", "unlock") /\ stack' \in [Threads -> Seq(Frame)]
         /\ NewPool(t) => Turn(t, "new", "pool", "scan") /\ stack' \in [Threads -> Seq(Frame)]
         /\ NewFull(t) => Turn(t, "new", "scan", "unpool") /\ stack' \in [Threads -> Seq(Frame)]
         /\ NewWrite(t) => Turn(t, "new", "write", "publish") /\ stack' \in [Threads -> Seq(Frame)]
         /\ NewPublish(t) => Turn(t, "new", "publish", "unpool") /\ stack' \in [Threads -> Seq(Frame)]
         /\ FreeLock(t) => Turn(t, "free", "lock", "pool") /\ stack' \in [Threads -> Seq(Frame)]
         /\ FreePool(t) => Turn(t, "free", "pool", "drop") /\ stack' \in [Threads -> Seq(Frame)]
         /\ FreeNothing(t) => Turn(t, "free", "drop", "unpool") /\ stack' \in [Threads -> Seq(Frame)]
         /\ FreeDrop(t) => Turn(t, "free", "drop", "clear") /\ stack' \in [Threads -> Seq(Frame)]
         /\ FreeClear(t) => Turn(t, "free", "clear", "unpool") /\ stack' \in [Threads -> Seq(Frame)]
         /\ FreeUnpool(t) => Turn(t, "free", "unpool", "unlock") /\ stack' \in [Threads -> Seq(Frame)]
<1>0. \A a \in Steps : Busy(t) /\ Goto(t, a) =>
        HeadMoves(t, Call(t).id, a) /\ stack' \in [Threads -> Seq(Frame)]
  BY GotoMoves
<1>1. WithLock(t) => Turn(t, "with", "lock", "check") /\ stack' \in [Threads -> Seq(Frame)]
  BY <1>0 DEF WithLock, At, Busy, Steps, Turn
<1>2. WithInvalid(t) => Turn(t, "with", "check", "unlock") /\ stack' \in [Threads -> Seq(Frame)]
  BY <1>0 DEF WithInvalid, At, Busy, Steps, Turn
<1>3. WithBusy(t) => Turn(t, "with", "check", "unlock") /\ stack' \in [Threads -> Seq(Frame)]
  BY <1>0 DEF WithBusy, At, Busy, Steps, Turn
<1>4. WithBorrow(t) => Turn(t, "with", "check", "run") /\ stack' \in [Threads -> Seq(Frame)]
  BY <1>0 DEF WithBorrow, At, Busy, Steps, Turn
<1>5. WithDone(t) => Turn(t, "with", "run", "unlock") /\ stack' \in [Threads -> Seq(Frame)]
  BY <1>0 DEF WithDone, At, Busy, Steps, Turn
<1>6. NewPool(t) => Turn(t, "new", "pool", "scan") /\ stack' \in [Threads -> Seq(Frame)]
  BY <1>0 DEF NewPool, At, Busy, Steps, Turn
<1>7. NewFull(t) => Turn(t, "new", "scan", "unpool") /\ stack' \in [Threads -> Seq(Frame)]
  BY <1>0 DEF NewFull, At, Busy, Steps, Turn
<1>8. NewWrite(t) => Turn(t, "new", "write", "publish") /\ stack' \in [Threads -> Seq(Frame)]
  BY <1>0 DEF NewWrite, At, Busy, Steps, Turn
<1>9. NewPublish(t) => Turn(t, "new", "publish", "unpool") /\ stack' \in [Threads -> Seq(Frame)]
  BY <1>0 DEF NewPublish, At, Busy, Steps, Turn
<1>10. FreeLock(t) => Turn(t, "free", "lock", "pool") /\ stack' \in [Threads -> Seq(Frame)]
  BY <1>0 DEF FreeLock, At, Busy, Steps, Turn
<1>11. FreePool(t) => Turn(t, "free", "pool", "drop") /\ stack' \in [Threads -> Seq(Frame)]
  BY <1>0 DEF FreePool, At, Busy, Steps, Turn
<1>12. FreeNothing(t) => Turn(t, "free", "drop", "unpool") /\ stack' \in [Threads -> Seq(Frame)]
  BY <1>0 DEF FreeNothing, At, Busy, Steps, Turn
<1>13. FreeDrop(t) => Turn(t, "free", "drop", "clear") /\ stack' \in [Threads -> Seq(Frame)]
  BY <1>0 DEF FreeDrop, At, Busy, Steps, Turn
<1>14. FreeClear(t) => Turn(t, "free", "clear", "unpool") /\ stack' \in [Threads -> Seq(Frame)]
  BY <1>0 DEF FreeClear, At, Busy, Steps, Turn
<1>15. FreeUnpool(t) => Turn(t, "free", "unpool", "unlock") /\ stack' \in [Threads -> Seq(Frame)]
  BY <1>0 DEF FreeUnpool, At, Busy, Steps, Turn
<1> QED
  BY <1>1, <1>2, <1>3, <1>4, <1>5, <1>6, <1>7, <1>8, <1>9, <1>10, <1>11, <1>12, <1>13, <1>14, <1>15

(* NewScan picks a free slot of its sub-pool.                               *)
LEMMA ScanTurns ==
  ASSUME TypeOK, NEW t \in Threads, NewScan(t)
  PROVE  \E i \in Ids : /\ HeadMoves(t, i, "write") /\ Call(t).op = "new" /\ Call(t).at = "scan"
                        /\ i.kind = Call(t).kind /\ ~occupied[i]
                        /\ stack' \in [Threads -> Seq(Frame)]
<1>1. Busy(t) /\ Call(t).op = "new" /\ Call(t).at = "scan"
  BY DEF NewScan, At, Busy
<1>2. PICK i \in Ids : /\ i.kind = Call(t).kind /\ ~occupied[i]
                       /\ stack' = [stack EXCEPT ![t][1].id = i, ![t][1].at = "write"]
  BY DEF NewScan, FreeSlots
<1> QED
  BY <1>1, <1>2, ScanMoves

(* The lock of a slot is not the pool's.                                    *)
LEMMA IdFacts ==
  /\ \A id \in Ids : id.kind \in Kinds /\ id.index \in Nat /\ LockOf(id) \in Locks
                     /\ LockOf(id) # PoolLock
  /\ PoolLock \in Locks
<1>1. ASSUME NEW id \in Ids
      PROVE  id.kind \in Kinds /\ id.index \in Nat /\ LockOf(id) \in Locks /\ LockOf(id) # PoolLock
  <2>1. PICK k \in Kinds : id \in [kind : {k}, index : 0..(Capacity[k] - 1)]
    BY DEF Ids
  <2>2. id.kind \in Kinds /\ id.index \in Nat
    BY <2>1
  <2> QED
    BY <2>2 DEF LockOf, PoolLock, Locks
<1> QED
  BY <1>1 DEF Locks

(* The actions that start a call.                                           *)
LEMMA Calls ==
  ASSUME TypeOK, NEW t \in Threads
  PROVE  /\ \A id \in Ids : CallWith(t, id) =>
              Pushed(t, CallWithFrame(id)) /\ stack' \in [Threads -> Seq(Frame)]
         /\ \A k \in Kinds, n \in Instances : CallNew(t, k, n) =>
              Pushed(t, CallNewFrame(k, n)) /\ stack' \in [Threads -> Seq(Frame)]
         /\ \A id \in Ids : CallFree(t, id) =>
              Pushed(t, CallFreeFrame(id)) /\ stack' \in [Threads -> Seq(Frame)]
<1>1. \A id \in Ids : CallWithFrame(id) \in Frame /\ CallFreeFrame(id) \in Frame
  BY IdFacts DEF CallWithFrame, CallFreeFrame, Frame, TypeOK, Steps
<1>2. \A k \in Kinds, n \in Instances : CallNewFrame(k, n) \in Frame
  BY DEF CallNewFrame, Frame, Steps
<1>3. \A f \in Frame : Push(t, f) => Pushed(t, f) /\ stack' \in [Threads -> Seq(Frame)]
  BY PushMoves
<1>4. /\ \A id \in Ids : CallWith(t, id) => Push(t, CallWithFrame(id))
      /\ \A id \in Ids : CallFree(t, id) => Push(t, CallFreeFrame(id))
      /\ \A k \in Kinds, n \in Instances : CallNew(t, k, n) => Push(t, CallNewFrame(k, n))
  BY DEF CallWith, CallNew, CallFree, CallWithFrame, CallNewFrame, CallFreeFrame
<1> QED
  BY <1>1, <1>2, <1>3, <1>4

(* The actions that end one.                                                *)
LEMMA Returns ==
  ASSUME TypeOK, NEW t \in Threads
  PROVE  /\ WithUnlock(t) => /\ Popped(t) /\ Call(t).op = "with" /\ Call(t).at = "unlock"
                             /\ stack' \in [Threads -> Seq(Frame)]
         /\ NewReturn(t) => /\ Popped(t) /\ Call(t).op = "new" /\ Call(t).at = "unpool"
                            /\ stack' \in [Threads -> Seq(Frame)]
         /\ FreeUnlock(t) => /\ Popped(t) /\ Call(t).op = "free" /\ Call(t).at = "unlock"
                             /\ stack' \in [Threads -> Seq(Frame)]
BY PopMoves DEF WithUnlock, NewReturn, FreeUnlock, At, Busy

(* The innermost call is well formed.                                       *)
LEMMA CallFacts ==
  ASSUME TypeOK, Nested, NEW t \in Threads, Busy(t)
  PROVE  /\ WellFormed(Call(t)) /\ Call(t) \in Frame
         /\ Call(t).op \in {"with", "free"} => Call(t).id \in Ids
<1>1. WellFormed(Call(t)) /\ Call(t) \in Frame
  BY StackFacts DEF Nested
<1> QED
  BY <1>1 DEF WellFormed

(* An id is one of its call's sub-pool.                                     *)
LEMMA KindFacts ==
  ASSUME NEW t \in Threads, TypeOK, NEW k \in DOMAIN stack[t], stack[t][k].id # None
  PROVE  stack[t][k].id.kind = stack[t][k].kind
<1>1. stack[t][k] \in Frames
  BY DEF Frames
<1> QED
  BY <1>1 DEF TypeOK

(* Sub-pools of ids survive a step that brings no wrong id in.              *)
LEMMA KindsKept ==
  ASSUME TypeOK, NEW t \in Threads,
         \A u \in Threads : u # t => stack'[u] = stack[u],
         \A k \in DOMAIN stack'[t] :
           \/ stack'[t][k].id # None => stack'[t][k].id.kind = stack'[t][k].kind
           \/ \E j \in DOMAIN stack[t] : stack'[t][k] = stack[t][j]
  PROVE  \A f \in Frames' : f.id # None => f.id.kind = f.kind
<1> SUFFICES ASSUME NEW u \in Threads, NEW k \in DOMAIN stack'[u], stack'[u][k].id # None
             PROVE  stack'[u][k].id.kind = stack'[u][k].kind
  BY DEF Frames
<1>1. CASE u # t
  BY <1>1, KindFacts
<1>2. CASE u = t
  BY <1>2, KindFacts
<1> QED
  BY <1>1, <1>2


(* That holds of a call that goes on,                                       *)
LEMMA KindsMove ==
  ASSUME TypeOK, NEW t \in Threads, NEW i, NEW a, HeadMoves(t, i, a),
         i = Call(t).id \/ i.kind = Call(t).kind
  PROVE  \A f \in Frames' : f.id # None => f.id.kind = f.kind
<1>1. stack'[t][1].id # None => stack'[t][1].id.kind = stack'[t][1].kind
  BY KindFacts DEF HeadMoves
<1>2. \A k \in DOMAIN stack'[t] :
           \/ stack'[t][k].id # None => stack'[t][k].id.kind = stack'[t][k].kind
           \/ \E j \in DOMAIN stack[t] : stack'[t][k] = stack[t][j]
  BY <1>1 DEF HeadMoves
<1> QED
  BY <1>2, KindsKept DEF HeadMoves

(* of a call that starts,                                                   *)
LEMMA KindsPush ==
  ASSUME TypeOK, NEW t \in Threads, NEW f, Pushed(t, f), f.id = None \/ f.id.kind = f.kind
  PROVE  \A g \in Frames' : g.id # None => g.id.kind = g.kind
<1>1. \A k \in DOMAIN stack'[t] :
           \/ stack'[t][k].id # None => stack'[t][k].id.kind = stack'[t][k].kind
           \/ \E j \in DOMAIN stack[t] : stack'[t][k] = stack[t][j]
  BY DEF Pushed
<1> QED
  BY <1>1, KindsKept DEF Pushed

(* and of one that returns.                                                 *)
LEMMA KindsPop ==
  ASSUME TypeOK, NEW t \in Threads, Popped(t)
  PROVE  \A f \in Frames' : f.id # None => f.id.kind = f.kind
BY KindsKept DEF Popped


(* Locks are held by threads.                                               *)
LEMMA AcquireType ==
  ASSUME TypeOK, NEW t \in Threads, NEW l \in Locks, Acquire(t, l) \/ Release(l)
  PROVE  owner' \in [Locks -> Threads \cup {None}]
BY DEF Acquire, Release, TypeOK

(* No step breaks the type invariant.                                       *)
LEMMA TypeStep ==
  ASSUME TypeOK, Nested, NEW t \in Threads,
         ApplicationStep(t) \/ WithStep(t) \/ NewStep(t) \/ FreeStep(t), UNCHANGED hooks
  PROVE  TypeOK'
<1>1. ASSUME NEW id \in Ids, CallWith(t, id) PROVE TypeOK'
  <2>1. Pushed(t, CallWithFrame(id)) /\ stack' \in [Threads -> Seq(Frame)]
    BY <1>1, Calls
  <2>2. \A g \in Frames' : g.id # None => g.id.kind = g.kind
    BY <2>1, KindsPush DEF CallWithFrame
  <2> QED
    BY <1>1, <2>1, <2>2 DEF CallWith, TypeOK, slotVars
<1>2. ASSUME NEW id \in Ids, CallFree(t, id) PROVE TypeOK'
  <2>1. Pushed(t, CallFreeFrame(id)) /\ stack' \in [Threads -> Seq(Frame)]
    BY <1>2, Calls
  <2>2. \A g \in Frames' : g.id # None => g.id.kind = g.kind
    BY <2>1, KindsPush DEF CallFreeFrame
  <2> QED
    BY <1>2, <2>1, <2>2 DEF CallFree, TypeOK, slotVars
<1>3. ASSUME NEW k \in Kinds, NEW n \in Instances, CallNew(t, k, n) PROVE TypeOK'
  <2>1. Pushed(t, CallNewFrame(k, n)) /\ stack' \in [Threads -> Seq(Frame)]
    BY <1>3, Calls
  <2>2. \A g \in Frames' : g.id # None => g.id.kind = g.kind
    BY <2>1, KindsPush DEF CallNewFrame
  <2> QED
    BY <1>3, <2>1, <2>2 DEF CallNew, TypeOK, slotVars
<1>4. ASSUME WithLock(t) PROVE TypeOK'
  <2>1. HeadMoves(t, Call(t).id, "check") /\ stack' \in [Threads -> Seq(Frame)] /\ Call(t) \in Frame
    BY <1>4, Turns, StackFacts DEF Turn, HeadMoves
  <2>2. \A f \in Frames' : f.id # None => f.id.kind = f.kind
    BY <2>1, KindsMove
  <2>i. Call(t).id \in Ids
    BY <1>4, Turns, CallFacts DEF Turn, HeadMoves
  <2>3. owner' \in [Locks -> Threads \cup {None}]
    BY <1>4, <2>i, IdFacts, AcquireType DEF WithLock, FreeLocks
  <2> QED
    BY <1>4, <2>1, <2>2, <2>3 DEF WithLock, TypeOK, slotVars
<1>5. ASSUME WithInvalid(t) PROVE TypeOK'
  <2>1. HeadMoves(t, Call(t).id, "unlock") /\ stack' \in [Threads -> Seq(Frame)] /\ Call(t) \in Frame
    BY <1>5, Turns, StackFacts DEF Turn, HeadMoves
  <2>2. \A f \in Frames' : f.id # None => f.id.kind = f.kind
    BY <2>1, KindsMove
  <2> QED
    BY <1>5, <2>1, <2>2 DEF WithInvalid, TypeOK, slotVars
<1>6. ASSUME WithBusy(t) PROVE TypeOK'
  <2>1. HeadMoves(t, Call(t).id, "unlock") /\ stack' \in [Threads -> Seq(Frame)] /\ Call(t) \in Frame
    BY <1>6, Turns, StackFacts DEF Turn, HeadMoves
  <2>2. \A f \in Frames' : f.id # None => f.id.kind = f.kind
    BY <2>1, KindsMove
  <2> QED
    BY <1>6, <2>1, <2>2 DEF WithBusy, TypeOK, slotVars
<1>7. ASSUME WithBorrow(t) PROVE TypeOK'
  <2>1. HeadMoves(t, Call(t).id, "run") /\ stack' \in [Threads -> Seq(Frame)] /\ Call(t) \in Frame
    BY <1>7, Turns, StackFacts DEF Turn, HeadMoves
  <2>2. \A f \in Frames' : f.id # None => f.id.kind = f.kind
    BY <2>1, KindsMove
  <2> QED
    BY <1>7, <2>1, <2>2 DEF WithBorrow, TypeOK, slotVars
<1>8. ASSUME WithDone(t) PROVE TypeOK'
  <2>1. HeadMoves(t, Call(t).id, "unlock") /\ stack' \in [Threads -> Seq(Frame)] /\ Call(t) \in Frame
    BY <1>8, Turns, StackFacts DEF Turn, HeadMoves
  <2>2. \A f \in Frames' : f.id # None => f.id.kind = f.kind
    BY <2>1, KindsMove
  <2> QED
    BY <1>8, <2>1, <2>2 DEF WithDone, TypeOK, slotVars
<1>9. ASSUME WithUnlock(t) PROVE TypeOK'
  <2>1. Popped(t) /\ stack' \in [Threads -> Seq(Frame)] /\ Call(t) \in Frame
    BY <1>9, Returns, StackFacts DEF Popped
  <2>2. \A f \in Frames' : f.id # None => f.id.kind = f.kind
    BY <2>1, KindsPop
  <2>i. Call(t).id \in Ids
    BY <1>9, Returns, CallFacts DEF Popped
  <2>3. owner' \in [Locks -> Threads \cup {None}]
    BY <1>9, <2>i, IdFacts, AcquireType DEF WithUnlock
  <2> QED
    BY <1>9, <2>1, <2>2, <2>3 DEF WithUnlock, TypeOK, slotVars, Frame
<1>10. ASSUME NewPool(t) PROVE TypeOK'
  <2>1. HeadMoves(t, Call(t).id, "scan") /\ stack' \in [Threads -> Seq(Frame)] /\ Call(t) \in Frame
    BY <1>10, Turns, StackFacts DEF Turn, HeadMoves
  <2>2. \A f \in Frames' : f.id # None => f.id.kind = f.kind
    BY <2>1, KindsMove
  <2>3. owner' \in [Locks -> Threads \cup {None}]
    BY <1>10, IdFacts, AcquireType DEF NewPool, FreeLocks
  <2> QED
    BY <1>10, <2>1, <2>2, <2>3 DEF NewPool, TypeOK, slotVars
<1>11. ASSUME NewScan(t) PROVE TypeOK'
  <2>1. PICK i \in Ids : HeadMoves(t, i, "write") /\ stack' \in [Threads -> Seq(Frame)]
                          /\ i.kind = Call(t).kind
    BY <1>11, ScanTurns
  <2>2. \A f \in Frames' : f.id # None => f.id.kind = f.kind
    BY <2>1, KindsMove
  <2> QED
    BY <1>11, <2>1, <2>2 DEF NewScan, TypeOK, slotVars
<1>12. ASSUME NewFull(t) PROVE TypeOK'
  <2>1. HeadMoves(t, Call(t).id, "unpool") /\ stack' \in [Threads -> Seq(Frame)] /\ Call(t) \in Frame
    BY <1>12, Turns, StackFacts DEF Turn, HeadMoves
  <2>2. \A f \in Frames' : f.id # None => f.id.kind = f.kind
    BY <2>1, KindsMove
  <2> QED
    BY <1>12, <2>1, <2>2 DEF NewFull, TypeOK, slotVars
<1>13. ASSUME NewWrite(t) PROVE TypeOK'
  <2>1. HeadMoves(t, Call(t).id, "publish") /\ stack' \in [Threads -> Seq(Frame)] /\ Call(t) \in Frame
    BY <1>13, Turns, StackFacts DEF Turn, HeadMoves
  <2>2. \A f \in Frames' : f.id # None => f.id.kind = f.kind
    BY <2>1, KindsMove
  <2> QED
    BY <1>13, <2>1, <2>2 DEF NewWrite, TypeOK, slotVars, Frame
<1>14. ASSUME NewPublish(t) PROVE TypeOK'
  <2>1. HeadMoves(t, Call(t).id, "unpool") /\ stack' \in [Threads -> Seq(Frame)] /\ Call(t) \in Frame
    BY <1>14, Turns, StackFacts DEF Turn, HeadMoves
  <2>2. \A f \in Frames' : f.id # None => f.id.kind = f.kind
    BY <2>1, KindsMove
  <2> QED
    BY <1>14, <2>1, <2>2 DEF NewPublish, TypeOK, slotVars
<1>15. ASSUME NewReturn(t) PROVE TypeOK'
  <2>1. Popped(t) /\ stack' \in [Threads -> Seq(Frame)] /\ Call(t) \in Frame
    BY <1>15, Returns, StackFacts DEF Popped
  <2>2. \A f \in Frames' : f.id # None => f.id.kind = f.kind
    BY <2>1, KindsPop
  <2>3. owner' \in [Locks -> Threads \cup {None}]
    BY <1>15, IdFacts, AcquireType DEF NewReturn
  <2> QED
    BY <1>15, <2>1, <2>2, <2>3 DEF NewReturn, TypeOK, slotVars, Frame
<1>16. ASSUME FreeLock(t) PROVE TypeOK'
  <2>1. HeadMoves(t, Call(t).id, "pool") /\ stack' \in [Threads -> Seq(Frame)] /\ Call(t) \in Frame
    BY <1>16, Turns, StackFacts DEF Turn, HeadMoves
  <2>2. \A f \in Frames' : f.id # None => f.id.kind = f.kind
    BY <2>1, KindsMove
  <2>i. Call(t).id \in Ids
    BY <1>16, Turns, CallFacts DEF Turn, HeadMoves
  <2>3. owner' \in [Locks -> Threads \cup {None}]
    BY <1>16, <2>i, IdFacts, AcquireType DEF FreeLock, FreeLocks
  <2> QED
    BY <1>16, <2>1, <2>2, <2>3 DEF FreeLock, TypeOK, slotVars
<1>17. ASSUME FreePool(t) PROVE TypeOK'
  <2>1. HeadMoves(t, Call(t).id, "drop") /\ stack' \in [Threads -> Seq(Frame)] /\ Call(t) \in Frame
    BY <1>17, Turns, StackFacts DEF Turn, HeadMoves
  <2>2. \A f \in Frames' : f.id # None => f.id.kind = f.kind
    BY <2>1, KindsMove
  <2>3. owner' \in [Locks -> Threads \cup {None}]
    BY <1>17, IdFacts, AcquireType DEF FreePool, FreeLocks
  <2> QED
    BY <1>17, <2>1, <2>2, <2>3 DEF FreePool, TypeOK, slotVars
<1>18. ASSUME FreeNothing(t) PROVE TypeOK'
  <2>1. HeadMoves(t, Call(t).id, "unpool") /\ stack' \in [Threads -> Seq(Frame)] /\ Call(t) \in Frame
    BY <1>18, Turns, StackFacts DEF Turn, HeadMoves
  <2>2. \A f \in Frames' : f.id # None => f.id.kind = f.kind
    BY <2>1, KindsMove
  <2> QED
    BY <1>18, <2>1, <2>2 DEF FreeNothing, TypeOK, slotVars
<1>19. ASSUME FreeDrop(t) PROVE TypeOK'
  <2>1. HeadMoves(t, Call(t).id, "clear") /\ stack' \in [Threads -> Seq(Frame)] /\ Call(t) \in Frame
    BY <1>19, Turns, StackFacts DEF Turn, HeadMoves
  <2>2. \A f \in Frames' : f.id # None => f.id.kind = f.kind
    BY <2>1, KindsMove
  <2> QED
    BY <1>19, <2>1, <2>2 DEF FreeDrop, TypeOK, slotVars, Frame
<1>20. ASSUME FreeClear(t) PROVE TypeOK'
  <2>1. HeadMoves(t, Call(t).id, "unpool") /\ stack' \in [Threads -> Seq(Frame)] /\ Call(t) \in Frame
    BY <1>20, Turns, StackFacts DEF Turn, HeadMoves
  <2>2. \A f \in Frames' : f.id # None => f.id.kind = f.kind
    BY <2>1, KindsMove
  <2> QED
    BY <1>20, <2>1, <2>2 DEF FreeClear, TypeOK, slotVars
<1>21. ASSUME FreeUnpool(t) PROVE TypeOK'
  <2>1. HeadMoves(t, Call(t).id, "unlock") /\ stack' \in [Threads -> Seq(Frame)] /\ Call(t) \in Frame
    BY <1>21, Turns, StackFacts DEF Turn, HeadMoves
  <2>2. \A f \in Frames' : f.id # None => f.id.kind = f.kind
    BY <2>1, KindsMove
  <2>3. owner' \in [Locks -> Threads \cup {None}]
    BY <1>21, IdFacts, AcquireType DEF FreeUnpool, FreeLocks
  <2> QED
    BY <1>21, <2>1, <2>2, <2>3 DEF FreeUnpool, TypeOK, slotVars
<1>22. ASSUME FreeUnlock(t) PROVE TypeOK'
  <2>1. Popped(t) /\ stack' \in [Threads -> Seq(Frame)] /\ Call(t) \in Frame
    BY <1>22, Returns, StackFacts DEF Popped
  <2>2. \A f \in Frames' : f.id # None => f.id.kind = f.kind
    BY <2>1, KindsPop
  <2>i. Call(t).id \in Ids
    BY <1>22, Returns, CallFacts DEF Popped
  <2>3. owner' \in [Locks -> Threads \cup {None}]
    BY <1>22, <2>i, IdFacts, AcquireType DEF FreeUnlock
  <2> QED
    BY <1>22, <2>1, <2>2, <2>3 DEF FreeUnlock, TypeOK, slotVars, Frame
<1> QED
  BY <1>1, <1>2, <1>3, <1>4, <1>5, <1>6, <1>7, <1>8, <1>9, <1>10, <1>11, <1>12, <1>13, <1>14,
     <1>15, <1>16, <1>17, <1>18, <1>19, <1>20, <1>21, <1>22 DEF ApplicationStep, WithStep,
     NewStep, FreeStep


-----------------------------------------------------------------------------
(* Nested, when a call goes on.                                             *)
LEMMA NestedMoves ==
  ASSUME TypeOK, Nested, NEW t \in Threads, NEW i, NEW a, HeadMoves(t, i, a), UNCHANGED hooks,
         WellFormed(Call(t)')
  PROVE  Nested'
<1>1. ASSUME NEW u \in Threads, NEW k \in DOMAIN stack'[u]
      PROVE  /\ WellFormed(stack'[u][k])
             /\ k # 1 => stack'[u][k].op = "with" /\ stack'[u][k].at = "run" /\ hooks' = "nothing"
  <2>1. CASE u = t /\ k = 1
    BY <2>1 DEF HeadMoves
  <2>2. CASE ~(u = t /\ k = 1)
    <3>1. k \in DOMAIN stack[u] /\ stack'[u][k] = stack[u][k]
      BY <1>1, <2>2 DEF HeadMoves
    <3> QED
      BY <3>1 DEF Nested
  <2> QED
    BY <2>1, <2>2
<1>2. \A u \in Threads : Busy(u)' <=> Busy(u)
  BY DEF HeadMoves, Busy
<1>3. ASSUME NEW u \in Threads, NEW v \in Threads, hooks' = "nothing", Busy(u)', Busy(v)'
      PROVE  u = v
  BY <1>2, <1>3 DEF Nested
<1> QED
  BY <1>1, <1>3 DEF Nested, WellFormed

(* No calls in progress: nobody is busy.                                    *)
LEMMA FramesEmpty ==
  ASSUME TypeOK, Frames = {}, NEW t \in Threads
  PROVE  ~Busy(t)
<1>1. Busy(t) => stack[t][1] \in Frames
  BY StackFacts DEF Frames
<1> QED
  BY <1>1

(* Where the application may call: from a thread without calls or, when no  *)
(* other runs, from a callback.                                             *)
LEMMA MayCallFacts ==
  ASSUME TypeOK, Nested, NEW t \in Threads, MayCall(t)
  PROVE  /\ hooks \in {"mutex", "nothing"}
         /\ hooks = "mutex" => ~Busy(t) /\ DOMAIN stack[t] = {} /\ Len(stack[t]) = 0
         /\ hooks = "nothing" => \A u \in Threads : u # t => ~Busy(u)
         /\ \A k \in DOMAIN stack[t] : stack[t][k].op = "with" /\ stack[t][k].at = "run"
         /\ Busy(t) => hooks = "nothing" /\ Call(t).op = "with" /\ Call(t).at = "run"
<1>1. hooks \in {"mutex", "nothing"}
  BY PoolAssumption DEF TypeOK
<1>2. ~Busy(t) => DOMAIN stack[t] = {} /\ Len(stack[t]) = 0
  BY StackFacts
<1>3. Busy(t) => hooks = "nothing" /\ Call(t).op = "with" /\ Call(t).at = "run"
  BY DEF MayCall, At, Busy
<1>4. hooks = "nothing" => \A u \in Threads : u # t => ~Busy(u)
  <2> SUFFICES ASSUME hooks = "nothing", NEW u \in Threads, u # t PROVE ~Busy(u)
    OBVIOUS
  <2>1. CASE Busy(t)
    BY <2>1 DEF Nested
  <2>2. CASE ~Busy(t)
    <3>1. Frames = {}
      BY <2>2 DEF MayCall, At, Busy
    <3> QED
      BY <3>1, FramesEmpty
  <2> QED
    BY <2>1, <2>2
<1>5. \A k \in DOMAIN stack[t] : stack[t][k].op = "with" /\ stack[t][k].at = "run"
  <2> SUFFICES ASSUME NEW k \in DOMAIN stack[t] PROVE stack[t][k].op = "with" /\ stack[t][k].at = "run"
    OBVIOUS
  <2>1. CASE k = 1
    BY <2>1, <1>3, StackFacts
  <2>2. CASE k # 1
    BY <2>2 DEF Nested
  <2> QED
    BY <2>1, <2>2
<1> QED
  BY <1>1, <1>2, <1>3, <1>4, <1>5

(* Nested, when a call starts.                                              *)
LEMMA NestedPush ==
  ASSUME TypeOK, Nested, NEW t \in Threads, NEW f, Pushed(t, f), UNCHANGED hooks, MayCall(t),
         WellFormed(f)
  PROVE  Nested'
<1>1. ASSUME NEW u \in Threads, NEW k \in DOMAIN stack'[u]
      PROVE  /\ WellFormed(stack'[u][k])
             /\ k # 1 => stack'[u][k].op = "with" /\ stack'[u][k].at = "run" /\ hooks' = "nothing"
  <2>1. CASE u = t /\ k = 1
    BY <2>1 DEF Pushed
  <2>2. CASE u = t /\ k # 1
    <3>1. k - 1 \in DOMAIN stack[t] /\ stack'[t][k] = stack[t][k - 1]
      BY <1>1, <2>2 DEF Pushed
    <3>2. /\ stack[t][k - 1].op = "with" /\ stack[t][k - 1].at = "run" /\ WellFormed(stack[t][k - 1])
      BY <3>1, MayCallFacts DEF Nested
    <3>3. hooks = "nothing"
      BY <3>1, MayCallFacts
    <3> QED
      BY <2>2, <3>1, <3>2, <3>3
  <2>3. CASE u # t
    BY <2>3, <1>1 DEF Pushed, Nested
  <2> QED
    BY <2>1, <2>2, <2>3
<1>2. ASSUME NEW u \in Threads, NEW v \in Threads, hooks' = "nothing", Busy(u)', Busy(v)'
      PROVE  u = v
  <2>1. \A w \in Threads : w # t => ~Busy(w)'
    BY <1>2, MayCallFacts DEF Pushed, Busy
  <2> QED
    BY <2>1, <1>2
<1> QED
  BY <1>1, <1>2 DEF Nested, WellFormed

(* Nested, when a call returns.                                             *)
LEMMA NestedPop ==
  ASSUME TypeOK, Nested, NEW t \in Threads, Popped(t), UNCHANGED hooks
  PROVE  Nested'
<1>1. ASSUME NEW u \in Threads, NEW k \in DOMAIN stack'[u]
      PROVE  /\ WellFormed(stack'[u][k])
             /\ k # 1 => stack'[u][k].op = "with" /\ stack'[u][k].at = "run" /\ hooks' = "nothing"
  <2>1. CASE u = t
    <3>1. k + 1 \in DOMAIN stack[t] /\ stack'[t][k] = stack[t][k + 1] /\ k + 1 # 1
      BY <1>1, <2>1 DEF Popped
    <3> QED
      BY <2>1, <3>1 DEF Nested
  <2>2. CASE u # t
    BY <2>2, <1>1 DEF Popped, Nested
  <2> QED
    BY <2>1, <2>2
<1>2. ASSUME NEW u \in Threads, NEW v \in Threads, hooks' = "nothing", Busy(u)', Busy(v)'
      PROVE  u = v
  <2>1. \A w \in Threads : Busy(w)' => Busy(w)
    BY DEF Popped, Busy
  <2> QED
    BY <2>1, <1>2 DEF Nested
<1> QED
  BY <1>1, <1>2 DEF Nested, WellFormed

(* The calls below one that returns are at their callbacks.                 *)
LEMMA PoppedRest ==
  ASSUME TypeOK, Nested, NEW t \in Threads, Popped(t)
  PROVE  /\ \A k \in DOMAIN stack'[t] : stack'[t][k].op = "with" /\ stack'[t][k].at = "run"
         /\ Busy(t)' => hooks = "nothing" /\ Call(t)'.op = "with" /\ Call(t)'.at = "run"
<1>1. ASSUME NEW k \in DOMAIN stack'[t]
      PROVE  stack'[t][k].op = "with" /\ stack'[t][k].at = "run" /\ hooks = "nothing"
  <2>1. k + 1 \in DOMAIN stack[t] /\ stack'[t][k] = stack[t][k + 1] /\ k + 1 # 1
    BY <1>1 DEF Popped
  <2> QED
    BY <2>1 DEF Nested
<1> QED
  BY <1>1 DEF Popped

(* No step breaks Nested.                                                   *)
LEMMA NestedStep ==
  ASSUME TypeOK, Nested, NEW t \in Threads,
         ApplicationStep(t) \/ WithStep(t) \/ NewStep(t) \/ FreeStep(t), UNCHANGED hooks
  PROVE  Nested'
<1>1. ASSUME NEW id \in Ids, CallWith(t, id) PROVE Nested'
  <2>1. Pushed(t, CallWithFrame(id)) /\ MayCall(t)
    BY <1>1, Calls DEF CallWith
  <2>2. WellFormed(CallWithFrame(id))
    BY <1>1 DEF WellFormed, CallWithFrame, PreClear
  <2> QED
    BY <2>1, <2>2, NestedPush
<1>2. ASSUME NEW id \in Ids, CallFree(t, id) PROVE Nested'
  <2>1. Pushed(t, CallFreeFrame(id)) /\ MayCall(t)
    BY <1>2, Calls DEF CallFree
  <2>2. WellFormed(CallFreeFrame(id))
    BY <1>2 DEF WellFormed, CallFreeFrame, PreClear
  <2> QED
    BY <2>1, <2>2, NestedPush
<1>3. ASSUME NEW k \in Kinds, NEW n \in Instances, CallNew(t, k, n) PROVE Nested'
  <2>1. Pushed(t, CallNewFrame(k, n)) /\ MayCall(t)
    BY <1>3, Calls DEF CallNew
  <2>2. WellFormed(CallNewFrame(k, n))
    BY <1>3, NoneAssumption DEF WellFormed, CallNewFrame, PreClear
  <2> QED
    BY <2>1, <2>2, NestedPush
<1>4. ASSUME WithLock(t) PROVE Nested'
  <2>1. Turn(t, "with", "lock", "check") /\ WellFormed(Call(t))
    BY <1>4, Turns, CallFacts DEF Turn, HeadMoves
  <2>2. WellFormed(Call(t)')
    BY <2>1 DEF WellFormed, Turn, HeadMoves, PreClear
  <2> QED
    BY <2>1, <2>2, NestedMoves DEF Turn
<1>5. ASSUME WithInvalid(t) PROVE Nested'
  <2>1. Turn(t, "with", "check", "unlock") /\ WellFormed(Call(t))
    BY <1>5, Turns, CallFacts DEF Turn, HeadMoves
  <2>2. WellFormed(Call(t)')
    BY <2>1 DEF WellFormed, Turn, HeadMoves, PreClear
  <2> QED
    BY <2>1, <2>2, NestedMoves DEF Turn
<1>6. ASSUME WithBusy(t) PROVE Nested'
  <2>1. Turn(t, "with", "check", "unlock") /\ WellFormed(Call(t))
    BY <1>6, Turns, CallFacts DEF Turn, HeadMoves
  <2>2. WellFormed(Call(t)')
    BY <2>1 DEF WellFormed, Turn, HeadMoves, PreClear
  <2> QED
    BY <2>1, <2>2, NestedMoves DEF Turn
<1>7. ASSUME WithBorrow(t) PROVE Nested'
  <2>1. Turn(t, "with", "check", "run") /\ WellFormed(Call(t))
    BY <1>7, Turns, CallFacts DEF Turn, HeadMoves
  <2>2. WellFormed(Call(t)')
    BY <2>1 DEF WellFormed, Turn, HeadMoves, PreClear
  <2> QED
    BY <2>1, <2>2, NestedMoves DEF Turn
<1>8. ASSUME WithDone(t) PROVE Nested'
  <2>1. Turn(t, "with", "run", "unlock") /\ WellFormed(Call(t))
    BY <1>8, Turns, CallFacts DEF Turn, HeadMoves
  <2>2. WellFormed(Call(t)')
    BY <2>1 DEF WellFormed, Turn, HeadMoves, PreClear
  <2> QED
    BY <2>1, <2>2, NestedMoves DEF Turn
<1>9. ASSUME WithUnlock(t) PROVE Nested'
  BY <1>9, Returns, NestedPop
<1>10. ASSUME NewPool(t) PROVE Nested'
  <2>1. Turn(t, "new", "pool", "scan") /\ WellFormed(Call(t))
    BY <1>10, Turns, CallFacts DEF Turn, HeadMoves
  <2>2. WellFormed(Call(t)')
    BY <2>1 DEF WellFormed, Turn, HeadMoves, PreClear
  <2> QED
    BY <2>1, <2>2, NestedMoves DEF Turn
<1>11. ASSUME NewScan(t) PROVE Nested'
  <2>1. PICK i \in Ids : HeadMoves(t, i, "write") /\ Call(t).op = "new" /\ Call(t).at = "scan"
    BY <1>11, ScanTurns
  <2>2. WellFormed(Call(t)')
    BY <2>1, CallFacts DEF WellFormed, HeadMoves, PreClear
  <2> QED
    BY <2>1, <2>2, NestedMoves
<1>12. ASSUME NewFull(t) PROVE Nested'
  <2>1. Turn(t, "new", "scan", "unpool") /\ WellFormed(Call(t))
    BY <1>12, Turns, CallFacts DEF Turn, HeadMoves
  <2>2. WellFormed(Call(t)')
    BY <2>1 DEF WellFormed, Turn, HeadMoves, PreClear
  <2> QED
    BY <2>1, <2>2, NestedMoves DEF Turn
<1>13. ASSUME NewWrite(t) PROVE Nested'
  <2>1. Turn(t, "new", "write", "publish") /\ WellFormed(Call(t))
    BY <1>13, Turns, CallFacts DEF Turn, HeadMoves
  <2>2. WellFormed(Call(t)')
    BY <2>1 DEF WellFormed, Turn, HeadMoves, PreClear
  <2> QED
    BY <2>1, <2>2, NestedMoves DEF Turn
<1>14. ASSUME NewPublish(t) PROVE Nested'
  <2>1. Turn(t, "new", "publish", "unpool") /\ WellFormed(Call(t))
    BY <1>14, Turns, CallFacts DEF Turn, HeadMoves
  <2>2. WellFormed(Call(t)')
    BY <2>1 DEF WellFormed, Turn, HeadMoves, PreClear
  <2> QED
    BY <2>1, <2>2, NestedMoves DEF Turn
<1>15. ASSUME NewReturn(t) PROVE Nested'
  BY <1>15, Returns, NestedPop
<1>16. ASSUME FreeLock(t) PROVE Nested'
  <2>1. Turn(t, "free", "lock", "pool") /\ WellFormed(Call(t))
    BY <1>16, Turns, CallFacts DEF Turn, HeadMoves
  <2>2. WellFormed(Call(t)')
    BY <2>1 DEF WellFormed, Turn, HeadMoves, PreClear
  <2> QED
    BY <2>1, <2>2, NestedMoves DEF Turn
<1>17. ASSUME FreePool(t) PROVE Nested'
  <2>1. Turn(t, "free", "pool", "drop") /\ WellFormed(Call(t))
    BY <1>17, Turns, CallFacts DEF Turn, HeadMoves
  <2>2. WellFormed(Call(t)')
    BY <2>1 DEF WellFormed, Turn, HeadMoves, PreClear
  <2> QED
    BY <2>1, <2>2, NestedMoves DEF Turn
<1>18. ASSUME FreeNothing(t) PROVE Nested'
  <2>1. Turn(t, "free", "drop", "unpool") /\ WellFormed(Call(t))
    BY <1>18, Turns, CallFacts DEF Turn, HeadMoves
  <2>2. WellFormed(Call(t)')
    BY <2>1 DEF WellFormed, Turn, HeadMoves, PreClear
  <2> QED
    BY <2>1, <2>2, NestedMoves DEF Turn
<1>19. ASSUME FreeDrop(t) PROVE Nested'
  <2>1. Turn(t, "free", "drop", "clear") /\ WellFormed(Call(t))
    BY <1>19, Turns, CallFacts DEF Turn, HeadMoves
  <2>2. WellFormed(Call(t)')
    BY <2>1 DEF WellFormed, Turn, HeadMoves, PreClear
  <2> QED
    BY <2>1, <2>2, NestedMoves DEF Turn
<1>20. ASSUME FreeClear(t) PROVE Nested'
  <2>1. Turn(t, "free", "clear", "unpool") /\ WellFormed(Call(t))
    BY <1>20, Turns, CallFacts DEF Turn, HeadMoves
  <2>2. WellFormed(Call(t)')
    BY <2>1 DEF WellFormed, Turn, HeadMoves, PreClear
  <2> QED
    BY <2>1, <2>2, NestedMoves DEF Turn
<1>21. ASSUME FreeUnpool(t) PROVE Nested'
  <2>1. Turn(t, "free", "unpool", "unlock") /\ WellFormed(Call(t))
    BY <1>21, Turns, CallFacts DEF Turn, HeadMoves
  <2>2. WellFormed(Call(t)')
    BY <2>1 DEF WellFormed, Turn, HeadMoves, PreClear
  <2> QED
    BY <2>1, <2>2, NestedMoves DEF Turn
<1>22. ASSUME FreeUnlock(t) PROVE Nested'
  BY <1>22, Returns, NestedPop
<1> QED
  BY <1>1, <1>2, <1>3, <1>4, <1>5, <1>6, <1>7, <1>8, <1>9, <1>10, <1>11, <1>12, <1>13, <1>14,
     <1>15, <1>16, <1>17, <1>18, <1>19, <1>20, <1>21, <1>22 DEF ApplicationStep, WithStep,
     NewStep, FreeStep


-----------------------------------------------------------------------------
(* Locked, when a call goes on within its section.                          *)
LEMMA LockedSame ==
  ASSUME TypeOK, Locked, NEW t \in Threads, NEW i, NEW a, HeadMoves(t, i, a), UNCHANGED <<hooks, owner>>,
         HoldsPool(Call(t)') <=> HoldsPool(Call(t)),
         HoldsInstance(Call(t)') <=> HoldsInstance(Call(t)),
         HoldsInstance(Call(t)) => i = Call(t).id
  PROVE  Locked'
<1>1. \A u \in Threads : (Busy(u)' <=> Busy(u)) /\ (u # t => Call(u)' = Call(u))
  BY DEF HeadMoves, Busy, Call
<1>2. /\ Busy(t) /\ (HoldsInstance(Call(t)) => Call(t)'.id = Call(t).id)
  BY DEF HeadMoves
<1>3. ASSUME hooks' = "mutex", NEW u \in Threads, NEW l \in Locks
      PROVE  owner'[l] = u <=>
               Busy(u)' /\ ( \/ l = PoolLock /\ HoldsPool(Call(u)')
                             \/ l # PoolLock /\ HoldsInstance(Call(u)') /\ l = LockOf(Call(u)'.id) )
  BY <1>1, <1>2, <1>3 DEF Locked, LockOf
<1>4. hooks' = "nothing" => \A l \in Locks : owner'[l] = None
  BY DEF Locked
<1> QED
  BY <1>3, <1>4 DEF Locked, PoolLock, LockOf, HoldsPool, HoldsInstance, Locks

(* Locked, when a call enters a section.                                    *)
LEMMA LockedAcquire ==
  ASSUME TypeOK, Locked, NEW t \in Threads, NEW a, HeadMoves(t, Call(t).id, a), UNCHANGED hooks,
         NEW l \in Locks, Acquire(t, l),
         \/ /\ l = PoolLock /\ HoldsPool(Call(t)') /\ ~HoldsPool(Call(t))
            /\ HoldsInstance(Call(t)') <=> HoldsInstance(Call(t))
         \/ /\ l # PoolLock /\ HoldsInstance(Call(t)') /\ ~HoldsInstance(Call(t))
            /\ l = LockOf(Call(t).id)
            /\ HoldsPool(Call(t)') <=> HoldsPool(Call(t))
  PROVE  Locked'
<1>1. \A u \in Threads : (Busy(u)' <=> Busy(u)) /\ (u # t => Call(u)' = Call(u))
  BY DEF HeadMoves, Busy, Call
<1>2. /\ Busy(t) /\ Call(t)'.id = Call(t).id
  BY DEF HeadMoves
<1>3. ASSUME hooks' = "mutex", NEW u \in Threads, NEW m \in Locks
      PROVE  owner'[m] = u <=>
               Busy(u)' /\ ( \/ m = PoolLock /\ HoldsPool(Call(u)')
                             \/ m # PoolLock /\ HoldsInstance(Call(u)') /\ m = LockOf(Call(u)'.id) )
  <2>1. owner[l] = None /\ owner' = [owner EXCEPT ![l] = t] /\ None \notin Threads
    BY <1>3, NoneAssumption DEF Acquire
  <2>2. owner[m] = u <=>
               Busy(u) /\ ( \/ m = PoolLock /\ HoldsPool(Call(u))
                            \/ m # PoolLock /\ HoldsInstance(Call(u)) /\ m = LockOf(Call(u).id) )
    BY <1>3 DEF Locked
  <2>3. owner'[m] = IF m = l THEN t ELSE owner[m]
    BY <2>1 DEF TypeOK
  <2>4. CASE m # l
    BY <2>2, <2>3, <2>4, <1>1, <1>2 DEF LockOf
  <2>5. CASE m = l
    BY <2>1, <2>2, <2>3, <2>5, <1>1, <1>2 DEF LockOf
  <2> QED
    BY <2>4, <2>5
<1>4. hooks' = "nothing" => \A m \in Locks : owner'[m] = None
  BY DEF Locked, Acquire
<1> QED
  BY <1>3, <1>4 DEF Locked, PoolLock, LockOf, HoldsPool, HoldsInstance, Locks

(* Locked, when a call leaves one.                                          *)
LEMMA LockedRelease ==
  ASSUME TypeOK, Locked, NEW t \in Threads, UNCHANGED hooks,
         NEW l \in Locks, Release(l), Busy(t),
         \A u \in Threads : u # t => stack'[u] = stack[u],
         hooks = "mutex" /\ Busy(t)' => Call(t)'.id = Call(t).id,
         \/ /\ l = PoolLock /\ HoldsPool(Call(t))
            /\ hooks = "mutex" /\ Busy(t)' => ~HoldsPool(Call(t)')
            /\ hooks = "mutex" => (HoldsInstance(Call(t)) <=> Busy(t)' /\ HoldsInstance(Call(t)'))
         \/ /\ l # PoolLock /\ HoldsInstance(Call(t)) /\ l = LockOf(Call(t).id)
            /\ hooks = "mutex" /\ Busy(t)' => ~HoldsInstance(Call(t)')
            /\ hooks = "mutex" => (HoldsPool(Call(t)) <=> Busy(t)' /\ HoldsPool(Call(t)'))
  PROVE  Locked'
<1>1. \A u \in Threads : u # t => (Busy(u)' <=> Busy(u)) /\ Call(u)' = Call(u)
  BY DEF Busy, Call
<1>3. ASSUME hooks' = "mutex", NEW u \in Threads, NEW m \in Locks
      PROVE  owner'[m] = u <=>
               Busy(u)' /\ ( \/ m = PoolLock /\ HoldsPool(Call(u)')
                             \/ m # PoolLock /\ HoldsInstance(Call(u)') /\ m = LockOf(Call(u)'.id) )
  <2>1. owner' = [owner EXCEPT ![l] = None] /\ None \notin Threads
    BY NoneAssumption DEF Release
  <2>2. owner[m] = u <=>
               Busy(u) /\ ( \/ m = PoolLock /\ HoldsPool(Call(u))
                            \/ m # PoolLock /\ HoldsInstance(Call(u)) /\ m = LockOf(Call(u).id) )
    BY <1>3 DEF Locked
  <2>3. owner'[m] = IF m = l THEN None ELSE owner[m]
    BY <2>1 DEF TypeOK
  <2>o. owner[l] = t
    BY <1>3 DEF Locked
  <2>4. CASE m # l
    <3>1. CASE u = t
      BY <2>2, <2>3, <2>4, <1>3, <3>1 DEF LockOf
    <3>2. CASE u # t
      BY <2>2, <2>3, <2>4, <1>1, <3>2 DEF LockOf
    <3> QED
      BY <3>1, <3>2
  <2>5. CASE m = l
    <3>1. CASE u = t
      BY <2>1, <2>3, <2>5, <1>3, <3>1 DEF LockOf
    <3>2. CASE u # t
      BY <2>1, <2>2, <2>3, <2>5, <2>o, <1>1, <3>2 DEF LockOf
    <3> QED
      BY <3>1, <3>2
  <2> QED
    BY <2>4, <2>5
<1>4. hooks' = "nothing" => \A m \in Locks : owner'[m] = None
  BY DEF Locked, Release, TypeOK
<1> QED
  BY <1>3, <1>4 DEF Locked, PoolLock, LockOf, HoldsPool, HoldsInstance, Locks

(* Locked, when a call starts.                                              *)
LEMMA LockedPush ==
  ASSUME TypeOK, Nested, Locked, NEW t \in Threads, NEW f, Pushed(t, f), UNCHANGED <<hooks, owner>>,
         MayCall(t), ~HoldsPool(f), ~HoldsInstance(f)
  PROVE  Locked'
<1>1. \A u \in Threads : u # t => (Busy(u)' <=> Busy(u)) /\ Call(u)' = Call(u)
  BY DEF Pushed, Busy, Call
<1>2. Call(t)' = f /\ (hooks = "mutex" => ~Busy(t))
  BY MayCallFacts DEF Pushed
<1>3. ASSUME hooks' = "mutex", NEW u \in Threads, NEW m \in Locks
      PROVE  owner'[m] = u <=>
               Busy(u)' /\ ( \/ m = PoolLock /\ HoldsPool(Call(u)')
                             \/ m # PoolLock /\ HoldsInstance(Call(u)') /\ m = LockOf(Call(u)'.id) )
  BY <1>1, <1>2, <1>3 DEF Locked, LockOf
<1>4. hooks' = "nothing" => \A m \in Locks : owner'[m] = None
  BY DEF Locked
<1> QED
  BY <1>3, <1>4 DEF Locked, PoolLock, LockOf, HoldsPool, HoldsInstance, Locks

(* No step breaks Locked.                                                   *)
LEMMA LockedStep ==
  ASSUME TypeOK, Nested, Locked, NEW t \in Threads,
         ApplicationStep(t) \/ WithStep(t) \/ NewStep(t) \/ FreeStep(t), UNCHANGED hooks
  PROVE  Locked'
<1>1. ASSUME NEW id \in Ids, CallWith(t, id) PROVE Locked'
  <2>1. Pushed(t, CallWithFrame(id)) /\ MayCall(t) /\ UNCHANGED owner
    BY <1>1, Calls DEF CallWith
  <2>2. ~HoldsPool(CallWithFrame(id)) /\ ~HoldsInstance(CallWithFrame(id))
    BY DEF HoldsPool, HoldsInstance, CallWithFrame
  <2> QED
    BY <2>1, <2>2, LockedPush
<1>2. ASSUME NEW id \in Ids, CallFree(t, id) PROVE Locked'
  <2>1. Pushed(t, CallFreeFrame(id)) /\ MayCall(t) /\ UNCHANGED owner
    BY <1>2, Calls DEF CallFree
  <2>2. ~HoldsPool(CallFreeFrame(id)) /\ ~HoldsInstance(CallFreeFrame(id))
    BY DEF HoldsPool, HoldsInstance, CallFreeFrame
  <2> QED
    BY <2>1, <2>2, LockedPush
<1>3. ASSUME NEW k \in Kinds, NEW n \in Instances, CallNew(t, k, n) PROVE Locked'
  <2>1. Pushed(t, CallNewFrame(k, n)) /\ MayCall(t) /\ UNCHANGED owner
    BY <1>3, Calls DEF CallNew
  <2>2. ~HoldsPool(CallNewFrame(k, n)) /\ ~HoldsInstance(CallNewFrame(k, n))
    BY DEF HoldsPool, HoldsInstance, CallNewFrame
  <2> QED
    BY <2>1, <2>2, LockedPush
<1>4. ASSUME WithLock(t) PROVE Locked'
  <2>1. Turn(t, "with", "lock", "check") /\ Busy(t)
    BY <1>4, Turns DEF Turn, HeadMoves
  <2>2. Call(t).id \in Ids
    BY <2>1, CallFacts DEF Turn
  <2>3. LockOf(Call(t).id) \in Locks /\ LockOf(Call(t).id) # PoolLock
    BY <2>2, IdFacts
  <2>4. Acquire(t, LockOf(Call(t).id))
    BY <1>4 DEF WithLock, FreeLocks
  <2> QED
    BY <2>1, <2>3, <2>4, LockedAcquire DEF Turn, HeadMoves, HoldsPool, HoldsInstance
<1>5. ASSUME WithInvalid(t) PROVE Locked'
  <2>1. Turn(t, "with", "check", "unlock") /\ Busy(t)
    BY <1>5, Turns DEF Turn, HeadMoves
  <2> QED
    BY <1>5, <2>1, LockedSame DEF WithInvalid, Turn, HeadMoves, HoldsPool, HoldsInstance
<1>6. ASSUME WithBusy(t) PROVE Locked'
  <2>1. Turn(t, "with", "check", "unlock") /\ Busy(t)
    BY <1>6, Turns DEF Turn, HeadMoves
  <2> QED
    BY <1>6, <2>1, LockedSame DEF WithBusy, Turn, HeadMoves, HoldsPool, HoldsInstance
<1>7. ASSUME WithBorrow(t) PROVE Locked'
  <2>1. Turn(t, "with", "check", "run") /\ Busy(t)
    BY <1>7, Turns DEF Turn, HeadMoves
  <2> QED
    BY <1>7, <2>1, LockedSame DEF WithBorrow, Turn, HeadMoves, HoldsPool, HoldsInstance
<1>8. ASSUME WithDone(t) PROVE Locked'
  <2>1. Turn(t, "with", "run", "unlock") /\ Busy(t)
    BY <1>8, Turns DEF Turn, HeadMoves
  <2> QED
    BY <1>8, <2>1, LockedSame DEF WithDone, Turn, HeadMoves, HoldsPool, HoldsInstance
<1>9. ASSUME WithUnlock(t) PROVE Locked'
  <2>1. Popped(t) /\ Call(t).op = "with" /\ Call(t).at = "unlock" /\ Release(LockOf(Call(t).id))
    BY <1>9, Returns DEF WithUnlock
  <2>2. Busy(t) /\ (hooks = "mutex" => ~Busy(t)') /\ \A u \in Threads : u # t => stack'[u] = stack[u]
    BY <2>1, PoppedRest DEF Popped
  <2>3. LockOf(Call(t).id) \in Locks /\ LockOf(Call(t).id) # PoolLock
    BY <2>1, <2>2, CallFacts, IdFacts
  <2> QED
    BY <2>1, <2>2, <2>3, LockedRelease DEF HoldsPool, HoldsInstance
<1>10. ASSUME NewPool(t) PROVE Locked'
  <2>1. Turn(t, "new", "pool", "scan") /\ Busy(t)
    BY <1>10, Turns DEF Turn, HeadMoves
  <2>3. PoolLock \in Locks
    BY IdFacts
  <2>4. Acquire(t, PoolLock)
    BY <1>10 DEF NewPool, FreeLocks
  <2> QED
    BY <2>1, <2>3, <2>4, LockedAcquire DEF Turn, HeadMoves, HoldsPool, HoldsInstance
<1>11. ASSUME NewScan(t) PROVE Locked'
  <2>1. PICK i \in Ids : HeadMoves(t, i, "write") /\ Call(t).op = "new" /\ Call(t).at = "scan"
    BY <1>11, ScanTurns
  <2> QED
    BY <1>11, <2>1, LockedSame DEF NewScan, HeadMoves, HoldsPool, HoldsInstance
<1>12. ASSUME NewFull(t) PROVE Locked'
  <2>1. Turn(t, "new", "scan", "unpool") /\ Busy(t)
    BY <1>12, Turns DEF Turn, HeadMoves
  <2> QED
    BY <1>12, <2>1, LockedSame DEF NewFull, Turn, HeadMoves, HoldsPool, HoldsInstance
<1>13. ASSUME NewWrite(t) PROVE Locked'
  <2>1. Turn(t, "new", "write", "publish") /\ Busy(t)
    BY <1>13, Turns DEF Turn, HeadMoves
  <2> QED
    BY <1>13, <2>1, LockedSame DEF NewWrite, Turn, HeadMoves, HoldsPool, HoldsInstance
<1>14. ASSUME NewPublish(t) PROVE Locked'
  <2>1. Turn(t, "new", "publish", "unpool") /\ Busy(t)
    BY <1>14, Turns DEF Turn, HeadMoves
  <2> QED
    BY <1>14, <2>1, LockedSame DEF NewPublish, Turn, HeadMoves, HoldsPool, HoldsInstance
<1>15. ASSUME NewReturn(t) PROVE Locked'
  <2>1. Popped(t) /\ Call(t).op = "new" /\ Call(t).at = "unpool" /\ Release(PoolLock)
    BY <1>15, Returns DEF NewReturn
  <2>2. Busy(t) /\ (hooks = "mutex" => ~Busy(t)') /\ \A u \in Threads : u # t => stack'[u] = stack[u]
    BY <2>1, PoppedRest DEF Popped
  <2>3. PoolLock \in Locks
    BY <2>1, <2>2, CallFacts, IdFacts
  <2> QED
    BY <2>1, <2>2, <2>3, LockedRelease DEF HoldsPool, HoldsInstance
<1>16. ASSUME FreeLock(t) PROVE Locked'
  <2>1. Turn(t, "free", "lock", "pool") /\ Busy(t)
    BY <1>16, Turns DEF Turn, HeadMoves
  <2>2. Call(t).id \in Ids
    BY <2>1, CallFacts DEF Turn
  <2>3. LockOf(Call(t).id) \in Locks /\ LockOf(Call(t).id) # PoolLock
    BY <2>2, IdFacts
  <2>4. Acquire(t, LockOf(Call(t).id))
    BY <1>16 DEF FreeLock, FreeLocks
  <2> QED
    BY <2>1, <2>3, <2>4, LockedAcquire DEF Turn, HeadMoves, HoldsPool, HoldsInstance
<1>17. ASSUME FreePool(t) PROVE Locked'
  <2>1. Turn(t, "free", "pool", "drop") /\ Busy(t)
    BY <1>17, Turns DEF Turn, HeadMoves
  <2>3. PoolLock \in Locks
    BY IdFacts
  <2>4. Acquire(t, PoolLock)
    BY <1>17 DEF FreePool, FreeLocks
  <2> QED
    BY <2>1, <2>3, <2>4, LockedAcquire DEF Turn, HeadMoves, HoldsPool, HoldsInstance
<1>18. ASSUME FreeNothing(t) PROVE Locked'
  <2>1. Turn(t, "free", "drop", "unpool") /\ Busy(t)
    BY <1>18, Turns DEF Turn, HeadMoves
  <2> QED
    BY <1>18, <2>1, LockedSame DEF FreeNothing, Turn, HeadMoves, HoldsPool, HoldsInstance
<1>19. ASSUME FreeDrop(t) PROVE Locked'
  <2>1. Turn(t, "free", "drop", "clear") /\ Busy(t)
    BY <1>19, Turns DEF Turn, HeadMoves
  <2> QED
    BY <1>19, <2>1, LockedSame DEF FreeDrop, Turn, HeadMoves, HoldsPool, HoldsInstance
<1>20. ASSUME FreeClear(t) PROVE Locked'
  <2>1. Turn(t, "free", "clear", "unpool") /\ Busy(t)
    BY <1>20, Turns DEF Turn, HeadMoves
  <2> QED
    BY <1>20, <2>1, LockedSame DEF FreeClear, Turn, HeadMoves, HoldsPool, HoldsInstance
<1>21. ASSUME FreeUnpool(t) PROVE Locked'
  <2>1. Turn(t, "free", "unpool", "unlock") /\ Busy(t)
    BY <1>21, Turns DEF Turn, HeadMoves
  <2>3. PoolLock \in Locks
    BY IdFacts
  <2>4. Release(PoolLock)
    BY <1>21 DEF FreeUnpool
  <2> QED
    BY <2>1, <2>3, <2>4, LockedRelease DEF Turn, HeadMoves, HoldsPool, HoldsInstance
<1>22. ASSUME FreeUnlock(t) PROVE Locked'
  <2>1. Popped(t) /\ Call(t).op = "free" /\ Call(t).at = "unlock" /\ Release(LockOf(Call(t).id))
    BY <1>22, Returns DEF FreeUnlock
  <2>2. Busy(t) /\ (hooks = "mutex" => ~Busy(t)') /\ \A u \in Threads : u # t => stack'[u] = stack[u]
    BY <2>1, PoppedRest DEF Popped
  <2>3. LockOf(Call(t).id) \in Locks /\ LockOf(Call(t).id) # PoolLock
    BY <2>1, <2>2, CallFacts, IdFacts
  <2> QED
    BY <2>1, <2>2, <2>3, LockedRelease DEF HoldsPool, HoldsInstance
<1> QED
  BY <1>1, <1>2, <1>3, <1>4, <1>5, <1>6, <1>7, <1>8, <1>9, <1>10, <1>11, <1>12, <1>13, <1>14,
     <1>15, <1>16, <1>17, <1>18, <1>19, <1>20, <1>21, <1>22 DEF ApplicationStep, WithStep,
     NewStep, FreeStep


-----------------------------------------------------------------------------
(* One call at a time is in the pool's section.                             *)
LEMMA PoolAlone ==
  ASSUME TypeOK, Nested, Locked, NEW t \in Threads, NEW u \in Threads, Busy(t), Busy(u),
         HoldsPool(Call(t)), HoldsPool(Call(u))
  PROVE  t = u
<1>1. hooks \in {"mutex", "nothing"} /\ PoolLock \in Locks
  BY PoolAssumption, IdFacts DEF TypeOK
<1>2. CASE hooks = "mutex"
  BY <1>1, <1>2 DEF Locked
<1>3. CASE hooks = "nothing"
  BY <1>3 DEF Nested
<1> QED
  BY <1>1, <1>2, <1>3

(* A call that runs and one that holds the same instance's lock are of one  *)
(* thread.                                                                  *)
LEMMA InstanceAlone ==
  ASSUME TypeOK, Nested, Locked, NEW t \in Threads, NEW u \in Threads,
         Busy(t), HoldsInstance(Call(t)), Call(t).id \in Ids,
         NEW k \in DOMAIN stack[u], stack[u][k].op = "with", stack[u][k].at = "run",
         stack[u][k].id = Call(t).id
  PROVE  u = t /\ (hooks = "mutex" => k = 1)
<1>1. hooks \in {"mutex", "nothing"} /\ LockOf(Call(t).id) \in Locks /\ LockOf(Call(t).id) # PoolLock
  BY PoolAssumption, IdFacts DEF TypeOK
<1>2. Busy(u)
  BY StackFacts
<1>3. CASE hooks = "mutex"
  <2>1. k = 1
    BY <1>3 DEF Nested
  <2>2. Call(u) = stack[u][k] /\ HoldsInstance(Call(u))
    BY <2>1, <1>2, StackFacts DEF HoldsInstance
  <2>3. owner[LockOf(Call(t).id)] = t /\ owner[LockOf(Call(t).id)] = u
    BY <1>1, <1>2, <1>3, <2>2 DEF Locked
  <2> QED
    BY <2>1, <2>3
<1>4. CASE hooks = "nothing"
  BY <1>2, <1>4 DEF Nested
<1> QED
  BY <1>1, <1>3, <1>4

(* A free that has the instance's lock finds no call running on the         *)
(* instance.                                                                *)
LEMMA NotFreedInUse ==
  ASSUME TypeOK, Nested, Locked, Disciplined, NEW t \in Threads, NEW u \in Threads,
         Busy(t), Call(t).op = "free", HoldsInstance(Call(t)),
         NEW k \in DOMAIN stack[u], stack[u][k].op = "with", stack[u][k].at = "run"
  PROVE  stack[u][k].id # Call(t).id
<1> SUFFICES ASSUME stack[u][k].id = Call(t).id PROVE FALSE
  OBVIOUS
<1>1. Call(t).id \in Ids /\ Call(t) = stack[t][1]
  BY CallFacts, StackFacts
<1>2. u = t
  BY <1>1, InstanceAlone
<1>3. k # 1
  BY <1>1, <1>2
<1> QED
  BY <1>2, <1>3 DEF Disciplined

(* No two calls run on one slot, whatever threads they are of.              *)
LEMMA UsedOnce ==
  ASSUME TypeOK, Nested, Locked, Borrowed, NEW t \in Threads, NEW u \in Threads,
         NEW j \in DOMAIN stack[t], stack[t][j].op = "with", stack[t][j].at = "run",
         NEW k \in DOMAIN stack[u], stack[u][k].op = "with", stack[u][k].at = "run",
         stack[t][j].id = stack[u][k].id
  PROVE  t = u /\ j = k
<1>1. hooks \in {"mutex", "nothing"} /\ Busy(t) /\ Busy(u)
  BY PoolAssumption, StackFacts DEF TypeOK
<1>2. t = u
  <2>1. CASE hooks = "mutex"
    <3>1. j = 1
      BY <2>1 DEF Nested
    <3>2. Call(t) = stack[t][j] /\ HoldsInstance(Call(t)) /\ Call(t).id \in Ids
      BY <3>1, <1>1, StackFacts, CallFacts DEF HoldsInstance
    <3> QED
      BY <1>1, <3>2, InstanceAlone
  <2>2. CASE hooks = "nothing"
    BY <1>1, <2>2 DEF Nested
  <2> QED
    BY <1>1, <2>1, <2>2
<1> QED
  BY <1>2 DEF Borrowed

(* A call that creates is one.                                              *)
LEMMA CreatingFacts ==
  ASSUME TypeOK, NEW t \in Threads, Busy(t), Call(t).op = "new"
  PROVE  Creating
<1>1. Call(t) \in Frames
  BY StackFacts DEF Frames
<1> QED
  BY <1>1 DEF Creating

(* A call in progress is one.                                               *)
LEMMA FramesFacts ==
  ASSUME NEW t \in Threads, NEW k \in DOMAIN stack[t]
  PROVE  stack[t][k] \in Frames
BY DEF Frames

(* A step that starts no creation leaves none where none was.               *)
LEMMA CreatingKept ==
  ASSUME NEW t \in Threads, \A u \in Threads : u # t => stack'[u] = stack[u],
         \A k \in DOMAIN stack'[t] : stack'[t][k].op = "new" =>
           \E j \in DOMAIN stack[t] : stack[t][j].op = "new"
  PROVE  Creating' => Creating
<1> SUFFICES ASSUME Creating' PROVE Creating
  OBVIOUS
<1>1. PICK u \in Threads : \E k \in DOMAIN stack'[u] : stack'[u][k].op = "new"
  BY DEF Creating, Frames
<1>2. PICK k \in DOMAIN stack'[u] : stack'[u][k].op = "new"
  BY <1>1
<1>3. \E j \in DOMAIN stack[u] : stack[u][j].op = "new"
  BY <1>2
<1> QED
  BY <1>3 DEF Creating, Frames

(* The calls of the other threads stay.                                     *)
LEMMA SameHeads ==
  ASSUME NEW t, \A u \in Threads : u # t => stack'[u] = stack[u]
  PROVE  \A u \in Threads : u # t => (Busy(u)' <=> Busy(u)) /\ Call(u)' = Call(u)
BY DEF Busy, Call

-----------------------------------------------------------------------------
(* Disciplined, when a call goes on.                                        *)
LEMMA DisciplinedMoves ==
  ASSUME TypeOK, Nested, Disciplined, NEW t \in Threads, NEW i, NEW a, HeadMoves(t, i, a),
         UNCHANGED live, Call(t).op # "new" => i = Call(t).id
  PROVE  Disciplined'
<1>h. \A u \in Threads : u # t => stack'[u] = stack[u] /\ (Busy(u)' <=> Busy(u)) /\ Call(u)' = Call(u)
  BY SameHeads DEF HeadMoves
<1>c. Creating' => Creating
  BY CreatingKept DEF HeadMoves
<1>1. ASSUME NEW u \in Threads, NEW k \in DOMAIN stack'[u], stack'[u][k].op = "with",
             live'[stack'[u][k].id] = None
      PROVE  ~Creating'
  <2>1. k \in DOMAIN stack[u] /\ stack[u][k].op = "with" /\ stack[u][k].id = stack'[u][k].id
    BY <1>1 DEF HeadMoves
  <2> QED
    BY <2>1, <1>1, <1>c DEF Disciplined
<1>2. \A u \in Threads : Busy(u)' /\ Call(u)'.op = "free" =>
        Busy(u) /\ Call(u).op = "free" /\ Call(u)'.inst = Call(u).inst /\ Call(u)'.id = Call(u).id
  BY <1>h DEF HeadMoves
<1>3. ASSUME NEW u \in Threads, Busy(u)', Call(u)'.op = "free"
      PROVE  /\ Call(u)'.inst = None => ~Creating'
             /\ \A k \in DOMAIN stack'[u] : k # 1 => stack'[u][k].id # Call(u)'.id
             /\ \A v \in Threads : Busy(v)' /\ Call(v)'.op = "free" /\ Call(v)'.id = Call(u)'.id => v = u
  <2>1. \A k \in DOMAIN stack'[u] : k # 1 => k \in DOMAIN stack[u] /\ stack'[u][k] = stack[u][k]
    BY <1>h DEF HeadMoves
  <2> QED
    BY <1>2, <1>3, <1>c, <2>1 DEF Disciplined
<1> QED
  BY <1>1, <1>3 DEF Disciplined

(* Disciplined, when a call starts.                                         *)
LEMMA DisciplinedPush ==
  ASSUME TypeOK, Nested, Disciplined, NEW t \in Threads, NEW f, Pushed(t, f), MayCall(t),
         \A u \in Threads : \A k \in DOMAIN stack[u] :
           stack[u][k].op = "with" /\ live'[stack[u][k].id] = None => ~Creating',
         \A u \in Threads : Busy(u) /\ Call(u).op = "free" /\ Call(u).inst = None => ~Creating',
         f.op = "with" /\ live'[f.id] = None => ~Creating',
         f.op = "free" => /\ f.inst = None => ~Creating'
                          /\ \A k \in DOMAIN stack[t] : stack[t][k].id # f.id
                          /\ \A u \in Threads : Busy(u) /\ Call(u).op = "free" => Call(u).id # f.id
  PROVE  Disciplined'
<1>h. \A u \in Threads : u # t => stack'[u] = stack[u] /\ (Busy(u)' <=> Busy(u)) /\ Call(u)' = Call(u)
  BY SameHeads DEF Pushed
<1>t. Call(t)' = f /\ Busy(t)' /\ stack'[t][1] = f
  BY DEF Pushed
<1>p. \A k \in DOMAIN stack'[t] : k # 1 => k - 1 \in DOMAIN stack[t] /\ stack'[t][k] = stack[t][k - 1]
  BY DEF Pushed
<1>1. ASSUME NEW u \in Threads, NEW k \in DOMAIN stack'[u], stack'[u][k].op = "with",
             live'[stack'[u][k].id] = None
      PROVE  ~Creating'
  <2>1. CASE u = t /\ k = 1
    BY <2>1, <1>1, <1>t
  <2>2. CASE u = t /\ k # 1
    BY <2>2, <1>1, <1>p
  <2>3. CASE u # t
    BY <2>3, <1>1, <1>h
  <2> QED
    BY <2>1, <2>2, <2>3
<1>3. ASSUME NEW u \in Threads, Busy(u)', Call(u)'.op = "free"
      PROVE  /\ Call(u)'.inst = None => ~Creating'
             /\ \A k \in DOMAIN stack'[u] : k # 1 => stack'[u][k].id # Call(u)'.id
             /\ \A v \in Threads : Busy(v)' /\ Call(v)'.op = "free" /\ Call(v)'.id = Call(u)'.id => v = u
  <2>1. CASE u = t
    <3>1. \A k \in DOMAIN stack'[u] : k # 1 => stack'[u][k].id # f.id
      BY <2>1, <1>3, <1>t, <1>p
    <3> QED
      BY <2>1, <3>1, <1>3, <1>t, <1>h
  <2>2. CASE u # t
    BY <2>2, <1>3, <1>t, <1>h DEF Disciplined
  <2> QED
    BY <2>1, <2>2
<1> QED
  BY <1>1, <1>3 DEF Disciplined

(* Disciplined, when a call returns.                                        *)
LEMMA DisciplinedPop ==
  ASSUME TypeOK, Nested, Disciplined, NEW t \in Threads, Popped(t),
         \A id \in Ids : live'[id] = None => live[id] = None
  PROVE  Disciplined'
<1>h. \A u \in Threads : u # t => stack'[u] = stack[u] /\ (Busy(u)' <=> Busy(u)) /\ Call(u)' = Call(u)
  BY SameHeads DEF Popped
<1>p. \A k \in DOMAIN stack'[t] : k + 1 \in DOMAIN stack[t] /\ stack'[t][k] = stack[t][k + 1]
  BY DEF Popped
<1>t. ~(Busy(t)' /\ Call(t)'.op = "free")
  BY PoppedRest
<1>c. Creating' => Creating
  BY <1>h, <1>p, CreatingKept
<1>1. ASSUME NEW u \in Threads, NEW k \in DOMAIN stack'[u], stack'[u][k].op = "with",
             live'[stack'[u][k].id] = None
      PROVE  ~Creating'
  <2>1. PICK j \in DOMAIN stack[u] : stack[u][j] = stack'[u][k]
    BY <1>1, <1>h, <1>p
  <2>2. stack[u][j].id \in Ids
    BY <2>1, <1>1 DEF Nested, WellFormed
  <2> QED
    BY <2>1, <2>2, <1>1, <1>c DEF Disciplined
<1>3. ASSUME NEW u \in Threads, Busy(u)', Call(u)'.op = "free"
      PROVE  /\ Call(u)'.inst = None => ~Creating'
             /\ \A k \in DOMAIN stack'[u] : k # 1 => stack'[u][k].id # Call(u)'.id
             /\ \A v \in Threads : Busy(v)' /\ Call(v)'.op = "free" /\ Call(v)'.id = Call(u)'.id => v = u
  BY <1>3, <1>t, <1>h, <1>c DEF Disciplined
<1> QED
  BY <1>1, <1>3 DEF Disciplined

(* No step breaks Disciplined.                                              *)
LEMMA DisciplinedStep ==
  ASSUME TypeOK, Nested, Disciplined, NEW t \in Threads,
         ApplicationStep(t) \/ WithStep(t) \/ NewStep(t) \/ FreeStep(t), UNCHANGED hooks
  PROVE  Disciplined'
<1>1. ASSUME NEW id \in Ids, CallWith(t, id) PROVE Disciplined'
  <2>1. Pushed(t, CallWithFrame(id)) /\ MayCall(t)
    BY <1>1, Calls DEF CallWith
  <2>c. Creating' => Creating
    <3>1. \A k \in DOMAIN stack'[t] : stack'[t][k].op = "new" =>
            \E j \in DOMAIN stack[t] : stack[t][j].op = "new"
      BY <2>1 DEF Pushed, CallWithFrame
    <3> QED
      BY <2>1, <3>1, CreatingKept DEF Pushed
  <2>2. UNCHANGED live /\ (live[id] = None => ~Creating)
    BY <1>1 DEF CallWith
  <2> QED
    BY <2>1, <2>2, <2>c, DisciplinedPush DEF CallWithFrame, Disciplined
<1>2. ASSUME NEW id \in Ids, CallFree(t, id) PROVE Disciplined'
  <2>1. Pushed(t, CallFreeFrame(id)) /\ MayCall(t)
    BY <1>2, Calls DEF CallFree
  <2>c. Creating' => Creating
    <3>1. \A k \in DOMAIN stack'[t] : stack'[t][k].op = "new" =>
            \E j \in DOMAIN stack[t] : stack[t][j].op = "new"
      BY <2>1 DEF Pushed, CallFreeFrame
    <3> QED
      BY <2>1, <3>1, CreatingKept DEF Pushed
  <2>2. /\ Creating => live[id] # None /\ CallsOn(id, "with") = {}
        /\ CallsOn(id, "free") = {} /\ \A j \in DOMAIN stack[t] : stack[t][j].id # id
        /\ live' = [live EXCEPT ![id] = None]
    BY <1>2 DEF CallFree
  <2>3. ASSUME NEW u \in Threads, NEW j \in DOMAIN stack[u], stack[u][j].op = "with",
               live'[stack[u][j].id] = None
        PROVE  ~Creating'
    <3>1. CASE stack[u][j].id = id
      <4>1. stack[u][j] \in CallsOn(id, "with")
        BY <3>1, <2>3, FramesFacts DEF CallsOn
      <4> QED
        BY <4>1, <2>2, <2>c
    <3>2. CASE stack[u][j].id # id
      <4>1. live[stack[u][j].id] = None
        BY <3>2, <2>2, <2>3 DEF TypeOK, Nested, WellFormed
      <4> QED
        BY <4>1, <2>3, <2>c DEF Disciplined
    <3> QED
      BY <3>1, <3>2
  <2>4. \A u \in Threads : Busy(u) /\ Call(u).op = "free" => Call(u).id # id
    BY <2>2, StackFacts, FramesFacts DEF CallsOn
  <2>5. \A u \in Threads : Busy(u) /\ Call(u).op = "free" /\ Call(u).inst = None => ~Creating'
    BY <2>c DEF Disciplined
  <2>6. live[id] = None => ~Creating'
    BY <2>2, <2>c
  <2> QED
    BY <2>1, <2>2, <2>3, <2>4, <2>5, <2>6, DisciplinedPush DEF CallFreeFrame
<1>3. ASSUME NEW k \in Kinds, NEW n \in Instances, CallNew(t, k, n) PROVE Disciplined'
  <2>1. Pushed(t, CallNewFrame(k, n)) /\ MayCall(t) /\ UNCHANGED live /\ ~Overtaken
    BY <1>3, Calls DEF CallNew
  <2>2. \A u \in Threads : \A j \in DOMAIN stack[u] :
          ~(stack[u][j].op = "with" /\ live[stack[u][j].id] = None)
          /\ ~(stack[u][j].op = "free" /\ stack[u][j].inst = None)
    BY <2>1, FramesFacts DEF Overtaken
  <2>3. \A u \in Threads : Busy(u) => ~(Call(u).op = "free" /\ Call(u).inst = None)
    BY <2>2, StackFacts
  <2> QED
    BY <2>1, <2>2, <2>3, DisciplinedPush DEF CallNewFrame
<1>4. ASSUME WithLock(t) PROVE Disciplined'
  <2>1. HeadMoves(t, Call(t).id, "check") /\ UNCHANGED live
    BY <1>4, Turns DEF Turn, WithLock
  <2> QED
    BY <2>1, DisciplinedMoves
<1>5. ASSUME WithInvalid(t) PROVE Disciplined'
  <2>1. HeadMoves(t, Call(t).id, "unlock") /\ UNCHANGED live
    BY <1>5, Turns DEF Turn, WithInvalid
  <2> QED
    BY <2>1, DisciplinedMoves
<1>6. ASSUME WithBusy(t) PROVE Disciplined'
  <2>1. HeadMoves(t, Call(t).id, "unlock") /\ UNCHANGED live
    BY <1>6, Turns DEF Turn, WithBusy
  <2> QED
    BY <2>1, DisciplinedMoves
<1>7. ASSUME WithBorrow(t) PROVE Disciplined'
  <2>1. HeadMoves(t, Call(t).id, "run") /\ UNCHANGED live
    BY <1>7, Turns DEF Turn, WithBorrow
  <2> QED
    BY <2>1, DisciplinedMoves
<1>8. ASSUME WithDone(t) PROVE Disciplined'
  <2>1. HeadMoves(t, Call(t).id, "unlock") /\ UNCHANGED live
    BY <1>8, Turns DEF Turn, WithDone
  <2> QED
    BY <2>1, DisciplinedMoves
<1>9. ASSUME WithUnlock(t) PROVE Disciplined'
  BY <1>9, Returns, DisciplinedPop DEF WithUnlock
<1>10. ASSUME NewPool(t) PROVE Disciplined'
  <2>1. HeadMoves(t, Call(t).id, "scan") /\ UNCHANGED live
    BY <1>10, Turns DEF Turn, NewPool
  <2> QED
    BY <2>1, DisciplinedMoves
<1>11. ASSUME NewScan(t) PROVE Disciplined'
  <2>1. PICK i \in Ids : HeadMoves(t, i, "write") /\ Call(t).op = "new"
    BY <1>11, ScanTurns
  <2> QED
    BY <1>11, <2>1, DisciplinedMoves DEF NewScan
<1>12. ASSUME NewFull(t) PROVE Disciplined'
  <2>1. HeadMoves(t, Call(t).id, "unpool") /\ UNCHANGED live
    BY <1>12, Turns DEF Turn, NewFull
  <2> QED
    BY <2>1, DisciplinedMoves
<1>13. ASSUME NewWrite(t) PROVE Disciplined'
  <2>1. HeadMoves(t, Call(t).id, "publish") /\ UNCHANGED live
    BY <1>13, Turns DEF Turn, NewWrite
  <2> QED
    BY <2>1, DisciplinedMoves
<1>14. ASSUME NewPublish(t) PROVE Disciplined'
  <2>1. HeadMoves(t, Call(t).id, "unpool") /\ UNCHANGED live
    BY <1>14, Turns DEF Turn, NewPublish
  <2> QED
    BY <2>1, DisciplinedMoves
<1>15. ASSUME NewReturn(t) PROVE Disciplined'
  <2>1. Popped(t) /\ Call(t) \in Frame /\ Call(t).op = "new"
    BY <1>15, Returns, StackFacts DEF Popped
  <2>2. Call(t).inst # None
    BY <2>1, CallFacts DEF WellFormed, Popped
  <2>3. \A id \in Ids : live'[id] = None => live[id] = None
    BY <1>15, <2>2 DEF NewReturn
  <2> QED
    BY <2>1, <2>3, DisciplinedPop
<1>16. ASSUME FreeLock(t) PROVE Disciplined'
  <2>1. HeadMoves(t, Call(t).id, "pool") /\ UNCHANGED live
    BY <1>16, Turns DEF Turn, FreeLock
  <2> QED
    BY <2>1, DisciplinedMoves
<1>17. ASSUME FreePool(t) PROVE Disciplined'
  <2>1. HeadMoves(t, Call(t).id, "drop") /\ UNCHANGED live
    BY <1>17, Turns DEF Turn, FreePool
  <2> QED
    BY <2>1, DisciplinedMoves
<1>18. ASSUME FreeNothing(t) PROVE Disciplined'
  <2>1. HeadMoves(t, Call(t).id, "unpool") /\ UNCHANGED live
    BY <1>18, Turns DEF Turn, FreeNothing
  <2> QED
    BY <2>1, DisciplinedMoves
<1>19. ASSUME FreeDrop(t) PROVE Disciplined'
  <2>1. HeadMoves(t, Call(t).id, "clear") /\ UNCHANGED live
    BY <1>19, Turns DEF Turn, FreeDrop
  <2> QED
    BY <2>1, DisciplinedMoves
<1>20. ASSUME FreeClear(t) PROVE Disciplined'
  <2>1. HeadMoves(t, Call(t).id, "unpool") /\ UNCHANGED live
    BY <1>20, Turns DEF Turn, FreeClear
  <2> QED
    BY <2>1, DisciplinedMoves
<1>21. ASSUME FreeUnpool(t) PROVE Disciplined'
  <2>1. HeadMoves(t, Call(t).id, "unlock") /\ UNCHANGED live
    BY <1>21, Turns DEF Turn, FreeUnpool
  <2> QED
    BY <2>1, DisciplinedMoves
<1>22. ASSUME FreeUnlock(t) PROVE Disciplined'
  BY <1>22, Returns, DisciplinedPop DEF FreeUnlock
<1> QED
  BY <1>1, <1>2, <1>3, <1>4, <1>5, <1>6, <1>7, <1>8, <1>9, <1>10, <1>11, <1>12, <1>13, <1>14,
     <1>15, <1>16, <1>17, <1>18, <1>19, <1>20, <1>21, <1>22 DEF ApplicationStep, WithStep,
     NewStep, FreeStep


-----------------------------------------------------------------------------
(* Borrowed, when a call goes on and touches the slot of no other that      *)
(* runs.                                                                    *)
LEMMA BorrowedMoves ==
  ASSUME TypeOK, Nested, Borrowed, NEW t \in Threads, NEW i, NEW a, HeadMoves(t, i, a),
         UNCHANGED live, Call(t).op # "new" => i = Call(t).id,
         \A u \in Threads : \A k \in DOMAIN stack[u] :
           stack[u][k].op = "with" /\ ~(u = t /\ k = 1) /\ stack[u][k].at = "run" =>
             occupied'[stack[u][k].id] /\ borrow_flag'[stack[u][k].id],
         \A u \in Threads : \A k \in DOMAIN stack[u] :
           stack[u][k].op = "with" /\ stack[u][k].inst # None =>
             value'[stack[u][k].id] \in {None, stack[u][k].inst},
         Call(t).op = "with" /\ a = "run" =>
           /\ occupied'[i] /\ borrow_flag'[i]
           /\ \A k \in DOMAIN stack[t] : k # 1 => stack[t][k].id # i
  PROVE  Borrowed'
<1>h. \A u \in Threads : u # t => stack'[u] = stack[u]
  BY DEF HeadMoves
<1>t. /\ 1 \in DOMAIN stack[t] /\ DOMAIN stack'[t] = DOMAIN stack[t]
      /\ \A k \in DOMAIN stack[t] : k # 1 => stack'[t][k] = stack[t][k]
      /\ stack'[t][1].op = stack[t][1].op /\ stack'[t][1].inst = stack[t][1].inst
      /\ stack'[t][1].id = i /\ stack'[t][1].at = a /\ Call(t) = stack[t][1]
  BY DEF HeadMoves
<1>1. ASSUME NEW u \in Threads, NEW k \in DOMAIN stack'[u], stack'[u][k].op = "with"
      PROVE  /\ stack'[u][k].at = "run" => occupied'[stack'[u][k].id] /\ borrow_flag'[stack'[u][k].id]
             /\ stack'[u][k].inst # None =>
                  /\ live'[stack'[u][k].id] \in {None, stack'[u][k].inst}
                  /\ value'[stack'[u][k].id] \in {None, stack'[u][k].inst}
  <2>1. CASE u = t /\ k = 1
    BY <2>1, <1>1, <1>t DEF Borrowed
  <2>2. CASE ~(u = t /\ k = 1)
    <3>1. k \in DOMAIN stack[u] /\ stack'[u][k] = stack[u][k]
      BY <2>2, <1>1, <1>t, <1>h
    <3> QED
      BY <3>1, <2>2, <1>1 DEF Borrowed
  <2> QED
    BY <2>1, <2>2
<1>2. ASSUME NEW u \in Threads, NEW j \in DOMAIN stack'[u], NEW k \in DOMAIN stack'[u],
             stack'[u][j].op = "with", stack'[u][j].at = "run",
             stack'[u][k].op = "with", stack'[u][k].at = "run",
             stack'[u][j].id = stack'[u][k].id
      PROVE  j = k
  <2>1. CASE u # t
    BY <2>1, <1>2, <1>h DEF Borrowed
  <2>2. CASE u = t
    <3>1. CASE j # 1 /\ k # 1
      BY <2>2, <3>1, <1>2, <1>t DEF Borrowed
    <3>2. CASE j = 1 /\ k # 1
      BY <2>2, <3>2, <1>2, <1>t
    <3>3. CASE j # 1 /\ k = 1
      BY <2>2, <3>3, <1>2, <1>t
    <3> QED
      BY <3>1, <3>2, <3>3
  <2> QED
    BY <2>1, <2>2
<1> QED
  BY <1>1, <1>2 DEF Borrowed

(* Borrowed, when a call starts.                                            *)
LEMMA BorrowedPush ==
  ASSUME TypeOK, Nested, Borrowed, NEW t \in Threads, NEW f, Pushed(t, f), UNCHANGED slotVars,
         \A id \in Ids : live'[id] \in {live[id], None}, f.at # "run",
         f.op = "with" /\ f.inst # None =>
           live'[f.id] \in {None, f.inst} /\ value[f.id] \in {None, f.inst}
  PROVE  Borrowed'
<1>h. \A u \in Threads : u # t => stack'[u] = stack[u]
  BY DEF Pushed
<1>t. stack'[t][1] = f
  BY DEF Pushed
<1>p. /\ \A k \in DOMAIN stack'[t] : k # 1 => k - 1 \in DOMAIN stack[t] /\ stack'[t][k] = stack[t][k - 1]
      /\ \A k \in DOMAIN stack'[t] : k \in Int
  BY DEF Pushed
<1>s. occupied' = occupied /\ value' = value /\ borrow_flag' = borrow_flag
  BY DEF slotVars
<1>o. ASSUME NEW u \in Threads, NEW k \in DOMAIN stack[u], stack[u][k].op = "with"
      PROVE  /\ stack[u][k].at = "run" => occupied'[stack[u][k].id] /\ borrow_flag'[stack[u][k].id]
             /\ stack[u][k].inst # None =>
                  /\ live'[stack[u][k].id] \in {None, stack[u][k].inst}
                  /\ value'[stack[u][k].id] \in {None, stack[u][k].inst}
  <2>1. stack[u][k].id \in Ids
    BY <1>o DEF Nested, WellFormed
  <2> QED
    BY <2>1, <1>o, <1>s DEF Borrowed
<1>1. ASSUME NEW u \in Threads, NEW k \in DOMAIN stack'[u], stack'[u][k].op = "with"
      PROVE  /\ stack'[u][k].at = "run" => occupied'[stack'[u][k].id] /\ borrow_flag'[stack'[u][k].id]
             /\ stack'[u][k].inst # None =>
                  /\ live'[stack'[u][k].id] \in {None, stack'[u][k].inst}
                  /\ value'[stack'[u][k].id] \in {None, stack'[u][k].inst}
  <2>1. CASE u = t /\ k = 1
    BY <2>1, <1>1, <1>t, <1>s
  <2>2. CASE u = t /\ k # 1
    BY <2>2, <1>1, <1>p, <1>o
  <2>3. CASE u # t
    BY <2>3, <1>1, <1>h, <1>o
  <2> QED
    BY <2>1, <2>2, <2>3
<1>2. ASSUME NEW u \in Threads, NEW j \in DOMAIN stack'[u], NEW k \in DOMAIN stack'[u],
             stack'[u][j].op = "with", stack'[u][j].at = "run",
             stack'[u][k].op = "with", stack'[u][k].at = "run",
             stack'[u][j].id = stack'[u][k].id
      PROVE  j = k
  <2>1. CASE u # t
    BY <2>1, <1>2, <1>h DEF Borrowed
  <2>2. CASE u = t
    <3>1. j # 1 /\ k # 1
      BY <2>2, <1>2, <1>t
    <3>2. /\ j - 1 \in DOMAIN stack[t] /\ stack'[t][j] = stack[t][j - 1]
          /\ k - 1 \in DOMAIN stack[t] /\ stack'[t][k] = stack[t][k - 1]
      BY <2>2, <3>1, <1>2, <1>p
    <3>3. j - 1 = k - 1
      BY <3>2, <2>2, <1>2 DEF Borrowed
    <3> QED
      BY <2>2, <3>3, <1>p, <1>2
  <2> QED
    BY <2>1, <2>2
<1> QED
  BY <1>1, <1>2 DEF Borrowed

(* Borrowed, when a call returns.                                           *)
LEMMA BorrowedPop ==
  ASSUME TypeOK, Nested, Borrowed, NEW t \in Threads, Popped(t), UNCHANGED slotVars,
         \A u \in Threads : \A k \in DOMAIN stack[u] :
           stack[u][k].op = "with" => live'[stack[u][k].id] = live[stack[u][k].id]
  PROVE  Borrowed'
<1>h. \A u \in Threads : u # t => stack'[u] = stack[u]
  BY DEF Popped
<1>p. /\ \A k \in DOMAIN stack'[t] : k + 1 \in DOMAIN stack[t] /\ stack'[t][k] = stack[t][k + 1]
      /\ \A k \in DOMAIN stack'[t] : k \in Int
  BY DEF Popped
<1>s. occupied' = occupied /\ value' = value /\ borrow_flag' = borrow_flag
  BY DEF slotVars
<1>1. ASSUME NEW u \in Threads, NEW k \in DOMAIN stack'[u], stack'[u][k].op = "with"
      PROVE  /\ stack'[u][k].at = "run" => occupied'[stack'[u][k].id] /\ borrow_flag'[stack'[u][k].id]
             /\ stack'[u][k].inst # None =>
                  /\ live'[stack'[u][k].id] \in {None, stack'[u][k].inst}
                  /\ value'[stack'[u][k].id] \in {None, stack'[u][k].inst}
  <2>1. PICK j \in DOMAIN stack[u] : stack[u][j] = stack'[u][k]
    BY <1>1, <1>h, <1>p
  <2> QED
    BY <2>1, <1>1, <1>s DEF Borrowed
<1>2. ASSUME NEW u \in Threads, NEW j \in DOMAIN stack'[u], NEW k \in DOMAIN stack'[u],
             stack'[u][j].op = "with", stack'[u][j].at = "run",
             stack'[u][k].op = "with", stack'[u][k].at = "run",
             stack'[u][j].id = stack'[u][k].id
      PROVE  j = k
  <2>1. CASE u # t
    BY <2>1, <1>2, <1>h DEF Borrowed
  <2>2. CASE u = t
    <3>2. /\ j + 1 \in DOMAIN stack[t] /\ stack'[t][j] = stack[t][j + 1]
          /\ k + 1 \in DOMAIN stack[t] /\ stack'[t][k] = stack[t][k + 1]
      BY <2>2, <1>2, <1>p
    <3>3. j + 1 = k + 1
      BY <3>2, <2>2, <1>2 DEF Borrowed
    <3> QED
      BY <2>2, <3>3, <1>p, <1>2
  <2> QED
    BY <2>1, <2>2
<1> QED
  BY <1>1, <1>2 DEF Borrowed

(* No call is in progress on the slot of an instance whose id is yet to be  *)
(* returned.                                                                *)
LEMMA NewHasNoUser ==
  ASSUME TypeOK, Nested, Disciplined, Known, NEW t \in Threads, Busy(t), Call(t).op = "new",
         Call(t).id \in Ids, ~occupied[Call(t).id] \/ live[Call(t).id] = None,
         NEW u \in Threads, NEW k \in DOMAIN stack[u], stack[u][k].op = "with"
  PROVE  stack[u][k].id # Call(t).id
<1>1. Creating
  BY CreatingFacts
<1>2. live[Call(t).id] = None
  BY DEF Known
<1> QED
  BY <1>1, <1>2 DEF Disciplined

(* No step breaks Borrowed.                                                 *)
LEMMA BorrowedStep ==
  ASSUME TypeOK, Nested, Locked, Disciplined, Borrowed, Created, Known, NEW t \in Threads,
         ApplicationStep(t) \/ WithStep(t) \/ NewStep(t) \/ FreeStep(t), UNCHANGED hooks
  PROVE  Borrowed'
<1>1. ASSUME NEW id \in Ids, CallWith(t, id) PROVE Borrowed'
  <2>1. Pushed(t, CallWithFrame(id)) /\ UNCHANGED <<slotVars, live>>
    BY <1>1, Calls DEF CallWith
  <2>2. live[id] # None => value[id] = live[id]
    BY DEF Known
  <2> QED
    BY <2>1, <2>2, BorrowedPush DEF CallWithFrame
<1>2. ASSUME NEW id \in Ids, CallFree(t, id) PROVE Borrowed'
  <2>1. Pushed(t, CallFreeFrame(id)) /\ UNCHANGED slotVars /\ live' = [live EXCEPT ![id] = None]
    BY <1>2, Calls DEF CallFree
  <2>2. \A i \in Ids : live'[i] \in {live[i], None}
    BY <2>1 DEF TypeOK
  <2> QED
    BY <2>1, <2>2, BorrowedPush DEF CallFreeFrame
<1>3. ASSUME NEW k \in Kinds, NEW n \in Instances, CallNew(t, k, n) PROVE Borrowed'
  <2>1. Pushed(t, CallNewFrame(k, n)) /\ UNCHANGED <<slotVars, live>>
    BY <1>3, Calls DEF CallNew
  <2> QED
    BY <2>1, BorrowedPush DEF CallNewFrame
<1>4. ASSUME WithLock(t) PROVE Borrowed'
  <2>1. HeadMoves(t, Call(t).id, "check") /\ UNCHANGED live
        /\ Call(t).op = "with" /\ Call(t).at = "lock"
    BY <1>4, Turns DEF Turn, WithLock
  <2>b. Busy(t) /\ Call(t) = stack[t][1] /\ Call(t) \in Frame /\ 1 \in DOMAIN stack[t]
    BY <2>1, StackFacts DEF HeadMoves
  <2>2. \A u \in Threads : \A k \in DOMAIN stack[u] :
           stack[u][k].op = "with" /\ ~(u = t /\ k = 1) /\ stack[u][k].at = "run" =>
             occupied'[stack[u][k].id] /\ borrow_flag'[stack[u][k].id]
    BY <1>4 DEF WithLock, slotVars, Borrowed
  <2>3. \A u \in Threads : \A k \in DOMAIN stack[u] :
           stack[u][k].op = "with" /\ stack[u][k].inst # None =>
             value'[stack[u][k].id] \in {None, stack[u][k].inst}
    BY <1>4 DEF WithLock, slotVars, Borrowed
  <2> QED
    BY <2>1, <2>2, <2>3, BorrowedMoves
<1>5. ASSUME WithInvalid(t) PROVE Borrowed'
  <2>1. HeadMoves(t, Call(t).id, "unlock") /\ UNCHANGED live
        /\ Call(t).op = "with" /\ Call(t).at = "check"
    BY <1>5, Turns DEF Turn, WithInvalid
  <2>b. Busy(t) /\ Call(t) = stack[t][1] /\ Call(t) \in Frame /\ 1 \in DOMAIN stack[t]
    BY <2>1, StackFacts DEF HeadMoves
  <2>2. \A u \in Threads : \A k \in DOMAIN stack[u] :
           stack[u][k].op = "with" /\ ~(u = t /\ k = 1) /\ stack[u][k].at = "run" =>
             occupied'[stack[u][k].id] /\ borrow_flag'[stack[u][k].id]
    BY <1>5 DEF WithInvalid, slotVars, Borrowed
  <2>3. \A u \in Threads : \A k \in DOMAIN stack[u] :
           stack[u][k].op = "with" /\ stack[u][k].inst # None =>
             value'[stack[u][k].id] \in {None, stack[u][k].inst}
    BY <1>5 DEF WithInvalid, slotVars, Borrowed
  <2> QED
    BY <2>1, <2>2, <2>3, BorrowedMoves
<1>6. ASSUME WithBusy(t) PROVE Borrowed'
  <2>1. HeadMoves(t, Call(t).id, "unlock") /\ UNCHANGED live
        /\ Call(t).op = "with" /\ Call(t).at = "check"
    BY <1>6, Turns DEF Turn, WithBusy
  <2>b. Busy(t) /\ Call(t) = stack[t][1] /\ Call(t) \in Frame /\ 1 \in DOMAIN stack[t]
    BY <2>1, StackFacts DEF HeadMoves
  <2>2. \A u \in Threads : \A k \in DOMAIN stack[u] :
           stack[u][k].op = "with" /\ ~(u = t /\ k = 1) /\ stack[u][k].at = "run" =>
             occupied'[stack[u][k].id] /\ borrow_flag'[stack[u][k].id]
    BY <1>6 DEF WithBusy, slotVars, Borrowed
  <2>3. \A u \in Threads : \A k \in DOMAIN stack[u] :
           stack[u][k].op = "with" /\ stack[u][k].inst # None =>
             value'[stack[u][k].id] \in {None, stack[u][k].inst}
    BY <1>6 DEF WithBusy, slotVars, Borrowed
  <2> QED
    BY <2>1, <2>2, <2>3, BorrowedMoves
<1>7. ASSUME WithBorrow(t) PROVE Borrowed'
  <2>1. HeadMoves(t, Call(t).id, "run") /\ UNCHANGED live
        /\ Call(t).op = "with" /\ Call(t).at = "check"
    BY <1>7, Turns DEF Turn, WithBorrow
  <2>b. Busy(t) /\ Call(t) = stack[t][1] /\ Call(t) \in Frame /\ 1 \in DOMAIN stack[t]
    BY <2>1, StackFacts DEF HeadMoves
  <2>i. Call(t).id \in Ids /\ \A u \in Threads : \A k \in DOMAIN stack[u] :
          stack[u][k].op = "with" => stack[u][k].id \in Ids
    BY <2>1, <2>b, CallFacts DEF Nested, WellFormed
  <2>2. \A u \in Threads : \A k \in DOMAIN stack[u] :
           stack[u][k].op = "with" /\ ~(u = t /\ k = 1) /\ stack[u][k].at = "run" =>
             occupied'[stack[u][k].id] /\ borrow_flag'[stack[u][k].id]
    BY <1>7, <2>i DEF WithBorrow, Borrowed, TypeOK
  <2>3. \A u \in Threads : \A k \in DOMAIN stack[u] :
           stack[u][k].op = "with" /\ stack[u][k].inst # None =>
             value'[stack[u][k].id] \in {None, stack[u][k].inst}
    BY <1>7 DEF WithBorrow, Borrowed
  <2>4. ASSUME NEW k \in DOMAIN stack[t], k # 1 PROVE stack[t][k].id # Call(t).id
    <3>1. borrow_flag[stack[t][k].id]
      BY <2>4 DEF Nested, Borrowed
    <3> QED
      BY <1>7, <3>1 DEF WithBorrow
  <2>5. occupied'[Call(t).id] /\ borrow_flag'[Call(t).id]
    BY <1>7, <2>i DEF WithBorrow, TypeOK
  <2> QED
    BY <2>1, <2>2, <2>3, <2>4, <2>5, BorrowedMoves
<1>8. ASSUME WithDone(t) PROVE Borrowed'
  <2>1. HeadMoves(t, Call(t).id, "unlock") /\ UNCHANGED live
        /\ Call(t).op = "with" /\ Call(t).at = "run"
    BY <1>8, Turns DEF Turn, WithDone
  <2>b. Busy(t) /\ Call(t) = stack[t][1] /\ Call(t) \in Frame /\ 1 \in DOMAIN stack[t]
    BY <2>1, StackFacts DEF HeadMoves
  <2>i. Call(t).id \in Ids /\ \A u \in Threads : \A k \in DOMAIN stack[u] :
          stack[u][k].op = "with" => stack[u][k].id \in Ids
    BY <2>1, <2>b, CallFacts DEF Nested, WellFormed
  <2>2. ASSUME NEW u \in Threads, NEW k \in DOMAIN stack[u], stack[u][k].op = "with",
               ~(u = t /\ k = 1), stack[u][k].at = "run"
        PROVE  occupied'[stack[u][k].id] /\ borrow_flag'[stack[u][k].id]
    <3>1. stack[u][k].id # Call(t).id
      BY <2>1, <2>2, <2>b, UsedOnce
    <3> QED
      BY <1>8, <3>1, <2>2, <2>i DEF WithDone, Borrowed, TypeOK
  <2>3. \A u \in Threads : \A k \in DOMAIN stack[u] :
           stack[u][k].op = "with" /\ stack[u][k].inst # None =>
             value'[stack[u][k].id] \in {None, stack[u][k].inst}
    BY <1>8 DEF WithDone, Borrowed
  <2> QED
    BY <2>1, <2>2, <2>3, BorrowedMoves
<1>9. ASSUME WithUnlock(t) PROVE Borrowed'
  BY <1>9, Returns, BorrowedPop DEF WithUnlock
<1>10. ASSUME NewPool(t) PROVE Borrowed'
  <2>1. HeadMoves(t, Call(t).id, "scan") /\ UNCHANGED live
        /\ Call(t).op = "new" /\ Call(t).at = "pool"
    BY <1>10, Turns DEF Turn, NewPool
  <2>b. Busy(t) /\ Call(t) = stack[t][1] /\ Call(t) \in Frame /\ 1 \in DOMAIN stack[t]
    BY <2>1, StackFacts DEF HeadMoves
  <2>2. \A u \in Threads : \A k \in DOMAIN stack[u] :
           stack[u][k].op = "with" /\ ~(u = t /\ k = 1) /\ stack[u][k].at = "run" =>
             occupied'[stack[u][k].id] /\ borrow_flag'[stack[u][k].id]
    BY <1>10 DEF NewPool, slotVars, Borrowed
  <2>3. \A u \in Threads : \A k \in DOMAIN stack[u] :
           stack[u][k].op = "with" /\ stack[u][k].inst # None =>
             value'[stack[u][k].id] \in {None, stack[u][k].inst}
    BY <1>10 DEF NewPool, slotVars, Borrowed
  <2> QED
    BY <2>1, <2>2, <2>3, BorrowedMoves
<1>11. ASSUME NewScan(t) PROVE Borrowed'
  <2>1. PICK i \in Ids : HeadMoves(t, i, "write") /\ Call(t).op = "new"
    BY <1>11, ScanTurns
  <2> QED
    BY <1>11, <2>1, BorrowedMoves DEF NewScan, slotVars, Borrowed
<1>12. ASSUME NewFull(t) PROVE Borrowed'
  <2>1. HeadMoves(t, Call(t).id, "unpool") /\ UNCHANGED live
        /\ Call(t).op = "new" /\ Call(t).at = "scan"
    BY <1>12, Turns DEF Turn, NewFull
  <2>b. Busy(t) /\ Call(t) = stack[t][1] /\ Call(t) \in Frame /\ 1 \in DOMAIN stack[t]
    BY <2>1, StackFacts DEF HeadMoves
  <2>2. \A u \in Threads : \A k \in DOMAIN stack[u] :
           stack[u][k].op = "with" /\ ~(u = t /\ k = 1) /\ stack[u][k].at = "run" =>
             occupied'[stack[u][k].id] /\ borrow_flag'[stack[u][k].id]
    BY <1>12 DEF NewFull, slotVars, Borrowed
  <2>3. \A u \in Threads : \A k \in DOMAIN stack[u] :
           stack[u][k].op = "with" /\ stack[u][k].inst # None =>
             value'[stack[u][k].id] \in {None, stack[u][k].inst}
    BY <1>12 DEF NewFull, slotVars, Borrowed
  <2> QED
    BY <2>1, <2>2, <2>3, BorrowedMoves
<1>13. ASSUME NewWrite(t) PROVE Borrowed'
  <2>1. HeadMoves(t, Call(t).id, "publish") /\ UNCHANGED live
        /\ Call(t).op = "new" /\ Call(t).at = "write"
    BY <1>13, Turns DEF Turn, NewWrite
  <2>b. Busy(t) /\ Call(t) = stack[t][1] /\ Call(t) \in Frame /\ 1 \in DOMAIN stack[t]
    BY <2>1, StackFacts DEF HeadMoves
  <2>i. Call(t).id \in Ids /\ ~occupied[Call(t).id]
    BY <2>1, <2>b, CallFacts, NoneAssumption DEF WellFormed, Created
  <2>n. \A u \in Threads : \A k \in DOMAIN stack[u] :
          stack[u][k].op = "with" => stack[u][k].id \in Ids /\ stack[u][k].id # Call(t).id
    BY <2>1, <2>b, <2>i, NewHasNoUser DEF Nested, WellFormed
  <2>2. \A u \in Threads : \A k \in DOMAIN stack[u] :
           stack[u][k].op = "with" /\ ~(u = t /\ k = 1) /\ stack[u][k].at = "run" =>
             occupied'[stack[u][k].id] /\ borrow_flag'[stack[u][k].id]
    BY <1>13, <2>n DEF NewWrite, Borrowed, TypeOK
  <2>3. \A u \in Threads : \A k \in DOMAIN stack[u] :
           stack[u][k].op = "with" /\ stack[u][k].inst # None =>
             value'[stack[u][k].id] \in {None, stack[u][k].inst}
    BY <1>13, <2>n DEF NewWrite, Borrowed, TypeOK
  <2> QED
    BY <2>1, <2>2, <2>3, BorrowedMoves
<1>14. ASSUME NewPublish(t) PROVE Borrowed'
  <2>1. HeadMoves(t, Call(t).id, "unpool") /\ UNCHANGED live
        /\ Call(t).op = "new" /\ Call(t).at = "publish"
    BY <1>14, Turns DEF Turn, NewPublish
  <2>b. Busy(t) /\ Call(t) = stack[t][1] /\ Call(t) \in Frame /\ 1 \in DOMAIN stack[t]
    BY <2>1, StackFacts DEF HeadMoves
  <2>n. \A u \in Threads : \A k \in DOMAIN stack[u] :
          stack[u][k].op = "with" => stack[u][k].id \in Ids
    BY DEF Nested, WellFormed
  <2>2. \A u \in Threads : \A k \in DOMAIN stack[u] :
           stack[u][k].op = "with" /\ ~(u = t /\ k = 1) /\ stack[u][k].at = "run" =>
             occupied'[stack[u][k].id] /\ borrow_flag'[stack[u][k].id]
    BY <1>14, <2>n DEF NewPublish, Borrowed, TypeOK
  <2>3. \A u \in Threads : \A k \in DOMAIN stack[u] :
           stack[u][k].op = "with" /\ stack[u][k].inst # None =>
             value'[stack[u][k].id] \in {None, stack[u][k].inst}
    BY <1>14 DEF NewPublish, Borrowed
  <2> QED
    BY <2>1, <2>2, <2>3, BorrowedMoves
<1>15. ASSUME NewReturn(t) PROVE Borrowed'
  <2>1. Popped(t) /\ Call(t).op = "new" /\ Call(t).at = "unpool" /\ Busy(t) /\ UNCHANGED slotVars
    BY <1>15, Returns DEF Popped, NewReturn
  <2>2. ASSUME NEW u \in Threads, NEW k \in DOMAIN stack[u], stack[u][k].op = "with"
        PROVE  live'[stack[u][k].id] = live[stack[u][k].id]
    <3>1. stack[u][k].id \in Ids
      BY <2>2 DEF Nested, WellFormed
    <3>2. stack[u][k].id # Call(t).id
      <4>1. CASE Call(t).id \in Ids
        <5>1. live[Call(t).id] = None
          BY <2>1, <4>1, NoneAssumption DEF Created
        <5> QED
          BY <2>1, <2>2, <4>1, <5>1, NewHasNoUser
      <4>2. CASE Call(t).id \notin Ids
        BY <3>1, <4>2
      <4> QED
        BY <4>1, <4>2
    <3> QED
      BY <1>15, <3>1, <3>2 DEF NewReturn
  <2> QED
    BY <2>1, <2>2, BorrowedPop
<1>16. ASSUME FreeLock(t) PROVE Borrowed'
  <2>1. HeadMoves(t, Call(t).id, "pool") /\ UNCHANGED live
        /\ Call(t).op = "free" /\ Call(t).at = "lock"
    BY <1>16, Turns DEF Turn, FreeLock
  <2>b. Busy(t) /\ Call(t) = stack[t][1] /\ Call(t) \in Frame /\ 1 \in DOMAIN stack[t]
    BY <2>1, StackFacts DEF HeadMoves
  <2>2. \A u \in Threads : \A k \in DOMAIN stack[u] :
           stack[u][k].op = "with" /\ ~(u = t /\ k = 1) /\ stack[u][k].at = "run" =>
             occupied'[stack[u][k].id] /\ borrow_flag'[stack[u][k].id]
    BY <1>16 DEF FreeLock, slotVars, Borrowed
  <2>3. \A u \in Threads : \A k \in DOMAIN stack[u] :
           stack[u][k].op = "with" /\ stack[u][k].inst # None =>
             value'[stack[u][k].id] \in {None, stack[u][k].inst}
    BY <1>16 DEF FreeLock, slotVars, Borrowed
  <2> QED
    BY <2>1, <2>2, <2>3, BorrowedMoves
<1>17. ASSUME FreePool(t) PROVE Borrowed'
  <2>1. HeadMoves(t, Call(t).id, "drop") /\ UNCHANGED live
        /\ Call(t).op = "free" /\ Call(t).at = "pool"
    BY <1>17, Turns DEF Turn, FreePool
  <2>b. Busy(t) /\ Call(t) = stack[t][1] /\ Call(t) \in Frame /\ 1 \in DOMAIN stack[t]
    BY <2>1, StackFacts DEF HeadMoves
  <2>2. \A u \in Threads : \A k \in DOMAIN stack[u] :
           stack[u][k].op = "with" /\ ~(u = t /\ k = 1) /\ stack[u][k].at = "run" =>
             occupied'[stack[u][k].id] /\ borrow_flag'[stack[u][k].id]
    BY <1>17 DEF FreePool, slotVars, Borrowed
  <2>3. \A u \in Threads : \A k \in DOMAIN stack[u] :
           stack[u][k].op = "with" /\ stack[u][k].inst # None =>
             value'[stack[u][k].id] \in {None, stack[u][k].inst}
    BY <1>17 DEF FreePool, slotVars, Borrowed
  <2> QED
    BY <2>1, <2>2, <2>3, BorrowedMoves
<1>18. ASSUME FreeNothing(t) PROVE Borrowed'
  <2>1. HeadMoves(t, Call(t).id, "unpool") /\ UNCHANGED live
        /\ Call(t).op = "free" /\ Call(t).at = "drop"
    BY <1>18, Turns DEF Turn, FreeNothing
  <2>b. Busy(t) /\ Call(t) = stack[t][1] /\ Call(t) \in Frame /\ 1 \in DOMAIN stack[t]
    BY <2>1, StackFacts DEF HeadMoves
  <2>2. \A u \in Threads : \A k \in DOMAIN stack[u] :
           stack[u][k].op = "with" /\ ~(u = t /\ k = 1) /\ stack[u][k].at = "run" =>
             occupied'[stack[u][k].id] /\ borrow_flag'[stack[u][k].id]
    BY <1>18 DEF FreeNothing, slotVars, Borrowed
  <2>3. \A u \in Threads : \A k \in DOMAIN stack[u] :
           stack[u][k].op = "with" /\ stack[u][k].inst # None =>
             value'[stack[u][k].id] \in {None, stack[u][k].inst}
    BY <1>18 DEF FreeNothing, slotVars, Borrowed
  <2> QED
    BY <2>1, <2>2, <2>3, BorrowedMoves
<1>19. ASSUME FreeDrop(t) PROVE Borrowed'
  <2>1. HeadMoves(t, Call(t).id, "clear") /\ UNCHANGED live
        /\ Call(t).op = "free" /\ Call(t).at = "drop"
    BY <1>19, Turns DEF Turn, FreeDrop
  <2>b. Busy(t) /\ Call(t) = stack[t][1] /\ Call(t) \in Frame /\ 1 \in DOMAIN stack[t]
    BY <2>1, StackFacts DEF HeadMoves
  <2>i. Call(t).id \in Ids /\ \A u \in Threads : \A k \in DOMAIN stack[u] :
          stack[u][k].op = "with" => stack[u][k].id \in Ids
    BY <2>1, <2>b, CallFacts DEF Nested, WellFormed
  <2>2. ASSUME NEW u \in Threads, NEW k \in DOMAIN stack[u], stack[u][k].op = "with",
               ~(u = t /\ k = 1), stack[u][k].at = "run"
        PROVE  occupied'[stack[u][k].id] /\ borrow_flag'[stack[u][k].id]
    <3>1. HoldsInstance(Call(t))
      BY <2>1 DEF HoldsInstance
    <3>2. stack[u][k].id # Call(t).id
      BY <2>1, <2>2, <2>b, <3>1, NotFreedInUse
    <3> QED
      BY <1>19, <3>2, <2>2, <2>i DEF FreeDrop, Borrowed, TypeOK
  <2>3. \A u \in Threads : \A k \in DOMAIN stack[u] :
           stack[u][k].op = "with" /\ stack[u][k].inst # None =>
             value'[stack[u][k].id] \in {None, stack[u][k].inst}
    BY <1>19, <2>i DEF FreeDrop, Borrowed, TypeOK
  <2> QED
    BY <2>1, <2>2, <2>3, BorrowedMoves
<1>20. ASSUME FreeClear(t) PROVE Borrowed'
  <2>1. HeadMoves(t, Call(t).id, "unpool") /\ UNCHANGED live
        /\ Call(t).op = "free" /\ Call(t).at = "clear"
    BY <1>20, Turns DEF Turn, FreeClear
  <2>b. Busy(t) /\ Call(t) = stack[t][1] /\ Call(t) \in Frame /\ 1 \in DOMAIN stack[t]
    BY <2>1, StackFacts DEF HeadMoves
  <2>i. Call(t).id \in Ids /\ \A u \in Threads : \A k \in DOMAIN stack[u] :
          stack[u][k].op = "with" => stack[u][k].id \in Ids
    BY <2>1, <2>b, CallFacts DEF Nested, WellFormed
  <2>2. ASSUME NEW u \in Threads, NEW k \in DOMAIN stack[u], stack[u][k].op = "with",
               ~(u = t /\ k = 1), stack[u][k].at = "run"
        PROVE  occupied'[stack[u][k].id] /\ borrow_flag'[stack[u][k].id]
    <3>1. HoldsInstance(Call(t))
      BY <2>1 DEF HoldsInstance
    <3>2. stack[u][k].id # Call(t).id
      BY <2>1, <2>2, <2>b, <3>1, NotFreedInUse
    <3> QED
      BY <1>20, <3>2, <2>2, <2>i DEF FreeClear, Borrowed, TypeOK
  <2>3. \A u \in Threads : \A k \in DOMAIN stack[u] :
           stack[u][k].op = "with" /\ stack[u][k].inst # None =>
             value'[stack[u][k].id] \in {None, stack[u][k].inst}
    BY <1>20, <2>i DEF FreeClear, Borrowed, TypeOK
  <2> QED
    BY <2>1, <2>2, <2>3, BorrowedMoves
<1>21. ASSUME FreeUnpool(t) PROVE Borrowed'
  <2>1. HeadMoves(t, Call(t).id, "unlock") /\ UNCHANGED live
        /\ Call(t).op = "free" /\ Call(t).at = "unpool"
    BY <1>21, Turns DEF Turn, FreeUnpool
  <2>b. Busy(t) /\ Call(t) = stack[t][1] /\ Call(t) \in Frame /\ 1 \in DOMAIN stack[t]
    BY <2>1, StackFacts DEF HeadMoves
  <2>2. \A u \in Threads : \A k \in DOMAIN stack[u] :
           stack[u][k].op = "with" /\ ~(u = t /\ k = 1) /\ stack[u][k].at = "run" =>
             occupied'[stack[u][k].id] /\ borrow_flag'[stack[u][k].id]
    BY <1>21 DEF FreeUnpool, slotVars, Borrowed
  <2>3. \A u \in Threads : \A k \in DOMAIN stack[u] :
           stack[u][k].op = "with" /\ stack[u][k].inst # None =>
             value'[stack[u][k].id] \in {None, stack[u][k].inst}
    BY <1>21 DEF FreeUnpool, slotVars, Borrowed
  <2> QED
    BY <2>1, <2>2, <2>3, BorrowedMoves
<1>22. ASSUME FreeUnlock(t) PROVE Borrowed'
  BY <1>22, Returns, BorrowedPop DEF FreeUnlock
<1> QED
  BY <1>1, <1>2, <1>3, <1>4, <1>5, <1>6, <1>7, <1>8, <1>9, <1>10, <1>11, <1>12, <1>13, <1>14,
     <1>15, <1>16, <1>17, <1>18, <1>19, <1>20, <1>21, <1>22 DEF ApplicationStep, WithStep,
     NewStep, FreeStep


-----------------------------------------------------------------------------
(* A creation that has its slot is in the pool's section.                   *)
LEMMA NewHoldsPool ==
  ASSUME TypeOK, Nested, NEW u \in Threads, Busy(u), Call(u).op = "new", Call(u).id # None
  PROVE  HoldsPool(Call(u)) /\ Call(u).id \in Ids /\ Call(u).inst # None
<1>1. WellFormed(Call(u)) /\ Call(u) \in Frame
  BY CallFacts
<1> QED
  BY <1>1 DEF WellFormed, HoldsPool, Frame

(* The application does not know the id yet.                                *)
LEMMA CreatedUnknown ==
  ASSUME TypeOK, Nested, Created, Known,
         NEW u \in Threads, Busy(u), Call(u).op = "new", Call(u).id # None
  PROVE  Call(u).id \in Ids /\ live[Call(u).id] = None
<1>1. WellFormed(Call(u)) /\ Call(u).id \in Ids
  BY CallFacts, NewHoldsPool
<1>2. Call(u).at \in {"write", "publish", "unpool"}
  BY <1>1, NoneAssumption DEF WellFormed
<1>3. CASE Call(u).at = "unpool"
  BY <1>1, <1>3 DEF Created
<1>4. CASE Call(u).at # "unpool"
  BY <1>1, <1>2, <1>4 DEF Created, Known
<1> QED
  BY <1>1, <1>3, <1>4

(* Created, when a call goes on.                                            *)
LEMMA CreatedMoves ==
  ASSUME TypeOK, Nested, Created, NEW t \in Threads, NEW i, NEW a, HeadMoves(t, i, a), UNCHANGED live,
         \A u \in Threads : u # t /\ Busy(u) /\ Call(u).op = "new" /\ Call(u).id # None =>
           occupied'[Call(u).id] = occupied[Call(u).id] /\ value'[Call(u).id] = value[Call(u).id],
         Call(t).op = "free" /\ a \in PreClear => i = Call(t).id /\ Call(t).at \in PreClear,
         Call(t).op = "new" /\ i # None =>
           /\ a \in {"write", "publish"} => ~occupied'[i]
           /\ a = "publish" => value'[i] = Call(t).inst
           /\ a = "unpool" => occupied'[i] /\ value'[i] = Call(t).inst /\ live[i] = None
           /\ \A u \in Threads : u # t /\ Busy(u) /\ Call(u).op = "free" /\ Call(u).at \in PreClear =>
                Call(u).id # i
  PROVE  Created'
<1>h. \A u \in Threads : u # t => (Busy(u)' <=> Busy(u)) /\ Call(u)' = Call(u)
  BY SameHeads DEF HeadMoves
<1>t. /\ Busy(t) /\ Busy(t)' /\ Call(t)'.op = Call(t).op /\ Call(t)'.inst = Call(t).inst
      /\ Call(t)'.id = i /\ Call(t)'.at = a
  BY DEF HeadMoves
<1>f. \A u \in Threads : Busy(u)' /\ Call(u)'.op = "free" /\ Call(u)'.at \in PreClear =>
        Busy(u) /\ Call(u).op = "free" /\ Call(u).at \in PreClear /\ Call(u)'.id = Call(u).id
  BY <1>h, <1>t
<1>1. ASSUME NEW u \in Threads, Busy(u)', Call(u)'.op = "new", Call(u)'.id # None
      PROVE  /\ Call(u)'.at \in {"write", "publish"} => ~occupied'[Call(u)'.id]
             /\ Call(u)'.at = "publish" => value'[Call(u)'.id] = Call(u)'.inst
             /\ Call(u)'.at = "unpool" => /\ occupied'[Call(u)'.id] /\ value'[Call(u)'.id] = Call(u)'.inst
                                          /\ live'[Call(u)'.id] = None
             /\ \A v \in Threads : Busy(v)' /\ Call(v)'.op = "free" /\ Call(v)'.at \in PreClear =>
                  Call(v)'.id # Call(u)'.id
  <2>1. CASE u = t
    <3>1. ASSUME NEW v \in Threads, Busy(v)', Call(v)'.op = "free", Call(v)'.at \in PreClear
          PROVE  Call(v)'.id # Call(u)'.id
      BY <2>1, <3>1, <1>1, <1>f, <1>t, <1>h
    <3> QED
      BY <2>1, <3>1, <1>1, <1>t
  <2>2. CASE u # t
    <3>1. Busy(u) /\ Call(u).op = "new" /\ Call(u).id # None /\ Call(u)' = Call(u)
      BY <2>2, <1>1, <1>h
    <3>2. ASSUME NEW v \in Threads, Busy(v)', Call(v)'.op = "free", Call(v)'.at \in PreClear
          PROVE  Call(v)'.id # Call(u)'.id
      BY <3>1, <3>2, <1>f DEF Created
    <3> QED
      BY <2>2, <3>1, <3>2 DEF Created
  <2> QED
    BY <2>1, <2>2
<1> QED
  BY <1>1 DEF Created, PreClear

(* Created, when a call starts.                                             *)
LEMMA CreatedPush ==
  ASSUME TypeOK, Nested, Created, Known, NEW t \in Threads, NEW f, Pushed(t, f), UNCHANGED slotVars,
         \A id \in Ids : live'[id] \in {live[id], None},
         f.op = "new" => f.id = None,
         f.op = "free" => \A u \in Threads : Busy(u) /\ Call(u).op = "new" => Call(u).id # f.id,
         MayCall(t)
  PROVE  Created'
<1>h. \A u \in Threads : u # t => (Busy(u)' <=> Busy(u)) /\ Call(u)' = Call(u)
  BY SameHeads DEF Pushed
<1>t. Busy(t)' /\ Call(t)' = f
  BY DEF Pushed
<1>1. ASSUME NEW u \in Threads, Busy(u)', Call(u)'.op = "new", Call(u)'.id # None
      PROVE  /\ Call(u)'.at \in {"write", "publish"} => ~occupied'[Call(u)'.id]
             /\ Call(u)'.at = "publish" => value'[Call(u)'.id] = Call(u)'.inst
             /\ Call(u)'.at = "unpool" => /\ occupied'[Call(u)'.id] /\ value'[Call(u)'.id] = Call(u)'.inst
                                          /\ live'[Call(u)'.id] = None
             /\ \A v \in Threads : Busy(v)' /\ Call(v)'.op = "free" /\ Call(v)'.at \in PreClear =>
                  Call(v)'.id # Call(u)'.id
  <2>1. u # t /\ Busy(u) /\ Call(u).op = "new" /\ Call(u).id # None /\ Call(u)' = Call(u)
    BY <1>1, <1>h, <1>t
  <2>2. Call(u).id \in Ids
    BY <2>1, CreatedUnknown
  <2>3. ASSUME NEW v \in Threads, Busy(v)', Call(v)'.op = "free", Call(v)'.at \in PreClear
        PROVE  Call(v)'.id # Call(u)'.id
    <3>1. CASE v = t
      BY <3>1, <2>1, <2>3, <1>t
    <3>2. CASE v # t
      BY <3>2, <2>1, <2>3, <1>h DEF Created
    <3> QED
      BY <3>1, <3>2
  <2> QED
    BY <2>1, <2>2, <2>3 DEF Created, slotVars
<1> QED
  BY <1>1 DEF Created, PreClear

(* Created, when a call returns.                                            *)
LEMMA CreatedPop ==
  ASSUME TypeOK, Nested, Created, NEW t \in Threads, Popped(t), UNCHANGED slotVars,
         \A u \in Threads : u # t /\ Busy(u) /\ Call(u).op = "new" /\ Call(u).id # None =>
           live'[Call(u).id] = live[Call(u).id]
  PROVE  Created'
<1>h. \A u \in Threads : u # t => (Busy(u)' <=> Busy(u)) /\ Call(u)' = Call(u)
  BY SameHeads DEF Popped
<1>t. Busy(t)' => Call(t)'.op = "with"
  BY PoppedRest
<1>1. ASSUME NEW u \in Threads, Busy(u)', Call(u)'.op = "new", Call(u)'.id # None
      PROVE  /\ Call(u)'.at \in {"write", "publish"} => ~occupied'[Call(u)'.id]
             /\ Call(u)'.at = "publish" => value'[Call(u)'.id] = Call(u)'.inst
             /\ Call(u)'.at = "unpool" => /\ occupied'[Call(u)'.id] /\ value'[Call(u)'.id] = Call(u)'.inst
                                          /\ live'[Call(u)'.id] = None
             /\ \A v \in Threads : Busy(v)' /\ Call(v)'.op = "free" /\ Call(v)'.at \in PreClear =>
                  Call(v)'.id # Call(u)'.id
  <2>1. u # t /\ Busy(u) /\ Call(u).op = "new" /\ Call(u).id # None /\ Call(u)' = Call(u)
    BY <1>1, <1>h, <1>t
  <2>2. ASSUME NEW v \in Threads, Busy(v)', Call(v)'.op = "free", Call(v)'.at \in PreClear
        PROVE  Call(v)'.id # Call(u)'.id
    BY <2>1, <2>2, <1>h, <1>t DEF Created
  <2> QED
    BY <2>1, <2>2 DEF Created, slotVars
<1> QED
  BY <1>1 DEF Created, PreClear

(* No step breaks Created.                                                  *)
LEMMA CreatedStep ==
  ASSUME TypeOK, Nested, Locked, Disciplined, Created, Freed, Known, NEW t \in Threads,
         ApplicationStep(t) \/ WithStep(t) \/ NewStep(t) \/ FreeStep(t), UNCHANGED hooks
  PROVE  Created'
<1>1. ASSUME NEW id \in Ids, CallWith(t, id) PROVE Created'
  <2>1. Pushed(t, CallWithFrame(id)) /\ UNCHANGED <<slotVars, live>> /\ MayCall(t)
    BY <1>1, Calls DEF CallWith
  <2> QED
    BY <2>1, CreatedPush DEF CallWithFrame
<1>2. ASSUME NEW id \in Ids, CallFree(t, id) PROVE Created'
  <2>1. Pushed(t, CallFreeFrame(id)) /\ UNCHANGED slotVars /\ live' = [live EXCEPT ![id] = None]
        /\ MayCall(t) /\ (Creating => live[id] # None)
    BY <1>2, Calls DEF CallFree
  <2>2. \A i \in Ids : live'[i] \in {live[i], None}
    BY <2>1 DEF TypeOK
  <2>3. ASSUME NEW u \in Threads, Busy(u), Call(u).op = "new" PROVE Call(u).id # id
    BY <2>1, <2>3, CreatingFacts, CreatedUnknown, NoneAssumption
  <2> QED
    BY <2>1, <2>2, <2>3, CreatedPush DEF CallFreeFrame
<1>3. ASSUME NEW k \in Kinds, NEW n \in Instances, CallNew(t, k, n) PROVE Created'
  <2>1. Pushed(t, CallNewFrame(k, n)) /\ UNCHANGED <<slotVars, live>> /\ MayCall(t)
    BY <1>3, Calls DEF CallNew
  <2> QED
    BY <2>1, CreatedPush DEF CallNewFrame
<1>4. ASSUME WithLock(t) PROVE Created'
  <2>1. HeadMoves(t, Call(t).id, "check") /\ UNCHANGED live
        /\ Call(t).op = "with" /\ Call(t).at = "lock"
    BY <1>4, Turns DEF Turn, WithLock
  <2>b. Busy(t) /\ Call(t) = stack[t][1] /\ Call(t) \in Frame /\ WellFormed(Call(t))
    BY <2>1, StackFacts, CallFacts DEF HeadMoves
  <2>o. \A u \in Threads : u # t /\ Busy(u) /\ Call(u).op = "new" /\ Call(u).id # None =>
          occupied'[Call(u).id] = occupied[Call(u).id] /\ value'[Call(u).id] = value[Call(u).id]
    BY <1>4 DEF WithLock, slotVars
  <2> QED
    BY <2>1, <2>o, CreatedMoves DEF PreClear
<1>5. ASSUME WithInvalid(t) PROVE Created'
  <2>1. HeadMoves(t, Call(t).id, "unlock") /\ UNCHANGED live
        /\ Call(t).op = "with" /\ Call(t).at = "check"
    BY <1>5, Turns DEF Turn, WithInvalid
  <2>b. Busy(t) /\ Call(t) = stack[t][1] /\ Call(t) \in Frame /\ WellFormed(Call(t))
    BY <2>1, StackFacts, CallFacts DEF HeadMoves
  <2>o. \A u \in Threads : u # t /\ Busy(u) /\ Call(u).op = "new" /\ Call(u).id # None =>
          occupied'[Call(u).id] = occupied[Call(u).id] /\ value'[Call(u).id] = value[Call(u).id]
    BY <1>5 DEF WithInvalid, slotVars
  <2> QED
    BY <2>1, <2>o, CreatedMoves DEF PreClear
<1>6. ASSUME WithBusy(t) PROVE Created'
  <2>1. HeadMoves(t, Call(t).id, "unlock") /\ UNCHANGED live
        /\ Call(t).op = "with" /\ Call(t).at = "check"
    BY <1>6, Turns DEF Turn, WithBusy
  <2>b. Busy(t) /\ Call(t) = stack[t][1] /\ Call(t) \in Frame /\ WellFormed(Call(t))
    BY <2>1, StackFacts, CallFacts DEF HeadMoves
  <2>o. \A u \in Threads : u # t /\ Busy(u) /\ Call(u).op = "new" /\ Call(u).id # None =>
          occupied'[Call(u).id] = occupied[Call(u).id] /\ value'[Call(u).id] = value[Call(u).id]
    BY <1>6 DEF WithBusy, slotVars
  <2> QED
    BY <2>1, <2>o, CreatedMoves DEF PreClear
<1>7. ASSUME WithBorrow(t) PROVE Created'
  <2>1. HeadMoves(t, Call(t).id, "run") /\ UNCHANGED live
        /\ Call(t).op = "with" /\ Call(t).at = "check"
    BY <1>7, Turns DEF Turn, WithBorrow
  <2>b. Busy(t) /\ Call(t) = stack[t][1] /\ Call(t) \in Frame /\ WellFormed(Call(t))
    BY <2>1, StackFacts, CallFacts DEF HeadMoves
  <2>o. \A u \in Threads : u # t /\ Busy(u) /\ Call(u).op = "new" /\ Call(u).id # None =>
          occupied'[Call(u).id] = occupied[Call(u).id] /\ value'[Call(u).id] = value[Call(u).id]
    BY <1>7 DEF WithBorrow, slotVars
  <2> QED
    BY <2>1, <2>o, CreatedMoves DEF PreClear
<1>8. ASSUME WithDone(t) PROVE Created'
  <2>1. HeadMoves(t, Call(t).id, "unlock") /\ UNCHANGED live
        /\ Call(t).op = "with" /\ Call(t).at = "run"
    BY <1>8, Turns DEF Turn, WithDone
  <2>b. Busy(t) /\ Call(t) = stack[t][1] /\ Call(t) \in Frame /\ WellFormed(Call(t))
    BY <2>1, StackFacts, CallFacts DEF HeadMoves
  <2>o. \A u \in Threads : u # t /\ Busy(u) /\ Call(u).op = "new" /\ Call(u).id # None =>
          occupied'[Call(u).id] = occupied[Call(u).id] /\ value'[Call(u).id] = value[Call(u).id]
    BY <1>8 DEF WithDone, slotVars
  <2> QED
    BY <2>1, <2>o, CreatedMoves DEF PreClear
<1>9. ASSUME WithUnlock(t) PROVE Created'
  BY <1>9, Returns, CreatedPop DEF WithUnlock
<1>10. ASSUME NewPool(t) PROVE Created'
  <2>1. HeadMoves(t, Call(t).id, "scan") /\ UNCHANGED live
        /\ Call(t).op = "new" /\ Call(t).at = "pool"
    BY <1>10, Turns DEF Turn, NewPool
  <2>b. Busy(t) /\ Call(t) = stack[t][1] /\ Call(t) \in Frame /\ WellFormed(Call(t))
    BY <2>1, StackFacts, CallFacts DEF HeadMoves
  <2>o. \A u \in Threads : u # t /\ Busy(u) /\ Call(u).op = "new" /\ Call(u).id # None =>
          occupied'[Call(u).id] = occupied[Call(u).id] /\ value'[Call(u).id] = value[Call(u).id]
    BY <1>10 DEF NewPool, slotVars
  <2>2. Call(t).id = None
    BY <2>1, <2>b DEF WellFormed
  <2> QED
    BY <2>1, <2>2, <2>o, CreatedMoves
<1>11. ASSUME NewScan(t) PROVE Created'
  <2>1. PICK i \in Ids : /\ HeadMoves(t, i, "write") /\ Call(t).op = "new" /\ Call(t).at = "scan"
                          /\ ~occupied[i]
    BY <1>11, ScanTurns
  <2>2. UNCHANGED <<slotVars, live>> /\ Busy(t)
    BY <1>11, <2>1 DEF NewScan, HeadMoves
  <2>3. ASSUME NEW u \in Threads, u # t, Busy(u), Call(u).op = "free", Call(u).at \in PreClear
        PROVE  Call(u).id # i
    <3>1. Creating
      BY <2>1, <2>2, CreatingFacts
    <3>2. Call(u).inst # None
      BY <3>1, <2>3 DEF Disciplined
    <3>3. occupied[Call(u).id]
      BY <3>2, <2>3 DEF Freed
    <3> QED
      BY <3>3, <2>1
  <2> QED
    BY <2>1, <2>2, <2>3, CreatedMoves DEF slotVars
<1>12. ASSUME NewFull(t) PROVE Created'
  <2>1. HeadMoves(t, Call(t).id, "unpool") /\ UNCHANGED live
        /\ Call(t).op = "new" /\ Call(t).at = "scan"
    BY <1>12, Turns DEF Turn, NewFull
  <2>b. Busy(t) /\ Call(t) = stack[t][1] /\ Call(t) \in Frame /\ WellFormed(Call(t))
    BY <2>1, StackFacts, CallFacts DEF HeadMoves
  <2>o. \A u \in Threads : u # t /\ Busy(u) /\ Call(u).op = "new" /\ Call(u).id # None =>
          occupied'[Call(u).id] = occupied[Call(u).id] /\ value'[Call(u).id] = value[Call(u).id]
    BY <1>12 DEF NewFull, slotVars
  <2>2. Call(t).id = None
    BY <2>1, <2>b DEF WellFormed
  <2> QED
    BY <2>1, <2>2, <2>o, CreatedMoves
<1>13. ASSUME NewWrite(t) PROVE Created'
  <2>1. HeadMoves(t, Call(t).id, "publish") /\ UNCHANGED live
        /\ Call(t).op = "new" /\ Call(t).at = "write"
    BY <1>13, Turns DEF Turn, NewWrite
  <2>b. Busy(t) /\ Call(t) = stack[t][1] /\ Call(t) \in Frame /\ WellFormed(Call(t))
    BY <2>1, StackFacts, CallFacts DEF HeadMoves
  <2>o. \A u \in Threads : u # t /\ Busy(u) /\ Call(u).op = "new" /\ Call(u).id # None =>
          occupied'[Call(u).id] = occupied[Call(u).id] /\ value'[Call(u).id] = value[Call(u).id]
    BY <2>1, <2>b, PoolAlone, NewHoldsPool DEF HoldsPool
  <2>i. Call(t).id \in Ids /\ Call(t).id # None /\ live[Call(t).id] = None
    BY <2>1, <2>b, NoneAssumption, CreatedUnknown DEF WellFormed
  <2>f. \A u \in Threads : u # t /\ Busy(u) /\ Call(u).op = "free" /\ Call(u).at \in PreClear =>
          Call(u).id # Call(t).id
    BY <2>1, <2>b, <2>i DEF Created
  <2>2. ~occupied'[Call(t).id] /\ value'[Call(t).id] = Call(t).inst
    BY <1>13, <2>1, <2>b, <2>i DEF Created, NewWrite, TypeOK
  <2> QED
    BY <2>1, <2>2, <2>i, <2>f, <2>o, CreatedMoves
<1>14. ASSUME NewPublish(t) PROVE Created'
  <2>1. HeadMoves(t, Call(t).id, "unpool") /\ UNCHANGED live
        /\ Call(t).op = "new" /\ Call(t).at = "publish"
    BY <1>14, Turns DEF Turn, NewPublish
  <2>b. Busy(t) /\ Call(t) = stack[t][1] /\ Call(t) \in Frame /\ WellFormed(Call(t))
    BY <2>1, StackFacts, CallFacts DEF HeadMoves
  <2>o. \A u \in Threads : u # t /\ Busy(u) /\ Call(u).op = "new" /\ Call(u).id # None =>
          occupied'[Call(u).id] = occupied[Call(u).id] /\ value'[Call(u).id] = value[Call(u).id]
    BY <2>1, <2>b, PoolAlone, NewHoldsPool DEF HoldsPool
  <2>i. Call(t).id \in Ids /\ Call(t).id # None /\ live[Call(t).id] = None
    BY <2>1, <2>b, NoneAssumption, CreatedUnknown DEF WellFormed
  <2>f. \A u \in Threads : u # t /\ Busy(u) /\ Call(u).op = "free" /\ Call(u).at \in PreClear =>
          Call(u).id # Call(t).id
    BY <2>1, <2>b, <2>i DEF Created
  <2>2. occupied'[Call(t).id] /\ value'[Call(t).id] = Call(t).inst
    BY <1>14, <2>1, <2>b, <2>i DEF Created, NewPublish, TypeOK
  <2> QED
    BY <2>1, <2>2, <2>i, <2>f, <2>o, CreatedMoves
<1>15. ASSUME NewReturn(t) PROVE Created'
  <2>1. Popped(t) /\ Call(t).op = "new" /\ Call(t).at = "unpool" /\ Busy(t) /\ UNCHANGED slotVars
    BY <1>15, Returns DEF Popped, NewReturn
  <2>2. \A u \in Threads : u # t /\ Busy(u) /\ Call(u).op = "new" => Call(u).id = None
    BY <2>1, PoolAlone, NewHoldsPool DEF HoldsPool
  <2> QED
    BY <2>1, <2>2, CreatedPop
<1>16. ASSUME FreeLock(t) PROVE Created'
  <2>1. HeadMoves(t, Call(t).id, "pool") /\ UNCHANGED live
        /\ Call(t).op = "free" /\ Call(t).at = "lock"
    BY <1>16, Turns DEF Turn, FreeLock
  <2>b. Busy(t) /\ Call(t) = stack[t][1] /\ Call(t) \in Frame /\ WellFormed(Call(t))
    BY <2>1, StackFacts, CallFacts DEF HeadMoves
  <2>o. \A u \in Threads : u # t /\ Busy(u) /\ Call(u).op = "new" /\ Call(u).id # None =>
          occupied'[Call(u).id] = occupied[Call(u).id] /\ value'[Call(u).id] = value[Call(u).id]
    BY <1>16 DEF FreeLock, slotVars
  <2> QED
    BY <2>1, <2>o, CreatedMoves DEF PreClear
<1>17. ASSUME FreePool(t) PROVE Created'
  <2>1. HeadMoves(t, Call(t).id, "drop") /\ UNCHANGED live
        /\ Call(t).op = "free" /\ Call(t).at = "pool"
    BY <1>17, Turns DEF Turn, FreePool
  <2>b. Busy(t) /\ Call(t) = stack[t][1] /\ Call(t) \in Frame /\ WellFormed(Call(t))
    BY <2>1, StackFacts, CallFacts DEF HeadMoves
  <2>o. \A u \in Threads : u # t /\ Busy(u) /\ Call(u).op = "new" /\ Call(u).id # None =>
          occupied'[Call(u).id] = occupied[Call(u).id] /\ value'[Call(u).id] = value[Call(u).id]
    BY <1>17 DEF FreePool, slotVars
  <2> QED
    BY <2>1, <2>o, CreatedMoves DEF PreClear
<1>18. ASSUME FreeNothing(t) PROVE Created'
  <2>1. HeadMoves(t, Call(t).id, "unpool") /\ UNCHANGED live
        /\ Call(t).op = "free" /\ Call(t).at = "drop"
    BY <1>18, Turns DEF Turn, FreeNothing
  <2>b. Busy(t) /\ Call(t) = stack[t][1] /\ Call(t) \in Frame /\ WellFormed(Call(t))
    BY <2>1, StackFacts, CallFacts DEF HeadMoves
  <2>o. \A u \in Threads : u # t /\ Busy(u) /\ Call(u).op = "new" /\ Call(u).id # None =>
          occupied'[Call(u).id] = occupied[Call(u).id] /\ value'[Call(u).id] = value[Call(u).id]
    BY <1>18 DEF FreeNothing, slotVars
  <2> QED
    BY <2>1, <2>o, CreatedMoves DEF PreClear
<1>19. ASSUME FreeDrop(t) PROVE Created'
  <2>1. HeadMoves(t, Call(t).id, "clear") /\ UNCHANGED live
        /\ Call(t).op = "free" /\ Call(t).at = "drop"
    BY <1>19, Turns DEF Turn, FreeDrop
  <2>b. Busy(t) /\ Call(t) = stack[t][1] /\ Call(t) \in Frame /\ WellFormed(Call(t))
    BY <2>1, StackFacts, CallFacts DEF HeadMoves
  <2>o. \A u \in Threads : u # t /\ Busy(u) /\ Call(u).op = "new" /\ Call(u).id # None =>
          occupied'[Call(u).id] = occupied[Call(u).id] /\ value'[Call(u).id] = value[Call(u).id]
    BY <2>1, <2>b, PoolAlone, NewHoldsPool DEF HoldsPool
  <2> QED
    BY <2>1, <2>o, CreatedMoves DEF PreClear
<1>20. ASSUME FreeClear(t) PROVE Created'
  <2>1. HeadMoves(t, Call(t).id, "unpool") /\ UNCHANGED live
        /\ Call(t).op = "free" /\ Call(t).at = "clear"
    BY <1>20, Turns DEF Turn, FreeClear
  <2>b. Busy(t) /\ Call(t) = stack[t][1] /\ Call(t) \in Frame /\ WellFormed(Call(t))
    BY <2>1, StackFacts, CallFacts DEF HeadMoves
  <2>o. \A u \in Threads : u # t /\ Busy(u) /\ Call(u).op = "new" /\ Call(u).id # None =>
          occupied'[Call(u).id] = occupied[Call(u).id] /\ value'[Call(u).id] = value[Call(u).id]
    BY <2>1, <2>b, PoolAlone, NewHoldsPool DEF HoldsPool
  <2> QED
    BY <2>1, <2>o, CreatedMoves DEF PreClear
<1>21. ASSUME FreeUnpool(t) PROVE Created'
  <2>1. HeadMoves(t, Call(t).id, "unlock") /\ UNCHANGED live
        /\ Call(t).op = "free" /\ Call(t).at = "unpool"
    BY <1>21, Turns DEF Turn, FreeUnpool
  <2>b. Busy(t) /\ Call(t) = stack[t][1] /\ Call(t) \in Frame /\ WellFormed(Call(t))
    BY <2>1, StackFacts, CallFacts DEF HeadMoves
  <2>o. \A u \in Threads : u # t /\ Busy(u) /\ Call(u).op = "new" /\ Call(u).id # None =>
          occupied'[Call(u).id] = occupied[Call(u).id] /\ value'[Call(u).id] = value[Call(u).id]
    BY <1>21 DEF FreeUnpool, slotVars
  <2> QED
    BY <2>1, <2>o, CreatedMoves DEF PreClear
<1>22. ASSUME FreeUnlock(t) PROVE Created'
  BY <1>22, Returns, CreatedPop DEF FreeUnlock
<1> QED
  BY <1>1, <1>2, <1>3, <1>4, <1>5, <1>6, <1>7, <1>8, <1>9, <1>10, <1>11, <1>12, <1>13, <1>14,
     <1>15, <1>16, <1>17, <1>18, <1>19, <1>20, <1>21, <1>22 DEF ApplicationStep, WithStep,
     NewStep, FreeStep


-----------------------------------------------------------------------------
(* Freed, when a call goes on.                                              *)
LEMMA FreedMoves ==
  ASSUME TypeOK, Nested, Freed, NEW t \in Threads, NEW i, NEW a, HeadMoves(t, i, a), UNCHANGED live,
         \A u \in Threads : u # t /\ Busy(u) /\ Call(u).op = "free" /\ Call(u).at \in PreClear =>
           (occupied[Call(u).id] => occupied'[Call(u).id]),
         Call(t).op = "free" /\ a \in PreClear =>
           /\ i = Call(t).id /\ Call(t).at \in PreClear
           /\ Call(t).inst # None \/ a = "clear" => occupied'[i]
  PROVE  Freed'
<1>h. \A u \in Threads : u # t => (Busy(u)' <=> Busy(u)) /\ Call(u)' = Call(u)
  BY SameHeads DEF HeadMoves
<1>t. /\ Busy(t) /\ Busy(t)' /\ Call(t)'.op = Call(t).op /\ Call(t)'.inst = Call(t).inst
      /\ Call(t)'.id = i /\ Call(t)'.at = a
  BY DEF HeadMoves
<1>1. ASSUME NEW u \in Threads, Busy(u)', Call(u)'.op = "free", Call(u)'.at \in PreClear
      PROVE  /\ live'[Call(u)'.id] = None
             /\ Call(u)'.inst # None \/ Call(u)'.at = "clear" => occupied'[Call(u)'.id]
  <2>1. CASE u = t
    BY <2>1, <1>1, <1>t DEF Freed
  <2>2. CASE u # t
    BY <2>2, <1>1, <1>h DEF Freed
  <2> QED
    BY <2>1, <2>2
<1> QED
  BY <1>1 DEF Freed, PreClear

(* Freed, when a call starts.                                               *)
LEMMA FreedPush ==
  ASSUME TypeOK, Nested, Freed, NEW t \in Threads, NEW f, Pushed(t, f), UNCHANGED slotVars,
         \A id \in Ids : live'[id] \in {live[id], None},
         f.op = "free" => f.at = "lock" /\ live'[f.id] = None /\ (f.inst # None => occupied[f.id])
  PROVE  Freed'
<1>h. \A u \in Threads : u # t => (Busy(u)' <=> Busy(u)) /\ Call(u)' = Call(u)
  BY SameHeads DEF Pushed
<1>t. Busy(t)' /\ Call(t)' = f
  BY DEF Pushed
<1>1. ASSUME NEW u \in Threads, Busy(u)', Call(u)'.op = "free", Call(u)'.at \in PreClear
      PROVE  /\ live'[Call(u)'.id] = None
             /\ Call(u)'.inst # None \/ Call(u)'.at = "clear" => occupied'[Call(u)'.id]
  <2>1. CASE u = t
    BY <2>1, <1>1, <1>t DEF slotVars
  <2>2. CASE u # t
    <3>1. Busy(u) /\ Call(u)' = Call(u) /\ Call(u).id \in Ids
      BY <2>2, <1>1, <1>h, CallFacts
    <3> QED
      BY <3>1, <1>1 DEF Freed, slotVars
  <2> QED
    BY <2>1, <2>2
<1> QED
  BY <1>1 DEF Freed, PreClear

(* Freed, when a call returns.                                              *)
LEMMA FreedPop ==
  ASSUME TypeOK, Nested, Freed, NEW t \in Threads, Popped(t), UNCHANGED slotVars,
         \A u \in Threads : u # t /\ Busy(u) /\ Call(u).op = "free" /\ Call(u).at \in PreClear =>
           live'[Call(u).id] = live[Call(u).id]
  PROVE  Freed'
<1>h. \A u \in Threads : u # t => (Busy(u)' <=> Busy(u)) /\ Call(u)' = Call(u)
  BY SameHeads DEF Popped
<1>t. Busy(t)' => Call(t)'.op = "with"
  BY PoppedRest
<1>1. ASSUME NEW u \in Threads, Busy(u)', Call(u)'.op = "free", Call(u)'.at \in PreClear
      PROVE  /\ live'[Call(u)'.id] = None
             /\ Call(u)'.inst # None \/ Call(u)'.at = "clear" => occupied'[Call(u)'.id]
  BY <1>1, <1>t, <1>h DEF Freed, slotVars
<1> QED
  BY <1>1 DEF Freed, PreClear

(* No step breaks Freed.                                                    *)
LEMMA FreedStep ==
  ASSUME TypeOK, Nested, Disciplined, Created, Freed, Known, NEW t \in Threads,
         ApplicationStep(t) \/ WithStep(t) \/ NewStep(t) \/ FreeStep(t), UNCHANGED hooks
  PROVE  Freed'
<1>1. ASSUME NEW id \in Ids, CallWith(t, id) PROVE Freed'
  <2>1. Pushed(t, CallWithFrame(id)) /\ UNCHANGED <<slotVars, live>>
    BY <1>1, Calls DEF CallWith
  <2> QED
    BY <2>1, FreedPush DEF CallWithFrame
<1>2. ASSUME NEW id \in Ids, CallFree(t, id) PROVE Freed'
  <2>1. Pushed(t, CallFreeFrame(id)) /\ UNCHANGED slotVars /\ live' = [live EXCEPT ![id] = None]
    BY <1>2, Calls DEF CallFree
  <2>2. live'[id] = None /\ \A i \in Ids : live'[i] \in {live[i], None}
    BY <2>1 DEF TypeOK
  <2>3. live[id] # None => occupied[id]
    BY DEF Known
  <2> QED
    BY <2>1, <2>2, <2>3, FreedPush DEF CallFreeFrame
<1>3. ASSUME NEW k \in Kinds, NEW n \in Instances, CallNew(t, k, n) PROVE Freed'
  <2>1. Pushed(t, CallNewFrame(k, n)) /\ UNCHANGED <<slotVars, live>>
    BY <1>3, Calls DEF CallNew
  <2> QED
    BY <2>1, FreedPush DEF CallNewFrame
<1>4. ASSUME WithLock(t) PROVE Freed'
  <2>1. HeadMoves(t, Call(t).id, "check") /\ UNCHANGED live
        /\ Call(t).op = "with" /\ Call(t).at = "lock"
    BY <1>4, Turns DEF Turn, WithLock
  <2>b. Busy(t) /\ Call(t) = stack[t][1] /\ Call(t) \in Frame /\ WellFormed(Call(t))
    BY <2>1, StackFacts, CallFacts DEF HeadMoves
  <2> QED
    BY <1>4, <2>1, FreedMoves DEF WithLock, slotVars, PreClear
<1>5. ASSUME WithInvalid(t) PROVE Freed'
  <2>1. HeadMoves(t, Call(t).id, "unlock") /\ UNCHANGED live
        /\ Call(t).op = "with" /\ Call(t).at = "check"
    BY <1>5, Turns DEF Turn, WithInvalid
  <2>b. Busy(t) /\ Call(t) = stack[t][1] /\ Call(t) \in Frame /\ WellFormed(Call(t))
    BY <2>1, StackFacts, CallFacts DEF HeadMoves
  <2> QED
    BY <1>5, <2>1, FreedMoves DEF WithInvalid, slotVars, PreClear
<1>6. ASSUME WithBusy(t) PROVE Freed'
  <2>1. HeadMoves(t, Call(t).id, "unlock") /\ UNCHANGED live
        /\ Call(t).op = "with" /\ Call(t).at = "check"
    BY <1>6, Turns DEF Turn, WithBusy
  <2>b. Busy(t) /\ Call(t) = stack[t][1] /\ Call(t) \in Frame /\ WellFormed(Call(t))
    BY <2>1, StackFacts, CallFacts DEF HeadMoves
  <2> QED
    BY <1>6, <2>1, FreedMoves DEF WithBusy, slotVars, PreClear
<1>7. ASSUME WithBorrow(t) PROVE Freed'
  <2>1. HeadMoves(t, Call(t).id, "run") /\ UNCHANGED live
        /\ Call(t).op = "with" /\ Call(t).at = "check"
    BY <1>7, Turns DEF Turn, WithBorrow
  <2>b. Busy(t) /\ Call(t) = stack[t][1] /\ Call(t) \in Frame /\ WellFormed(Call(t))
    BY <2>1, StackFacts, CallFacts DEF HeadMoves
  <2> QED
    BY <1>7, <2>1, FreedMoves DEF WithBorrow, slotVars, PreClear
<1>8. ASSUME WithDone(t) PROVE Freed'
  <2>1. HeadMoves(t, Call(t).id, "unlock") /\ UNCHANGED live
        /\ Call(t).op = "with" /\ Call(t).at = "run"
    BY <1>8, Turns DEF Turn, WithDone
  <2>b. Busy(t) /\ Call(t) = stack[t][1] /\ Call(t) \in Frame /\ WellFormed(Call(t))
    BY <2>1, StackFacts, CallFacts DEF HeadMoves
  <2> QED
    BY <1>8, <2>1, FreedMoves DEF WithDone, slotVars, PreClear
<1>9. ASSUME WithUnlock(t) PROVE Freed'
  BY <1>9, Returns, FreedPop DEF WithUnlock
<1>10. ASSUME NewPool(t) PROVE Freed'
  <2>1. HeadMoves(t, Call(t).id, "scan") /\ UNCHANGED live
        /\ Call(t).op = "new" /\ Call(t).at = "pool"
    BY <1>10, Turns DEF Turn, NewPool
  <2>b. Busy(t) /\ Call(t) = stack[t][1] /\ Call(t) \in Frame /\ WellFormed(Call(t))
    BY <2>1, StackFacts, CallFacts DEF HeadMoves
  <2> QED
    BY <1>10, <2>1, FreedMoves DEF NewPool, slotVars, PreClear
<1>11. ASSUME NewScan(t) PROVE Freed'
  <2>1. PICK i \in Ids : HeadMoves(t, i, "write") /\ Call(t).op = "new"
    BY <1>11, ScanTurns
  <2> QED
    BY <1>11, <2>1, FreedMoves DEF NewScan, slotVars
<1>12. ASSUME NewFull(t) PROVE Freed'
  <2>1. HeadMoves(t, Call(t).id, "unpool") /\ UNCHANGED live
        /\ Call(t).op = "new" /\ Call(t).at = "scan"
    BY <1>12, Turns DEF Turn, NewFull
  <2>b. Busy(t) /\ Call(t) = stack[t][1] /\ Call(t) \in Frame /\ WellFormed(Call(t))
    BY <2>1, StackFacts, CallFacts DEF HeadMoves
  <2> QED
    BY <1>12, <2>1, FreedMoves DEF NewFull, slotVars, PreClear
<1>13. ASSUME NewWrite(t) PROVE Freed'
  <2>1. HeadMoves(t, Call(t).id, "publish") /\ UNCHANGED live
        /\ Call(t).op = "new" /\ Call(t).at = "write"
    BY <1>13, Turns DEF Turn, NewWrite
  <2>b. Busy(t) /\ Call(t) = stack[t][1] /\ Call(t) \in Frame /\ WellFormed(Call(t))
    BY <2>1, StackFacts, CallFacts DEF HeadMoves
  <2> QED
    BY <1>13, <2>1, FreedMoves DEF NewWrite, slotVars, PreClear
<1>14. ASSUME NewPublish(t) PROVE Freed'
  <2>1. HeadMoves(t, Call(t).id, "unpool") /\ UNCHANGED live
        /\ Call(t).op = "new" /\ Call(t).at = "publish"
    BY <1>14, Turns DEF Turn, NewPublish
  <2>b. Busy(t) /\ Call(t) = stack[t][1] /\ Call(t) \in Frame /\ WellFormed(Call(t))
    BY <2>1, StackFacts, CallFacts DEF HeadMoves
  <2>2. \A u \in Threads : Busy(u) /\ Call(u).op = "free" =>
          (occupied[Call(u).id] => occupied'[Call(u).id])
    BY <1>14, CallFacts DEF NewPublish, TypeOK
  <2> QED
    BY <2>1, <2>2, FreedMoves
<1>15. ASSUME NewReturn(t) PROVE Freed'
  <2>1. Popped(t) /\ Call(t).op = "new" /\ Busy(t) /\ UNCHANGED slotVars
    BY <1>15, Returns DEF Popped, NewReturn
  <2>2. \A u \in Threads : Busy(u) /\ Call(u).op = "free" /\ Call(u).at \in PreClear =>
          Call(u).id \in Ids /\ Call(u).id # Call(t).id
    BY <2>1, CallFacts, NoneAssumption DEF Created
  <2>3. \A u \in Threads : Busy(u) /\ Call(u).op = "free" /\ Call(u).at \in PreClear =>
          live'[Call(u).id] = live[Call(u).id]
    BY <1>15, <2>2 DEF NewReturn
  <2> QED
    BY <2>1, <2>3, FreedPop
<1>16. ASSUME FreeLock(t) PROVE Freed'
  <2>1. HeadMoves(t, Call(t).id, "pool") /\ UNCHANGED live
        /\ Call(t).op = "free" /\ Call(t).at = "lock"
    BY <1>16, Turns DEF Turn, FreeLock
  <2>b. Busy(t) /\ Call(t) = stack[t][1] /\ Call(t) \in Frame /\ WellFormed(Call(t))
    BY <2>1, StackFacts, CallFacts DEF HeadMoves
  <2>2. Call(t).inst # None => occupied[Call(t).id]
    BY <2>1, <2>b DEF Freed, PreClear
  <2> QED
    BY <1>16, <2>1, <2>2, FreedMoves DEF FreeLock, slotVars, PreClear
<1>17. ASSUME FreePool(t) PROVE Freed'
  <2>1. HeadMoves(t, Call(t).id, "drop") /\ UNCHANGED live
        /\ Call(t).op = "free" /\ Call(t).at = "pool"
    BY <1>17, Turns DEF Turn, FreePool
  <2>b. Busy(t) /\ Call(t) = stack[t][1] /\ Call(t) \in Frame /\ WellFormed(Call(t))
    BY <2>1, StackFacts, CallFacts DEF HeadMoves
  <2>2. Call(t).inst # None => occupied[Call(t).id]
    BY <2>1, <2>b DEF Freed, PreClear
  <2> QED
    BY <1>17, <2>1, <2>2, FreedMoves DEF FreePool, slotVars, PreClear
<1>18. ASSUME FreeNothing(t) PROVE Freed'
  <2>1. HeadMoves(t, Call(t).id, "unpool") /\ UNCHANGED live
        /\ Call(t).op = "free" /\ Call(t).at = "drop"
    BY <1>18, Turns DEF Turn, FreeNothing
  <2>b. Busy(t) /\ Call(t) = stack[t][1] /\ Call(t) \in Frame /\ WellFormed(Call(t))
    BY <2>1, StackFacts, CallFacts DEF HeadMoves
  <2> QED
    BY <1>18, <2>1, FreedMoves DEF FreeNothing, slotVars, PreClear
<1>19. ASSUME FreeDrop(t) PROVE Freed'
  <2>1. HeadMoves(t, Call(t).id, "clear") /\ UNCHANGED live
        /\ Call(t).op = "free" /\ Call(t).at = "drop"
    BY <1>19, Turns DEF Turn, FreeDrop
  <2>b. Busy(t) /\ Call(t) = stack[t][1] /\ Call(t) \in Frame /\ WellFormed(Call(t))
    BY <2>1, StackFacts, CallFacts DEF HeadMoves
  <2>2. Call(t).inst # None => occupied[Call(t).id]
    BY <2>1, <2>b DEF Freed, PreClear
  <2> QED
    BY <1>19, <2>1, <2>2, FreedMoves DEF FreeDrop, slotVars, PreClear
<1>20. ASSUME FreeClear(t) PROVE Freed'
  <2>1. HeadMoves(t, Call(t).id, "unpool") /\ UNCHANGED live
        /\ Call(t).op = "free" /\ Call(t).at = "clear"
    BY <1>20, Turns DEF Turn, FreeClear
  <2>b. Busy(t) /\ Call(t) = stack[t][1] /\ Call(t) \in Frame /\ WellFormed(Call(t))
    BY <2>1, StackFacts, CallFacts DEF HeadMoves
  <2>2. ASSUME NEW u \in Threads, u # t, Busy(u), Call(u).op = "free"
        PROVE  occupied[Call(u).id] => occupied'[Call(u).id]
    <3>1. Call(u).id # Call(t).id /\ Call(u).id \in Ids
      BY <2>1, <2>2, <2>b, CallFacts DEF Disciplined
    <3> QED
      BY <1>20, <3>1 DEF FreeClear, TypeOK
  <2> QED
    BY <2>1, <2>2, FreedMoves DEF PreClear
<1>21. ASSUME FreeUnpool(t) PROVE Freed'
  <2>1. HeadMoves(t, Call(t).id, "unlock") /\ UNCHANGED live
        /\ Call(t).op = "free" /\ Call(t).at = "unpool"
    BY <1>21, Turns DEF Turn, FreeUnpool
  <2>b. Busy(t) /\ Call(t) = stack[t][1] /\ Call(t) \in Frame /\ WellFormed(Call(t))
    BY <2>1, StackFacts, CallFacts DEF HeadMoves
  <2> QED
    BY <1>21, <2>1, FreedMoves DEF FreeUnpool, slotVars, PreClear
<1>22. ASSUME FreeUnlock(t) PROVE Freed'
  BY <1>22, Returns, FreedPop DEF FreeUnlock
<1> QED
  BY <1>1, <1>2, <1>3, <1>4, <1>5, <1>6, <1>7, <1>8, <1>9, <1>10, <1>11, <1>12, <1>13, <1>14,
     <1>15, <1>16, <1>17, <1>18, <1>19, <1>20, <1>21, <1>22 DEF ApplicationStep, WithStep,
     NewStep, FreeStep


-----------------------------------------------------------------------------
(* t is creating or freeing the instance of slot id.                        *)
Witness(t, id) ==
  /\ Busy(t) /\ Call(t).id = id
  /\ \/ Call(t).op = "new" /\ Call(t).at = "unpool"
     \/ Call(t).op = "free" /\ Call(t).at \in PreClear
(* t has dropped the instance of slot id and is about to clear it.          *)
Clearing(t, id) ==
  Busy(t) /\ Call(t).id = id /\ Call(t).op = "free" /\ Call(t).at = "clear"

(* Known, when a call goes on.                                              *)
LEMMA KnownMoves ==
  ASSUME TypeOK, Nested, Known, NEW t \in Threads, NEW i, NEW a, HeadMoves(t, i, a), UNCHANGED live,
         \A id \in Ids : live[id] # None => occupied'[id] /\ value'[id] = live[id],
         Call(t).op = "new" => Call(t).at # "unpool",
         Call(t).op = "free" /\ Call(t).at \in PreClear =>
           i = Call(t).id /\ (a \in PreClear \/ ~occupied'[i]),
         \A id \in Ids : occupied'[id] /\ ~occupied[id] => id = i /\ Call(t).op = "new" /\ a = "unpool",
         \A id \in Ids : occupied'[id] /\ value'[id] = None =>
           \/ occupied[id] /\ value[id] = None /\ ~Clearing(t, id)
           \/ Call(t).op = "free" /\ a = "clear" /\ i = id
  PROVE  Known'
<1>h. \A u \in Threads : u # t => (Busy(u)' <=> Busy(u)) /\ Call(u)' = Call(u)
  BY SameHeads DEF HeadMoves
<1>t. /\ Busy(t) /\ Busy(t)' /\ Call(t)'.op = Call(t).op /\ Call(t)'.id = i /\ Call(t)'.at = a
  BY DEF HeadMoves
<1>1. ASSUME NEW id \in Ids, occupied'[id], live'[id] = None
      PROVE  \E u \in Threads : Witness(u, id)'
  <2>1. CASE occupied[id]
    <3>1. PICK u \in Threads : Witness(u, id)
      BY <2>1, <1>1 DEF Known, Witness
    <3>2. Witness(u, id)'
      <4>1. CASE u = t
        BY <3>1, <4>1, <1>t, <1>1 DEF Witness, PreClear
      <4>2. CASE u # t
        BY <3>1, <4>2, <1>h DEF Witness, PreClear
      <4> QED
        BY <4>1, <4>2
    <3> QED
      BY <3>2
  <2>2. CASE ~occupied[id]
    BY <2>2, <1>1, <1>t DEF Witness
  <2> QED
    BY <2>1, <2>2
<1>2. ASSUME NEW id \in Ids, occupied'[id], value'[id] = None
      PROVE  \E u \in Threads : Clearing(u, id)'
  <2>1. CASE occupied[id] /\ value[id] = None /\ ~Clearing(t, id)
    <3>1. PICK u \in Threads : Clearing(u, id)
      BY <2>1 DEF Known, Clearing
    <3>2. u # t
      BY <2>1, <3>1
    <3> QED
      BY <3>1, <3>2, <1>h DEF Clearing
  <2>2. CASE Call(t).op = "free" /\ a = "clear" /\ i = id
    BY <2>2, <1>t DEF Clearing
  <2> QED
    BY <2>1, <2>2, <1>2
<1> QED
  BY <1>1, <1>2 DEF Known, Witness, Clearing, PreClear

(* Known, when a call starts.                                               *)
LEMMA KnownPush ==
  ASSUME TypeOK, Nested, Known, NEW t \in Threads, NEW f, Pushed(t, f), UNCHANGED slotVars,
         MayCall(t), f.op = "free" => f.at = "lock",
         \A id \in Ids : live'[id] = live[id] \/ (live'[id] = None /\ f.op = "free" /\ f.id = id)
  PROVE  Known'
<1>h. \A u \in Threads : u # t => (Busy(u)' <=> Busy(u)) /\ Call(u)' = Call(u)
  BY SameHeads DEF Pushed
<1>t. Busy(t)' /\ Call(t)' = f
  BY DEF Pushed
<1>w. Busy(t) => Call(t).op = "with"
  BY MayCallFacts
<1>1. ASSUME NEW id \in Ids, occupied'[id], live'[id] = None
      PROVE  \E u \in Threads : Witness(u, id)'
  <2>1. CASE live[id] = None
    <3>1. PICK u \in Threads : Witness(u, id)
      BY <2>1, <1>1 DEF Known, Witness, slotVars
    <3>2. u # t
      BY <3>1, <1>w DEF Witness
    <3> QED
      BY <3>1, <3>2, <1>h DEF Witness, PreClear
  <2>2. CASE live[id] # None
    BY <2>2, <1>1, <1>t DEF Witness, PreClear
  <2> QED
    BY <2>1, <2>2
<1>2. ASSUME NEW id \in Ids, occupied'[id], value'[id] = None
      PROVE  \E u \in Threads : Clearing(u, id)'
  <2>1. PICK u \in Threads : Clearing(u, id)
    BY <1>2 DEF Known, Clearing, slotVars
  <2>2. u # t
    BY <2>1, <1>w DEF Clearing
  <2> QED
    BY <2>1, <2>2, <1>h DEF Clearing
<1>3. \A id \in Ids : live'[id] # None => occupied'[id] /\ value'[id] = live'[id]
  BY DEF Known, slotVars
<1> QED
  BY <1>1, <1>2, <1>3 DEF Known, Witness, Clearing, PreClear

(* Known, when a call returns.                                              *)
LEMMA KnownPop ==
  ASSUME TypeOK, Nested, Known, NEW t \in Threads, Popped(t), UNCHANGED slotVars,
         Call(t).op = "free" => Call(t).at = "unlock",
         \A id \in Ids : live'[id] # None => occupied[id] /\ value[id] = live'[id],
         \A id \in Ids : live'[id] = None => live[id] = None /\ ~(Call(t).op = "new" /\ Call(t).id = id)
  PROVE  Known'
<1>h. \A u \in Threads : u # t => (Busy(u)' <=> Busy(u)) /\ Call(u)' = Call(u)
  BY SameHeads DEF Popped
<1>1. ASSUME NEW id \in Ids, occupied'[id], live'[id] = None
      PROVE  \E u \in Threads : Witness(u, id)'
  <2>1. PICK u \in Threads : Witness(u, id)
    BY <1>1 DEF Known, Witness, slotVars
  <2>2. u # t
    BY <2>1, <1>1 DEF Witness, PreClear
  <2> QED
    BY <2>1, <2>2, <1>h DEF Witness, PreClear
<1>2. ASSUME NEW id \in Ids, occupied'[id], value'[id] = None
      PROVE  \E u \in Threads : Clearing(u, id)'
  <2>1. PICK u \in Threads : Clearing(u, id)
    BY <1>2 DEF Known, Clearing, slotVars
  <2>2. u # t
    BY <2>1 DEF Clearing
  <2> QED
    BY <2>1, <2>2, <1>h DEF Clearing
<1>3. \A id \in Ids : live'[id] # None => occupied'[id] /\ value'[id] = live'[id]
  BY DEF slotVars
<1> QED
  BY <1>1, <1>2, <1>3 DEF Known, Witness, Clearing, PreClear

(* No step breaks Known.                                                    *)
LEMMA KnownStep ==
  ASSUME TypeOK, Nested, Created, Freed, Known, NEW t \in Threads,
         ApplicationStep(t) \/ WithStep(t) \/ NewStep(t) \/ FreeStep(t), UNCHANGED hooks
  PROVE  Known'
<1>1. ASSUME NEW id \in Ids, CallWith(t, id) PROVE Known'
  <2>1. Pushed(t, CallWithFrame(id)) /\ UNCHANGED <<slotVars, live>> /\ MayCall(t)
    BY <1>1, Calls DEF CallWith
  <2> QED
    BY <2>1, KnownPush DEF CallWithFrame
<1>2. ASSUME NEW id \in Ids, CallFree(t, id) PROVE Known'
  <2>1. Pushed(t, CallFreeFrame(id)) /\ UNCHANGED slotVars /\ live' = [live EXCEPT ![id] = None]
        /\ MayCall(t)
    BY <1>2, Calls DEF CallFree
  <2>2. \A i \in Ids : live'[i] = live[i] \/ (live'[i] = None /\ i = id)
    BY <2>1 DEF TypeOK
  <2> QED
    BY <2>1, <2>2, KnownPush DEF CallFreeFrame
<1>3. ASSUME NEW k \in Kinds, NEW n \in Instances, CallNew(t, k, n) PROVE Known'
  <2>1. Pushed(t, CallNewFrame(k, n)) /\ UNCHANGED <<slotVars, live>> /\ MayCall(t)
    BY <1>3, Calls DEF CallNew
  <2> QED
    BY <2>1, KnownPush DEF CallNewFrame
<1>4. ASSUME WithLock(t) PROVE Known'
  <2>1. HeadMoves(t, Call(t).id, "check") /\ UNCHANGED live
        /\ Call(t).op = "with" /\ Call(t).at = "lock"
    BY <1>4, Turns DEF Turn, WithLock
  <2>b. Busy(t) /\ Call(t) = stack[t][1] /\ Call(t) \in Frame /\ WellFormed(Call(t))
    BY <2>1, StackFacts, CallFacts DEF HeadMoves
  <2>2. \A id \in Ids : live[id] # None => occupied'[id] /\ value'[id] = live[id]
    BY <1>4 DEF WithLock, slotVars, Known
  <2> QED
    BY <1>4, <2>1, <2>2, KnownMoves DEF WithLock, slotVars, PreClear, Clearing
<1>5. ASSUME WithInvalid(t) PROVE Known'
  <2>1. HeadMoves(t, Call(t).id, "unlock") /\ UNCHANGED live
        /\ Call(t).op = "with" /\ Call(t).at = "check"
    BY <1>5, Turns DEF Turn, WithInvalid
  <2>b. Busy(t) /\ Call(t) = stack[t][1] /\ Call(t) \in Frame /\ WellFormed(Call(t))
    BY <2>1, StackFacts, CallFacts DEF HeadMoves
  <2>2. \A id \in Ids : live[id] # None => occupied'[id] /\ value'[id] = live[id]
    BY <1>5 DEF WithInvalid, slotVars, Known
  <2> QED
    BY <1>5, <2>1, <2>2, KnownMoves DEF WithInvalid, slotVars, PreClear, Clearing
<1>6. ASSUME WithBusy(t) PROVE Known'
  <2>1. HeadMoves(t, Call(t).id, "unlock") /\ UNCHANGED live
        /\ Call(t).op = "with" /\ Call(t).at = "check"
    BY <1>6, Turns DEF Turn, WithBusy
  <2>b. Busy(t) /\ Call(t) = stack[t][1] /\ Call(t) \in Frame /\ WellFormed(Call(t))
    BY <2>1, StackFacts, CallFacts DEF HeadMoves
  <2>2. \A id \in Ids : live[id] # None => occupied'[id] /\ value'[id] = live[id]
    BY <1>6 DEF WithBusy, slotVars, Known
  <2> QED
    BY <1>6, <2>1, <2>2, KnownMoves DEF WithBusy, slotVars, PreClear, Clearing
<1>7. ASSUME WithBorrow(t) PROVE Known'
  <2>1. HeadMoves(t, Call(t).id, "run") /\ UNCHANGED live
        /\ Call(t).op = "with" /\ Call(t).at = "check"
    BY <1>7, Turns DEF Turn, WithBorrow
  <2>b. Busy(t) /\ Call(t) = stack[t][1] /\ Call(t) \in Frame /\ WellFormed(Call(t))
    BY <2>1, StackFacts, CallFacts DEF HeadMoves
  <2>2. \A id \in Ids : live[id] # None => occupied'[id] /\ value'[id] = live[id]
    BY <1>7 DEF WithBorrow, slotVars, Known
  <2> QED
    BY <1>7, <2>1, <2>2, KnownMoves DEF WithBorrow, slotVars, PreClear, Clearing
<1>8. ASSUME WithDone(t) PROVE Known'
  <2>1. HeadMoves(t, Call(t).id, "unlock") /\ UNCHANGED live
        /\ Call(t).op = "with" /\ Call(t).at = "run"
    BY <1>8, Turns DEF Turn, WithDone
  <2>b. Busy(t) /\ Call(t) = stack[t][1] /\ Call(t) \in Frame /\ WellFormed(Call(t))
    BY <2>1, StackFacts, CallFacts DEF HeadMoves
  <2>2. \A id \in Ids : live[id] # None => occupied'[id] /\ value'[id] = live[id]
    BY <1>8 DEF WithDone, slotVars, Known
  <2> QED
    BY <1>8, <2>1, <2>2, KnownMoves DEF WithDone, slotVars, PreClear, Clearing
<1>9. ASSUME WithUnlock(t) PROVE Known'
  <2>1. \A id \in Ids : live[id] # None => occupied[id] /\ value[id] = live[id]
    BY DEF Known
  <2> QED
    BY <1>9, <2>1, Returns, KnownPop DEF WithUnlock
<1>10. ASSUME NewPool(t) PROVE Known'
  <2>1. HeadMoves(t, Call(t).id, "scan") /\ UNCHANGED live
        /\ Call(t).op = "new" /\ Call(t).at = "pool"
    BY <1>10, Turns DEF Turn, NewPool
  <2>b. Busy(t) /\ Call(t) = stack[t][1] /\ Call(t) \in Frame /\ WellFormed(Call(t))
    BY <2>1, StackFacts, CallFacts DEF HeadMoves
  <2>2. \A id \in Ids : live[id] # None => occupied'[id] /\ value'[id] = live[id]
    BY <1>10 DEF NewPool, slotVars, Known
  <2> QED
    BY <1>10, <2>1, <2>2, KnownMoves DEF NewPool, slotVars, PreClear, Clearing
<1>11. ASSUME NewScan(t) PROVE Known'
  <2>1. PICK i \in Ids : HeadMoves(t, i, "write") /\ Call(t).op = "new" /\ Call(t).at = "scan"
    BY <1>11, ScanTurns
  <2>2. \A id \in Ids : live[id] # None => occupied'[id] /\ value'[id] = live[id]
    BY <1>11 DEF NewScan, slotVars, Known
  <2> QED
    BY <1>11, <2>1, <2>2, KnownMoves DEF NewScan, slotVars, Clearing
<1>12. ASSUME NewFull(t) PROVE Known'
  <2>1. HeadMoves(t, Call(t).id, "unpool") /\ UNCHANGED live
        /\ Call(t).op = "new" /\ Call(t).at = "scan"
    BY <1>12, Turns DEF Turn, NewFull
  <2>b. Busy(t) /\ Call(t) = stack[t][1] /\ Call(t) \in Frame /\ WellFormed(Call(t))
    BY <2>1, StackFacts, CallFacts DEF HeadMoves
  <2>2. \A id \in Ids : live[id] # None => occupied'[id] /\ value'[id] = live[id]
    BY <1>12 DEF NewFull, slotVars, Known
  <2> QED
    BY <1>12, <2>1, <2>2, KnownMoves DEF NewFull, slotVars, PreClear, Clearing
<1>13. ASSUME NewWrite(t) PROVE Known'
  <2>1. HeadMoves(t, Call(t).id, "publish") /\ UNCHANGED live
        /\ Call(t).op = "new" /\ Call(t).at = "write"
    BY <1>13, Turns DEF Turn, NewWrite
  <2>b. Busy(t) /\ Call(t) = stack[t][1] /\ Call(t) \in Frame /\ WellFormed(Call(t))
    BY <2>1, StackFacts, CallFacts DEF HeadMoves
  <2>i. Call(t).id \in Ids /\ ~occupied[Call(t).id] /\ Call(t).inst # None
    BY <2>1, <2>b, NoneAssumption DEF WellFormed, Created
  <2>2. \A id \in Ids : live[id] # None => occupied'[id] /\ value'[id] = live[id]
    BY <1>13, <2>i DEF NewWrite, Known, TypeOK
  <2>3. \A id \in Ids : occupied'[id] /\ value'[id] = None => occupied[id] /\ value[id] = None
    BY <1>13, <2>i DEF NewWrite, TypeOK
  <2> QED
    BY <1>13, <2>1, <2>2, <2>3, KnownMoves DEF NewWrite, Clearing
<1>14. ASSUME NewPublish(t) PROVE Known'
  <2>1. HeadMoves(t, Call(t).id, "unpool") /\ UNCHANGED live
        /\ Call(t).op = "new" /\ Call(t).at = "publish"
    BY <1>14, Turns DEF Turn, NewPublish
  <2>b. Busy(t) /\ Call(t) = stack[t][1] /\ Call(t) \in Frame /\ WellFormed(Call(t))
    BY <2>1, StackFacts, CallFacts DEF HeadMoves
  <2>i. Call(t).id \in Ids /\ value[Call(t).id] = Call(t).inst /\ Call(t).inst # None
    BY <2>1, <2>b, NoneAssumption DEF WellFormed, Created
  <2>2. \A id \in Ids : live[id] # None => occupied'[id] /\ value'[id] = live[id]
    BY <1>14 DEF NewPublish, Known, TypeOK
  <2>3. \A id \in Ids : occupied'[id] /\ value'[id] = None => occupied[id] /\ value[id] = None
    BY <1>14, <2>i DEF NewPublish, TypeOK
  <2>4. \A id \in Ids : occupied'[id] /\ ~occupied[id] => id = Call(t).id
    BY <1>14 DEF NewPublish, TypeOK
  <2> QED
    BY <2>1, <2>2, <2>3, <2>4, KnownMoves DEF Clearing
<1>15. ASSUME NewReturn(t) PROVE Known'
  <2>1. Popped(t) /\ Call(t).op = "new" /\ Call(t).at = "unpool" /\ Busy(t) /\ UNCHANGED slotVars
    BY <1>15, Returns DEF Popped, NewReturn
  <2>2. Call(t).inst # None
    BY <2>1, CallFacts DEF WellFormed
  <2>3. Call(t).id \in Ids => occupied[Call(t).id] /\ value[Call(t).id] = Call(t).inst
    BY <2>1, NoneAssumption DEF Created
  <2>4. \A id \in Ids : live'[id] = IF id = Call(t).id THEN Call(t).inst ELSE live[id]
    BY <1>15 DEF NewReturn
  <2>5. \A id \in Ids : live'[id] # None => occupied[id] /\ value[id] = live'[id]
    BY <2>3, <2>4 DEF Known
  <2> QED
    BY <2>1, <2>2, <2>4, <2>5, KnownPop
<1>16. ASSUME FreeLock(t) PROVE Known'
  <2>1. HeadMoves(t, Call(t).id, "pool") /\ UNCHANGED live
        /\ Call(t).op = "free" /\ Call(t).at = "lock"
    BY <1>16, Turns DEF Turn, FreeLock
  <2>b. Busy(t) /\ Call(t) = stack[t][1] /\ Call(t) \in Frame /\ WellFormed(Call(t))
    BY <2>1, StackFacts, CallFacts DEF HeadMoves
  <2>2. \A id \in Ids : live[id] # None => occupied'[id] /\ value'[id] = live[id]
    BY <1>16 DEF FreeLock, slotVars, Known
  <2> QED
    BY <1>16, <2>1, <2>2, KnownMoves DEF FreeLock, slotVars, PreClear, Clearing
<1>17. ASSUME FreePool(t) PROVE Known'
  <2>1. HeadMoves(t, Call(t).id, "drop") /\ UNCHANGED live
        /\ Call(t).op = "free" /\ Call(t).at = "pool"
    BY <1>17, Turns DEF Turn, FreePool
  <2>b. Busy(t) /\ Call(t) = stack[t][1] /\ Call(t) \in Frame /\ WellFormed(Call(t))
    BY <2>1, StackFacts, CallFacts DEF HeadMoves
  <2>2. \A id \in Ids : live[id] # None => occupied'[id] /\ value'[id] = live[id]
    BY <1>17 DEF FreePool, slotVars, Known
  <2> QED
    BY <1>17, <2>1, <2>2, KnownMoves DEF FreePool, slotVars, PreClear, Clearing
<1>18. ASSUME FreeNothing(t) PROVE Known'
  <2>1. HeadMoves(t, Call(t).id, "unpool") /\ UNCHANGED live
        /\ Call(t).op = "free" /\ Call(t).at = "drop"
    BY <1>18, Turns DEF Turn, FreeNothing
  <2>b. Busy(t) /\ Call(t) = stack[t][1] /\ Call(t) \in Frame /\ WellFormed(Call(t))
    BY <2>1, StackFacts, CallFacts DEF HeadMoves
  <2>2. \A id \in Ids : live[id] # None => occupied'[id] /\ value'[id] = live[id]
    BY <1>18 DEF FreeNothing, slotVars, Known
  <2> QED
    BY <1>18, <2>1, <2>2, KnownMoves DEF FreeNothing, slotVars, PreClear, Clearing
<1>19. ASSUME FreeDrop(t) PROVE Known'
  <2>1. HeadMoves(t, Call(t).id, "clear") /\ UNCHANGED live
        /\ Call(t).op = "free" /\ Call(t).at = "drop"
    BY <1>19, Turns DEF Turn, FreeDrop
  <2>b. Busy(t) /\ Call(t) = stack[t][1] /\ Call(t) \in Frame /\ WellFormed(Call(t))
    BY <2>1, StackFacts, CallFacts DEF HeadMoves
  <2>i. Call(t).id \in Ids /\ live[Call(t).id] = None
    BY <2>1, <2>b, CallFacts DEF Freed, PreClear
  <2>2. \A id \in Ids : live[id] # None => occupied'[id] /\ value'[id] = live[id]
    BY <1>19, <2>i DEF FreeDrop, Known, TypeOK
  <2>3. \A id \in Ids : occupied'[id] /\ value'[id] = None =>
          (occupied[id] /\ value[id] = None) \/ Call(t).id = id
    BY <1>19, <2>i DEF FreeDrop, TypeOK
  <2> QED
    BY <1>19, <2>1, <2>2, <2>3, KnownMoves DEF FreeDrop, Clearing, PreClear
<1>20. ASSUME FreeClear(t) PROVE Known'
  <2>1. HeadMoves(t, Call(t).id, "unpool") /\ UNCHANGED live
        /\ Call(t).op = "free" /\ Call(t).at = "clear"
    BY <1>20, Turns DEF Turn, FreeClear
  <2>b. Busy(t) /\ Call(t) = stack[t][1] /\ Call(t) \in Frame /\ WellFormed(Call(t))
    BY <2>1, StackFacts, CallFacts DEF HeadMoves
  <2>i. Call(t).id \in Ids /\ live[Call(t).id] = None
    BY <2>1, <2>b, CallFacts DEF Freed, PreClear
  <2>2. \A id \in Ids : live[id] # None => occupied'[id] /\ value'[id] = live[id]
    BY <1>20, <2>i DEF FreeClear, Known, TypeOK
  <2>3. \A id \in Ids : occupied'[id] => occupied[id] /\ id # Call(t).id
    BY <1>20, <2>i DEF FreeClear, TypeOK
  <2>4. \A id \in Ids : occupied'[id] /\ value'[id] = None =>
          occupied[id] /\ value[id] = None /\ ~Clearing(t, id)
    BY <1>20, <2>3 DEF FreeClear, Clearing
  <2> QED
    BY <2>1, <2>2, <2>i, <2>3, <2>4, KnownMoves
<1>21. ASSUME FreeUnpool(t) PROVE Known'
  <2>1. HeadMoves(t, Call(t).id, "unlock") /\ UNCHANGED live
        /\ Call(t).op = "free" /\ Call(t).at = "unpool"
    BY <1>21, Turns DEF Turn, FreeUnpool
  <2>b. Busy(t) /\ Call(t) = stack[t][1] /\ Call(t) \in Frame /\ WellFormed(Call(t))
    BY <2>1, StackFacts, CallFacts DEF HeadMoves
  <2>2. \A id \in Ids : live[id] # None => occupied'[id] /\ value'[id] = live[id]
    BY <1>21 DEF FreeUnpool, slotVars, Known
  <2> QED
    BY <1>21, <2>1, <2>2, KnownMoves DEF FreeUnpool, slotVars, PreClear, Clearing
<1>22. ASSUME FreeUnlock(t) PROVE Known'
  <2>1. \A id \in Ids : live[id] # None => occupied[id] /\ value[id] = live[id]
    BY DEF Known
  <2> QED
    BY <1>22, <2>1, Returns, KnownPop DEF FreeUnlock
<1> QED
  BY <1>1, <1>2, <1>3, <1>4, <1>5, <1>6, <1>7, <1>8, <1>9, <1>10, <1>11, <1>12, <1>13, <1>14,
     <1>15, <1>16, <1>17, <1>18, <1>19, <1>20, <1>21, <1>22 DEF ApplicationStep, WithStep,
     NewStep, FreeStep


-----------------------------------------------------------------------------
(* The inductive invariant.                                                 *)
IndInv ==
  TypeOK /\ Nested /\ Locked /\ Disciplined /\ Borrowed /\ Created /\ Freed /\ Known

(* It holds at the start.                                                   *)
LEMMA InitInv == Init => IndInv
<1> SUFFICES ASSUME Init PROVE IndInv
  OBVIOUS
<1>1. \A t \in Threads : stack[t] = <<>> /\ ~Busy(t) /\ DOMAIN stack[t] = {}
  BY DEF Init, Busy
<1>2. Frames = {}
  BY <1>1 DEF Frames
<1>3. TypeOK
  <2>1. stack \in [Threads -> Seq(Frame)]
    BY DEF Init
  <2> QED
    BY <1>2, <2>1 DEF TypeOK, Init
<1>4. Nested
  BY <1>1 DEF Nested
<1>5. Locked
  BY <1>1, NoneAssumption DEF Locked, Init
<1>6. Disciplined /\ Borrowed /\ Created /\ Freed
  BY <1>1 DEF Disciplined, Borrowed, Created, Freed
<1>7. Known
  BY DEF Known, Init
<1> QED
  BY <1>3, <1>4, <1>5, <1>6, <1>7 DEF IndInv

(* It is about the variables only.                                          *)
LEMMA StutterInv ==
  ASSUME IndInv, UNCHANGED vars
  PROVE  IndInv'
<1> USE DEF vars, Busy, Call, WellFormed, HoldsPool, HoldsInstance, LockOf, PoolLock, PreClear
<1>1. TypeOK'
  BY DEF IndInv, TypeOK, Frames, Locks
<1>2. Nested' /\ Created' /\ Freed'
  BY DEF IndInv, Nested, Created, Freed
<1>3. Locked'
  BY DEF IndInv, Locked, Locks
<1>4. Disciplined'
  BY DEF IndInv, Disciplined, Creating, Frames
<1>5. Borrowed' /\ Known'
  BY DEF IndInv, Borrowed, Known
<1> QED
  BY <1>1, <1>2, <1>3, <1>4, <1>5 DEF IndInv

(* It is inductive.                                                         *)
LEMMA InductiveInv == IndInv /\ [Next]_vars => IndInv'
<1> SUFFICES ASSUME IndInv, [Next]_vars PROVE IndInv'
  OBVIOUS
<1>1. ASSUME NEW t \in Threads, UNCHANGED hooks,
             ApplicationStep(t) \/ WithStep(t) \/ NewStep(t) \/ FreeStep(t)
      PROVE  IndInv'
  BY <1>1, TypeStep, NestedStep, LockedStep, DisciplinedStep, BorrowedStep, CreatedStep, FreedStep,
     KnownStep DEF IndInv
<1>2. CASE UNCHANGED vars
  BY <1>2, StutterInv
<1> QED
  BY <1>1, <1>2 DEF Next

(* It holds throughout.                                                     *)
LEMMA Invariant == Spec => []IndInv
BY InitInv, InductiveInv, PTL DEF Spec

(* Every variable keeps its type; the calls in progress, that of their sub- *)
(* pool.                                                                    *)
THEOREM TypeCorrect == Spec => []TypeOK
<1>1. IndInv => TypeOK
  BY DEF IndInv
<1> QED
  BY <1>1, Invariant, PTL

(* A call waits for an instance's lock before it has any, and for the       *)
(* pool's without having it.                                                *)
LEMMA InOrder ==
  ASSUME IndInv
  PROVE  WaitsInOrder
<1> USE DEF IndInv
<1> SUFFICES ASSUME NEW t \in Threads, NEW l \in Locks, Waits(t, l)
             PROVE  IF l = PoolLock THEN PoolLock \notin Holds(t) ELSE Holds(t) = {}
  BY DEF WaitsInOrder
<1>1. Busy(t) /\ owner[l] # None
  BY DEF Waits, Busy
<1>2. hooks = "mutex"
  BY <1>1, PoolAssumption DEF TypeOK, Locked
<1>3. \A m \in Locks : m \in Holds(t) <=>
        \/ m = PoolLock /\ HoldsPool(Call(t))
        \/ m # PoolLock /\ HoldsInstance(Call(t)) /\ m = LockOf(Call(t).id)
  BY <1>1, <1>2 DEF Locked, Holds
<1>4. Holds(t) \subseteq Locks
  BY DEF Holds
<1>5. \A id \in Ids : LockOf(id) # PoolLock /\ FreeLocks(id)[1] = LockOf(id) /\ FreeLocks(id)[2] = PoolLock
  BY IdFacts DEF FreeLocks
<1>6. Call(t).op \in {"with", "free"} => Call(t).id \in Ids
  BY <1>1, CallFacts
<1>7. CASE l = PoolLock
  <2>1. ~HoldsPool(Call(t))
    BY <1>5, <1>6, <1>7 DEF Waits, HoldsPool
  <2> QED
    BY <1>3, <1>7, <2>1, IdFacts
<1>8. CASE l # PoolLock
  <2>1. ~HoldsPool(Call(t)) /\ ~HoldsInstance(Call(t))
    BY <1>5, <1>6, <1>8 DEF Waits, HoldsPool, HoldsInstance
  <2> QED
    BY <1>3, <1>4, <1>8, <2>1
<1> QED
  BY <1>7, <1>8

(* No cycle of waiting threads can close in mbus-ffi, whatever it is used   *)
(* for at the same time: instance locks are waited for with nothing held,   *)
(* the pool's is the last one taken.                                        *)
THEOREM LocksInOrder == Spec => []WaitsInOrder
BY InOrder, Invariant, PTL

(* Slots without an owner are being created or freed.                       *)
LEMMA Sound ==
  ASSUME IndInv
  PROVE  HandlesSound
<1> SUFFICES ASSUME NEW id \in Ids
             PROVE  /\ live[id] # None => occupied[id] /\ value[id] = live[id]
                    /\ occupied[id] /\ live[id] = None => \E f \in Frames : f.op # "with" /\ f.id = id
  BY DEF HandlesSound
<1>1. live[id] # None => occupied[id] /\ value[id] = live[id]
  BY DEF IndInv, Known
<1>2. ASSUME occupied[id], live[id] = None
      PROVE  \E f \in Frames : f.op # "with" /\ f.id = id
  <2>1. PICK t \in Threads : Witness(t, id)
    BY <1>2 DEF IndInv, Known, Witness
  <2>2. Call(t) \in Frames
    BY <2>1, StackFacts, FramesFacts DEF Witness, IndInv
  <2> QED
    BY <2>1, <2>2 DEF Witness
<1> QED
  BY <1>1, <1>2

(* An id the application holds names its instance, and no slot leaks,       *)
(* through any interleaving of creations, uses and frees.                   *)
THEOREM HandlesKept == Spec => []HandlesSound
BY Sound, Invariant, PTL

(* Who runs on a slot is alone there and has its instance.                  *)
LEMMA Exclusive ==
  ASSUME IndInv
  PROVE  ExclusiveUse
<1> USE DEF IndInv
<1> SUFFICES ASSUME NEW id \in Ids, Users(id) # {}
             PROVE  /\ Cardinality(Users(id)) = 1
                    /\ occupied[id] /\ borrow_flag[id] /\ value[id] # None
                    /\ \A u \in Users(id) :
                         stack[u[1]][u[2]].inst # None => stack[u[1]][u[2]].inst = value[id]
  BY DEF ExclusiveUse
<1>1. ASSUME NEW u \in Users(id)
      PROVE  /\ u = <<u[1], u[2]>> /\ u[1] \in Threads /\ u[2] \in DOMAIN stack[u[1]]
             /\ stack[u[1]][u[2]].op = "with" /\ stack[u[1]][u[2]].at = "run"
             /\ stack[u[1]][u[2]].id = id
  BY <1>1 DEF Users
<1>2. PICK w \in Users(id) : TRUE
  OBVIOUS
<1>3. ASSUME NEW u \in Users(id) PROVE u = w
  <2>1. u[1] = w[1] /\ u[2] = w[2]
    BY <1>1, <1>2, <1>3, UsedOnce
  <2> QED
    BY <2>1, <1>1, <1>2, <1>3
<1>4. Cardinality(Users(id)) = 1
  <2>1. Users(id) = {w}
    BY <1>2, <1>3
  <2> QED
    BY <2>1, FS_Singleton
<1>5. occupied[id] /\ borrow_flag[id]
  BY <1>1, <1>2 DEF Borrowed
<1>6. value[id] # None
  <2> SUFFICES ASSUME value[id] = None PROVE FALSE
    OBVIOUS
  <2>1. PICK t \in Threads : Clearing(t, id)
    BY <1>5 DEF Known, Clearing
  <2>2. Busy(t) /\ Call(t).op = "free" /\ HoldsInstance(Call(t)) /\ Call(t).id = id
    BY <2>1 DEF Clearing, HoldsInstance
  <2> QED
    BY <2>2, <1>1, <1>2, NotFreedInUse
<1>7. \A u \in Users(id) : stack[u[1]][u[2]].inst # None => stack[u[1]][u[2]].inst = value[id]
  BY <1>1, <1>6 DEF Borrowed
<1> QED
  BY <1>4, <1>5, <1>6, <1>7

(* assume_init_mut is sound: the reference a with_* call works on is the    *)
(* only one, to the instance that was meant, and nobody drops the instance  *)
(* meanwhile.                                                               *)
THEOREM UsedExclusively == Spec => []ExclusiveUse
BY Exclusive, Invariant, PTL


(* The calls that are about to write or read a field.                       *)
LEMMA AccessCases ==
  ASSUME IndInv, NEW t \in Threads, NEW x
  PROVE  /\ x \in Writes(t) =>
              /\ Busy(t) /\ Call(t).id \in Ids
              /\ \/ /\ x = <<"value", Call(t).id>>
                    /\ \/ Call(t).op = "with" /\ Call(t).at = "run"
                       \/ Call(t).op = "free" /\ Call(t).at = "drop"
                       \/ Call(t).op = "new" /\ Call(t).at = "write"
                 \/ /\ x = <<"occupied", Call(t).id>>
                    /\ \/ Call(t).op = "new" /\ Call(t).at = "publish"
                       \/ Call(t).op = "free" /\ Call(t).at = "clear"
         /\ x \in Reads(t) =>
              /\ Busy(t)
              /\ \/ Call(t).op = "new" /\ Call(t).at = "scan" /\ x[1] = "occupied"
                 \/ /\ x = <<"occupied", Call(t).id>> /\ Call(t).id \in Ids
                    /\ \/ Call(t).op = "with" /\ Call(t).at = "check"
                       \/ Call(t).op = "free" /\ Call(t).at = "drop"
<1>1. Busy(t) => WellFormed(Call(t))
  BY CallFacts DEF IndInv
<1>2. ASSUME x \in Writes(t)
      PROVE  /\ Busy(t) /\ Call(t).id \in Ids
             /\ \/ /\ x = <<"value", Call(t).id>>
                   /\ \/ Call(t).op = "with" /\ Call(t).at = "run"
                      \/ Call(t).op = "free" /\ Call(t).at = "drop"
                      \/ Call(t).op = "new" /\ Call(t).at = "write"
                \/ /\ x = <<"occupied", Call(t).id>>
                   /\ \/ Call(t).op = "new" /\ Call(t).at = "publish"
                      \/ Call(t).op = "free" /\ Call(t).at = "clear"
  <2>1. Busy(t)
    BY <1>2 DEF Writes, Busy
  <2>2. CASE Call(t).at \in {"run", "drop", "write"}
    <3>1. x = <<"value", Call(t).id>>
      BY <1>2, <2>1, <2>2 DEF Writes, Busy
    <3> QED
      BY <1>1, <2>1, <2>2, <3>1 DEF WellFormed, PreClear
  <2>3. CASE Call(t).at \in {"publish", "clear"}
    <3>1. x = <<"occupied", Call(t).id>>
      BY <1>2, <2>1, <2>3 DEF Writes, Busy
    <3> QED
      BY <1>1, <2>1, <2>3, <3>1 DEF WellFormed, PreClear
  <2>4. CASE Call(t).at \notin {"run", "drop", "write", "publish", "clear"}
    BY <1>2, <2>1, <2>4 DEF Writes, Busy
  <2> QED
    BY <2>2, <2>3, <2>4
<1>3. ASSUME x \in Reads(t)
      PROVE  /\ Busy(t)
             /\ \/ Call(t).op = "new" /\ Call(t).at = "scan" /\ x[1] = "occupied"
                \/ /\ x = <<"occupied", Call(t).id>> /\ Call(t).id \in Ids
                   /\ \/ Call(t).op = "with" /\ Call(t).at = "check"
                      \/ Call(t).op = "free" /\ Call(t).at = "drop"
  <2>1. Busy(t)
    BY <1>3 DEF Reads, Busy
  <2>2. CASE Call(t).op = "new" /\ Call(t).at = "scan"
    BY <1>3, <2>1, <2>2 DEF Reads, Busy
  <2>3. CASE Call(t).at \in {"check", "drop"}
    <3>1. x = <<"occupied", Call(t).id>>
      BY <1>3, <2>1, <2>3 DEF Reads, Busy
    <3> QED
      BY <1>1, <2>1, <2>3, <3>1 DEF WellFormed, PreClear
  <2>4. CASE ~(Call(t).op = "new" /\ Call(t).at = "scan") /\ Call(t).at \notin {"check", "drop"}
    BY <1>3, <2>1, <2>4 DEF Reads, Busy
  <2> QED
    BY <2>2, <2>3, <2>4
<1> QED
  BY <1>2, <1>3

(* Two threads that both hold instance locks hold those of different slots. *)
LEMMA HeadsApart ==
  ASSUME IndInv, NEW t \in Threads, NEW u \in Threads, t # u, Busy(t), Busy(u),
         HoldsInstance(Call(t)), HoldsInstance(Call(u)),
         Call(t).id \in Ids, Call(u).id \in Ids
  PROVE  Call(t).id # Call(u).id
<1>1. hooks \in {"mutex", "nothing"}
  BY PoolAssumption DEF IndInv, TypeOK
<1>2. CASE hooks = "nothing"
  BY <1>2 DEF IndInv, Nested
<1>3. CASE hooks = "mutex"
  <2>1. \A id \in Ids : LockOf(id) \in Locks /\ LockOf(id) # PoolLock
    BY IdFacts
  <2>2. owner[LockOf(Call(t).id)] = t /\ owner[LockOf(Call(u).id)] = u
    BY <1>3, <2>1 DEF IndInv, Locked
  <2> QED
    BY <2>2
<1> QED
  BY <1>1, <1>2, <1>3

(* No two threads are about to conflict on a field.                         *)
LEMMA NoRace ==
  ASSUME IndInv, NEW t \in Threads, NEW u \in Threads, t # u, NEW x \in Writes(t),
         x \in Reads(u) \cup Writes(u)
  PROVE  FALSE
<1>1. /\ Busy(t) /\ Call(t).id \in Ids
      /\ \/ /\ x = <<"value", Call(t).id>>
            /\ \/ Call(t).op = "with" /\ Call(t).at = "run"
               \/ Call(t).op = "free" /\ Call(t).at = "drop"
               \/ Call(t).op = "new" /\ Call(t).at = "write"
         \/ /\ x = <<"occupied", Call(t).id>>
            /\ \/ Call(t).op = "new" /\ Call(t).at = "publish"
               \/ Call(t).op = "free" /\ Call(t).at = "clear"
  BY AccessCases
<1>2. /\ Busy(u)
      /\ \/ /\ x = <<"value", Call(u).id>> /\ Call(u).id \in Ids
            /\ \/ Call(u).op = "with" /\ Call(u).at = "run"
               \/ Call(u).op = "free" /\ Call(u).at = "drop"
               \/ Call(u).op = "new" /\ Call(u).at = "write"
         \/ /\ x[1] = "occupied"
            /\ \/ Call(u).op = "new" /\ Call(u).at \in {"scan", "publish"}
               \/ Call(u).op = "free" /\ Call(u).at \in {"drop", "clear"}
               \/ Call(u).op = "with" /\ Call(u).at = "check" /\ x = <<"occupied", Call(u).id>>
  BY AccessCases
<1>3. ~(HoldsPool(Call(t)) /\ HoldsPool(Call(u)))
  BY <1>1, <1>2, PoolAlone DEF IndInv
<1>4. ASSUME x = <<"value", Call(t).id>>, x = <<"value", Call(u).id>>
      PROVE  FALSE
  <2>1. Call(t).id = Call(u).id
    BY <1>4
  <2>2. ~(HoldsInstance(Call(t)) /\ HoldsInstance(Call(u)))
    BY <1>1, <1>2, <2>1, HeadsApart
  <2>3. \A v \in Threads : Busy(v) /\ Call(v).op = "new" /\ Call(v).at = "write" =>
          Call(v).id # None /\ ~occupied[Call(v).id]
    BY CallFacts, NoneAssumption DEF WellFormed, IndInv, Created
  <2>4. \A v \in Threads : Busy(v) /\ Call(v).op = "with" /\ Call(v).at = "run" => occupied[Call(v).id]
    BY StackFacts DEF IndInv, Borrowed
  <2> QED
    BY <1>1, <1>2, <1>3, <2>1, <2>2, <2>3, <2>4, <1>4 DEF HoldsPool, HoldsInstance
<1>5. CASE x = <<"value", Call(t).id>>
  BY <1>2, <1>4, <1>5
<1>6. ASSUME x = <<"occupied", Call(t).id>>,
             \/ Call(t).op = "new" /\ Call(t).at = "publish"
             \/ Call(t).op = "free" /\ Call(t).at = "clear"
      PROVE  FALSE
  <2>1. Call(u).op = "with" /\ Call(u).at = "check" /\ x = <<"occupied", Call(u).id>>
    BY <1>2, <1>3, <1>6 DEF HoldsPool
  <2>2. Call(u).id = Call(t).id
    BY <2>1, <1>6
  <2>3. CASE Call(t).op = "free"
    BY <2>1, <2>2, <2>3, <1>1, <1>2, <1>6, HeadsApart DEF HoldsInstance
  <2>4. CASE Call(t).op = "new" /\ Call(t).at = "publish"
    <3>1. ~occupied[Call(t).id]
      BY <2>4, <1>1, NoneAssumption DEF IndInv, Created
    <3>2. 1 \in DOMAIN stack[u] /\ stack[u][1] = Call(u)
      BY <1>2, StackFacts DEF IndInv
    <3> QED
      BY <1>1, <2>1, <2>2, <2>4, <3>1, <3>2, NewHasNoUser DEF IndInv
  <2> QED
    BY <2>3, <2>4, <1>6
<1>7. \/ x = <<"value", Call(t).id>>
      \/ /\ x = <<"occupied", Call(t).id>>
         /\ \/ Call(t).op = "new" /\ Call(t).at = "publish"
            \/ Call(t).op = "free" /\ Call(t).at = "clear"
  BY <1>1
<1>8. ~(x = <<"value", Call(t).id>>)
  BY <1>5
<1> QED
  BY <1>6, <1>7, <1>8

(* The hooks order all conflicting accesses to the slots, which are plain   *)
(* fields: there is no data race.                                           *)
THEOREM NoRaces == Spec => []RaceFree
<1>1. IndInv => RaceFree
  BY NoRace DEF RaceFree
<1> QED
  BY <1>1, Invariant, PTL

=============================================================================
