----------------------------- MODULE HandlePool -----------------------------
(***************************************************************************)
(* The static pools behind the C API (mbus-ffi): clients, servers and      *)
(* gateways live in slots of typed sub-pools, and the application holds    *)
(* ids.  Threads of the application create, use and free them at the same  *)
(* time.  mbus_pool_lock guards creation and destruction, one lock per     *)
(* instance guards its use, and a borrow flag per slot catches calls from  *)
(* inside a callback.  The locks are hooks the application provides:       *)
(* mutexes, or nothing in a program of one thread.                         *)
(*                                                                         *)
(* The three pools have the same protocol and share the pool lock, so one  *)
(* module stands for all of them.                                          *)
(***************************************************************************)
EXTENDS Integers, Sequences, FiniteSets

CONSTANTS
  Threads,       \* threads of the application
  Kinds,         \* sub-pools: TCP, serial RTU, serial ASCII
  Capacity,      \* sub-pool -> its number of slots
  Instances,     \* identities of the clients created
  HookKinds,     \* what the lock hooks may be: mutexes, or nothing
  MaxDepth,      \* bound: calls nested in callbacks
  None

Ids == UNION {[kind : {k}, index : 0..(Capacity[k] - 1)] : k \in Kinds}

ASSUME PoolAssumption ==
  /\ Capacity \in [Kinds -> Nat] /\ MaxDepth \in Nat \ {0}
  /\ HookKinds \subseteq {"mutex", "nothing"}
ASSUME NoneAssumption == None \notin Threads \cup Instances \cup Ids

VARIABLES
  hooks,         \* what the application's hooks are
  occupied,      \* the fields of a slot
  value,         \* the instance in the slot, None when there is none
  borrow_flag,
  owner,         \* lock -> the thread that holds it, or None
  stack,         \* thread -> its calls in progress, innermost first
  live           \* id -> the instance the application knows by it, or None

vars == <<hooks, occupied, value, borrow_flag, owner, stack, live>>
slotVars == <<occupied, value, borrow_flag>>

(* The hooks of the examples keep one mutex per slot index, whatever the    *)
(* sub-pool.                                                                *)
PoolLock == -1
LockOf(id) == id.index
Locks == {PoolLock} \cup {LockOf(id) : id \in Ids}

Steps == {"lock", "check", "run", "pool", "scan", "write", "publish", "drop", "clear",
          "unpool", "unlock"}
Frame == [op : {"with", "new", "free"}, kind : Kinds, id : Ids \cup {None},
          at : Steps, inst : Instances \cup {None}]

Init ==
  /\ hooks \in HookKinds
  /\ occupied = [id \in Ids |-> FALSE]
  /\ value = [id \in Ids |-> None]
  /\ borrow_flag = [id \in Ids |-> FALSE]
  /\ owner = [l \in Locks |-> None]
  /\ stack = [t \in Threads |-> <<>>]
  /\ live = [id \in Ids |-> None]

-----------------------------------------------------------------------------
Frames == UNION {{stack[t][k] : k \in DOMAIN stack[t]} : t \in Threads}
Call(t) == Head(stack[t])
At(t, op, at) == stack[t] # <<>> /\ Call(t).op = op /\ Call(t).at = at
Goto(t, at) == stack' = [stack EXCEPT ![t][1].at = at]
Push(t, f) == stack' = [stack EXCEPT ![t] = <<f>> \o @]
Return(t) == stack' = [stack EXCEPT ![t] = Tail(@)]

Acquire(t, l) ==
  \/ hooks = "nothing" /\ UNCHANGED owner
  \/ hooks = "mutex" /\ owner[l] = None /\ owner' = [owner EXCEPT ![l] = t]
Release(l) == owner' = [owner EXCEPT ![l] = None]

-----------------------------------------------------------------------------
(* The application.  Where the hooks do nothing its calls do not overlap,   *)
(* where they are mutexes it makes none from a callback; and it never frees *)
(* an instance from a callback of its own.  A call on a freed id gets an    *)
(* error, a second free of one does nothing; no such call may overlap the   *)
(* creation of another instance, which could be given the id, and the two   *)
(* frees do not overlap.                                                    *)

MayCall(t) ==
  \/ stack[t] = <<>> /\ (hooks = "nothing" => Frames = {})
  \/ hooks = "nothing" /\ At(t, "with", "run") /\ Len(stack[t]) < MaxDepth

CallsOn(id, op) == {f \in Frames : f.op = op /\ f.id = id}
Creating == \E f \in Frames : f.op = "new"
Overtaken ==
  \E f \in Frames : \/ f.op = "with" /\ live[f.id] = None
                    \/ f.op = "free" /\ f.inst = None

CallWith(t, id) ==
  /\ MayCall(t) /\ (live[id] # None \/ ~Creating)
  /\ Push(t, [op |-> "with", kind |-> id.kind, id |-> id, inst |-> live[id],
              at |-> "lock"])
  /\ UNCHANGED <<slotVars, owner, live>>

CallNew(t, k, n) ==
  /\ MayCall(t) /\ ~Overtaken
  /\ \A id \in Ids : n # value[id] /\ n # live[id]
  /\ \A f \in Frames : n # f.inst
  /\ Push(t, [op |-> "new", kind |-> k, id |-> None, inst |-> n, at |-> "pool"])
  /\ UNCHANGED <<slotVars, owner, live>>

CallFree(t, id) ==
  /\ MayCall(t)
  /\ Creating => live[id] # None /\ CallsOn(id, "with") = {}
  /\ CallsOn(id, "free") = {}
  /\ \A k \in DOMAIN stack[t] : stack[t][k].id # id
  /\ live' = [live EXCEPT ![id] = None]
  /\ Push(t, [op |-> "free", kind |-> id.kind, id |-> id, inst |-> live[id], at |-> "lock"])
  /\ UNCHANGED <<slotVars, owner>>

-----------------------------------------------------------------------------
(* with_tcp_client, with_serial_client and their counterparts for servers   *)
(* and gateways.  (One for another kind of id returns before all this.)     *)

WithLock(t) ==
  /\ At(t, "with", "lock")
  /\ Acquire(t, LockOf(Call(t).id))
  /\ Goto(t, "check")
  /\ UNCHANGED <<slotVars, live>>

WithInvalid(t) ==
  /\ At(t, "with", "check") /\ ~occupied[Call(t).id]
  /\ Goto(t, "unlock")
  /\ UNCHANGED <<slotVars, owner, live>>

WithBusyClearsFlag(t) ==
  /\ At(t, "with", "check") /\ occupied[Call(t).id] /\ borrow_flag[Call(t).id]
  /\ borrow_flag' = [borrow_flag EXCEPT ![Call(t).id] = FALSE]
  /\ Goto(t, "unlock")
  /\ UNCHANGED <<occupied, value, owner, live>>

(* The swap finds the flag set and leaves it so.                            *)
WithBusy(t) ==
  /\ At(t, "with", "check") /\ occupied[Call(t).id] /\ borrow_flag[Call(t).id]
  /\ Goto(t, "unlock")
  /\ UNCHANGED <<slotVars, owner, live>>

WithBorrow(t) ==
  /\ At(t, "with", "check") /\ occupied[Call(t).id] /\ ~borrow_flag[Call(t).id]
  /\ borrow_flag' = [borrow_flag EXCEPT ![Call(t).id] = TRUE]
  /\ Goto(t, "run")
  /\ UNCHANGED <<occupied, value, owner, live>>

(* f returns, after whatever callbacks it made; BorrowGuard is dropped.     *)
WithDone(t) ==
  /\ At(t, "with", "run")
  /\ borrow_flag' = [borrow_flag EXCEPT ![Call(t).id] = FALSE]
  /\ Goto(t, "unlock")
  /\ UNCHANGED <<occupied, value, owner, live>>

WithUnlock(t) ==
  /\ At(t, "with", "unlock")
  /\ Release(LockOf(Call(t).id))
  /\ Return(t)
  /\ UNCHANGED <<slotVars, live>>

-----------------------------------------------------------------------------
(* pool_allocate_*: the first free slot of the sub-pool.                    *)

NewPoolUnlocked(t) ==
  /\ At(t, "new", "pool")
  /\ Goto(t, "scan")
  /\ UNCHANGED <<slotVars, owner, live>>

NewPool(t) ==
  /\ At(t, "new", "pool")
  /\ Acquire(t, PoolLock)
  /\ Goto(t, "scan")
  /\ UNCHANGED <<slotVars, live>>

FreeSlots(k) == {id \in Ids : id.kind = k /\ ~occupied[id]}

NewScan(t) ==
  /\ At(t, "new", "scan")
  /\ \E id \in FreeSlots(Call(t).kind) :
       /\ \A other \in FreeSlots(Call(t).kind) : id.index <= other.index
       /\ stack' = [stack EXCEPT ![t][1].id = id, ![t][1].at = "write"]
  /\ UNCHANGED <<slotVars, owner, live>>

(* MbusErrPoolFull: the value is dropped, the caller gets the invalid id.   *)
NewFull(t) ==
  /\ At(t, "new", "scan") /\ FreeSlots(Call(t).kind) = {}
  /\ Goto(t, "unpool")
  /\ UNCHANGED <<slotVars, owner, live>>

NewWrite(t) ==
  /\ At(t, "new", "write")
  /\ value' = [value EXCEPT ![Call(t).id] = Call(t).inst]
  /\ borrow_flag' = [borrow_flag EXCEPT ![Call(t).id] = FALSE]
  /\ Goto(t, "publish")
  /\ UNCHANGED <<occupied, owner, live>>

NewPublish(t) ==
  /\ At(t, "new", "publish")
  /\ occupied' = [occupied EXCEPT ![Call(t).id] = TRUE]
  /\ Goto(t, "unpool")
  /\ UNCHANGED <<value, borrow_flag, owner, live>>

(* The pool is unlocked and the id returned.                                *)
NewReturn(t) ==
  /\ At(t, "new", "unpool")
  /\ Release(PoolLock)
  /\ live' = [id \in Ids |-> IF id = Call(t).id THEN Call(t).inst ELSE live[id]]
  /\ Return(t)
  /\ UNCHANGED slotVars

-----------------------------------------------------------------------------
(* pool_free: the locks in this order, and back in the other one.  The      *)
(* borrow flag is not looked at.                                            *)

FreeLocksPoolFirst(id) == <<PoolLock, LockOf(id)>>
FreeLocks(id) == <<LockOf(id), PoolLock>>

FreeLock(t) ==
  /\ At(t, "free", "lock")
  /\ Acquire(t, FreeLocks(Call(t).id)[1])
  /\ Goto(t, "pool")
  /\ UNCHANGED <<slotVars, live>>

FreePool(t) ==
  /\ At(t, "free", "pool")
  /\ Acquire(t, FreeLocks(Call(t).id)[2])
  /\ Goto(t, "drop")
  /\ UNCHANGED <<slotVars, live>>

FreeNothing(t) ==
  /\ At(t, "free", "drop") /\ ~occupied[Call(t).id]
  /\ Goto(t, "unpool")
  /\ UNCHANGED <<slotVars, owner, live>>

FreeDrop(t) ==
  /\ At(t, "free", "drop") /\ occupied[Call(t).id]
  /\ value' = [value EXCEPT ![Call(t).id] = None]
  /\ borrow_flag' = [borrow_flag EXCEPT ![Call(t).id] = FALSE]
  /\ Goto(t, "clear")
  /\ UNCHANGED <<occupied, owner, live>>

FreeClearForgotten(t) ==
  /\ At(t, "free", "clear")
  /\ Goto(t, "unpool")
  /\ UNCHANGED <<slotVars, owner, live>>

FreeClear(t) ==
  /\ At(t, "free", "clear")
  /\ occupied' = [occupied EXCEPT ![Call(t).id] = FALSE]
  /\ Goto(t, "unpool")
  /\ UNCHANGED <<value, borrow_flag, owner, live>>

FreeUnpool(t) ==
  /\ At(t, "free", "unpool")
  /\ Release(PoolLock)
  /\ Goto(t, "unlock")
  /\ UNCHANGED <<slotVars, live>>

FreeUnlock(t) ==
  /\ At(t, "free", "unlock")
  /\ Release(LockOf(Call(t).id))
  /\ Return(t)
  /\ UNCHANGED <<slotVars, live>>

-----------------------------------------------------------------------------
ApplicationStep(t) ==
  \/ \E id \in Ids : CallWith(t, id) \/ CallFree(t, id)
  \/ \E k \in Kinds, n \in Instances : CallNew(t, k, n)
WithStep(t) ==
  WithLock(t) \/ WithInvalid(t) \/ WithBusy(t) \/ WithBorrow(t) \/ WithDone(t) \/ WithUnlock(t)
NewStep(t) ==
  NewPool(t) \/ NewScan(t) \/ NewFull(t) \/ NewWrite(t) \/ NewPublish(t) \/ NewReturn(t)
FreeStep(t) ==
  \/ FreeLock(t) \/ FreePool(t) \/ FreeNothing(t) \/ FreeDrop(t) \/ FreeClear(t)
  \/ FreeUnpool(t) \/ FreeUnlock(t)

Next ==
  /\ \E t \in Threads : ApplicationStep(t) \/ WithStep(t) \/ NewStep(t) \/ FreeStep(t)
  /\ UNCHANGED hooks

Spec == Init /\ [][Next]_vars

-----------------------------------------------------------------------------
(* Properties.                                                              *)

TypeOK ==
  /\ hooks \in HookKinds
  /\ occupied \in [Ids -> BOOLEAN] /\ borrow_flag \in [Ids -> BOOLEAN]
  /\ value \in [Ids -> Instances \cup {None}]
  /\ live \in [Ids -> Instances \cup {None}]
  /\ owner \in [Locks -> Threads \cup {None}]
  /\ stack \in [Threads -> Seq(Frame)]
  /\ \A f \in Frames : f.id # None => f.id.kind = f.kind

Users(id) == {u \in Threads \X (1..MaxDepth) :
                /\ u[2] \in DOMAIN stack[u[1]]
                /\ LET f == stack[u[1]][u[2]]
                   IN  f.id = id /\ f.op = "with" /\ f.at = "run"}

(* assume_init_mut is sound: while a call works on an instance, the slot    *)
(* holds the instance the caller meant, no other call works on it, from     *)
(* another thread or from a callback, and no free drops it underneath.      *)
ExclusiveUse ==
  \A id \in Ids : Users(id) # {} =>
    /\ Cardinality(Users(id)) = 1
    /\ occupied[id] /\ borrow_flag[id] /\ value[id] # None
    /\ \A u \in Users(id) : LET f == stack[u[1]][u[2]] IN f.inst # None => f.inst = value[id]

(* Handles neither dangle nor leak: an id the application holds names the   *)
(* instance it was returned for, and a slot is occupied without an owner    *)
(* only while the call that creates or frees it is in progress.             *)
HandlesSound ==
  \A id \in Ids :
    /\ live[id] # None => occupied[id] /\ value[id] = live[id]
    /\ occupied[id] /\ live[id] = None => \E f \in Frames : f.op # "with" /\ f.id = id

(* The plain fields a thread is about to read or write.                     *)
Reads(t) ==
  IF stack[t] = <<>> THEN {}
  ELSE LET f == Call(t) IN
    CASE f.op = "new" /\ f.at = "scan"     -> {<<"occupied", id>> : id \in {i \in Ids : i.kind = f.kind}}
      [] f.at \in {"check", "drop"}        -> {<<"occupied", f.id>>}
      [] OTHER                             -> {}
Writes(t) ==
  IF stack[t] = <<>> THEN {}
  ELSE LET f == Call(t) IN
    CASE f.at \in {"run", "drop", "write"} -> {<<"value", f.id>>}
      [] f.at \in {"publish", "clear"}     -> {<<"occupied", f.id>>}
      [] OTHER                             -> {}

(* The hooks order all conflicting accesses to the slots, which are no      *)
(* atomics: no thread is about to write a field another is about to access. *)
RaceFree ==
  \A t, u \in Threads : t # u => Writes(t) \cap (Reads(u) \cup Writes(u)) = {}

Holds(t) == {l \in Locks : owner[l] = t}
Waits(t, l) ==
  /\ stack[t] # <<>> /\ owner[l] # None
  /\ \/ Call(t).op = "with" /\ Call(t).at = "lock" /\ l = LockOf(Call(t).id)
     \/ Call(t).op = "new" /\ Call(t).at = "pool" /\ l = PoolLock
     \/ Call(t).op = "free" /\ Call(t).at = "lock" /\ l = FreeLocks(Call(t).id)[1]
     \/ Call(t).op = "free" /\ Call(t).at = "pool" /\ l = FreeLocks(Call(t).id)[2]

(* No cycle of waiting threads can close: whoever waits for an instance's   *)
(* lock holds none, and whoever waits for the pool's holds no pool lock.    *)
WaitsInOrder ==
  \A t \in Threads, l \in Locks : Waits(t, l) =>
    IF l = PoolLock THEN PoolLock \notin Holds(t) ELSE Holds(t) = {}
=============================================================================
