----------------------------- MODULE AsyncServer -----------------------------
(***************************************************************************)
(* The asynchronous Modbus server (mbus-async): one AsyncServerSession per *)
(* TCP connection, each in a task of its own, and sessions on serial       *)
(* ports, all calling one application behind an Arc<Mutex<APP>>.           *)
(*                                                                         *)
(* A step of a session runs from one await to the next: the receipt of a   *)
(* frame, the application's mutex, the application's handler, the send.    *)
(***************************************************************************)
EXTENDS Integers, FiniteSets

CONSTANTS
  TcpSessions,       \* connections of the accept loop
  SerialSessions,    \* serial ports
  Frames,            \* session -> the frames that may arrive
  BroadcastWrites,   \* enable_broadcast_writes
  CounterMax,        \* u16::MAX, where the statistics saturate
  MaxFrames,         \* bound: session -> frames received over its life
  MaxConnections,    \* bound: connections accepted in one place
  None               \* no frame, no response, no holder

Sessions == TcpSessions \cup SerialSessions

(* What a frame asks for: functions the application serves, FC05, FC06,     *)
(* FC0F and FC10 being "write" and all others "read"; one not compiled in   *)
(* ("unknown"); the sub-functions of FC08, "forward" one that the session   *)
(* leaves to the application.  "damaged" does not parse.                    *)
Fc08 == {"echo", "restart", "force", "counter", "clear", "forward"}
Frame == [to : {"unit", "broadcast", "other"},
          op : {"damaged", "read", "write", "unknown"} \cup Fc08]

ASSUME FramesAssumption == Frames \in [Sessions -> SUBSET Frame] /\ MaxFrames \in [Sessions -> Nat]
ASSUME BoundsAssumption ==
  CounterMax \in Nat \ {0} /\ MaxConnections \in Nat
ASSUME SessionsAssumption ==
  /\ IsFiniteSet(Sessions) /\ TcpSessions \cap SerialSessions = {}
  /\ BroadcastWrites \in BOOLEAN
ASSUME NoneAssumption == None \notin Frame \cup Sessions

VARIABLES
  accepting,         \* the accept loop runs
  connections,       \* TCP session -> connections still to come
  \* AsyncServerSession
  pc,                \* the await a session is at: recv, lock, handle, settle, send, ended
  req,               \* the request in progress, or None
  resp,              \* the response in progress, or None
  listen_only_mode,
  stats,
  frames,            \* frames received
  \* the application
  mutex,             \* the session that holds the application, or None
  register,          \* a register that every write request increments
  seen,              \* session -> the value its write request has read
  \* histories
  fate,              \* session -> frames since the counters were cleared, by what became of them
  written            \* write requests the application completed

sessionVars == <<pc, req, resp, listen_only_mode, stats, frames>>
appVars == <<mutex, register, seen, written>>
vars == <<accepting, connections, sessionVars, appVars, fate>>

Counters == {"message", "comm_error", "exception_error", "server_message", "no_response"}
Fates == {"damaged", "foreign", "silent", "answered", "refused", "app", "exception"}

Zero(S) == [c \in S |-> 0]
Saturate(n) == IF n > CounterMax THEN CounterMax ELSE n

(* The counters of st with each of those in S incremented.                  *)
Incremented(st, S) == [c \in Counters |-> IF c \in S THEN Saturate(st[c] + 1) ELSE st[c]]
Counted(s, S) == fate' = [fate EXCEPT ![s] = [f \in Fates |-> IF f \in S THEN @[f] + 1 ELSE @[f]]]

is_broadcast(f) == f.to = "broadcast"
is_broadcast_write_fc(f) == f.op = "write"

Init ==
  /\ accepting = TRUE
  /\ connections = [s \in TcpSessions |-> MaxConnections]
  /\ pc = [s \in Sessions |-> IF s \in TcpSessions THEN "ended" ELSE "recv"]
  /\ req = [s \in Sessions |-> None]
  /\ resp = [s \in Sessions |-> None]
  /\ listen_only_mode = [s \in Sessions |-> FALSE]
  /\ stats = [s \in Sessions |-> Zero(Counters)]
  /\ frames = [s \in Sessions |-> 0]
  /\ mutex = None
  /\ register = 0
  /\ seen = [s \in Sessions |-> 0]
  /\ fate = [s \in Sessions |-> Zero(Fates)]
  /\ written = 0

-----------------------------------------------------------------------------
(* The accept loop: a session of its own for every connection.              *)

Accept(s) ==
  /\ accepting /\ s \in TcpSessions /\ pc[s] = "ended" /\ connections[s] > 0
  /\ connections' = [connections EXCEPT ![s] = @ - 1]
  /\ pc' = [pc EXCEPT ![s] = "recv"]
  /\ listen_only_mode' = [listen_only_mode EXCEPT ![s] = FALSE]
  /\ stats' = [stats EXCEPT ![s] = Zero(Counters)]
  /\ frames' = [frames EXCEPT ![s] = 0]
  /\ fate' = [fate EXCEPT ![s] = Zero(Fates)]
  /\ UNCHANGED <<accepting, req, resp, appVars>>

(* serve_with_shutdown: sessions are not cancelled.                         *)
Shutdown ==
  /\ accepting
  /\ accepting' = FALSE
  /\ UNCHANGED <<connections, sessionVars, appVars, fate>>

(* A session's run() returns: its task ends.                                *)
Ends(s) ==
  /\ pc' = [pc EXCEPT ![s] = "ended"]
  /\ req' = [req EXCEPT ![s] = None]
  /\ resp' = [resp EXCEPT ![s] = None]

(* It goes round its loop, to the next frame.                               *)
Continues(s) ==
  /\ pc' = [pc EXCEPT ![s] = "recv"]
  /\ req' = [req EXCEPT ![s] = None]
  /\ resp' = [resp EXCEPT ![s] = None]

GoesTo(s, where, r) ==
  /\ pc' = [pc EXCEPT ![s] = where]
  /\ resp' = [resp EXCEPT ![s] = r]

ReceiveFails(s) ==
  /\ pc[s] = "recv"
  /\ Ends(s)
  /\ UNCHANGED <<accepting, connections, listen_only_mode, stats, frames, appVars, fate>>

(* run_with_shutdown of a serial server drops the session's future at       *)
(* whatever await it is, and a guard of the application with it.            *)
SerialShutdown(s) ==
  /\ s \in SerialSessions /\ pc[s] # "ended"
  /\ mutex' = IF mutex = s THEN None ELSE mutex
  /\ seen' = [seen EXCEPT ![s] = 0]
  /\ Ends(s)
  /\ UNCHANGED <<accepting, connections, listen_only_mode, stats, frames, register, written,
                 fate>>

-----------------------------------------------------------------------------
(* run(): a frame is received, counted, parsed and sorted, all without an   *)
(* await.                                                                   *)

Arrives(s) ==
  /\ pc[s] = "recv" /\ frames[s] < MaxFrames[s]
  /\ frames' = [frames EXCEPT ![s] = @ + 1]
  /\ UNCHANGED <<accepting, connections, appVars>>

Tally(s, S) == stats' = [stats EXCEPT ![s] = Incremented(@, {"message"} \cup S)]

(* recv_request: a frame that does not parse, or is for another unit.       *)
DiscardDamaged(s, f) ==
  /\ Arrives(s) /\ f.op = "damaged"
  /\ Tally(s, {"comm_error"}) /\ Counted(s, {"damaged"})
  /\ UNCHANGED <<pc, req, resp, listen_only_mode>>

DiscardForeign(s, f) ==
  /\ Arrives(s) /\ f.op # "damaged" /\ f.to = "other"
  /\ Tally(s, {}) /\ Counted(s, {"foreign"})
  /\ UNCHANGED <<pc, req, resp, listen_only_mode>>

is_addressed_to_us(f) == f.op # "damaged" /\ f.to # "other"

(* Broadcasts included.                                                     *)
should_discard_in_listen_only_mode(s, f) == listen_only_mode[s] /\ f.op \notin Fc08

DiscardUncounted(s, f) ==
  /\ Arrives(s) /\ is_addressed_to_us(f) /\ should_discard_in_listen_only_mode(s, f)
  /\ Tally(s, {}) /\ Counted(s, {"silent"})
  /\ UNCHANGED <<pc, req, resp, listen_only_mode>>

DiscardInListenOnlyMode(s, f) ==
  /\ Arrives(s) /\ is_addressed_to_us(f) /\ should_discard_in_listen_only_mode(s, f)
  /\ Tally(s, {"no_response"}) /\ Counted(s, {"silent"})
  /\ UNCHANGED <<pc, req, resp, listen_only_mode>>

Accepted(s, f) ==
  /\ Arrives(s) /\ is_addressed_to_us(f) /\ ~should_discard_in_listen_only_mode(s, f)

(* handle_fc08_auto, before any thought of broadcasts.                      *)
ForceListenOnly(s, f) ==
  /\ Accepted(s, f) /\ f.op = "force"
  /\ listen_only_mode' = [listen_only_mode EXCEPT ![s] = TRUE]
  /\ Tally(s, {"no_response"}) /\ Counted(s, {"silent"})
  /\ UNCHANGED <<pc, req, resp>>

(* Restart leaves listen-only mode before its echo is sent; the clearing of *)
(* the counters covers the request that asks for it.                        *)
AnswerFc08(s, f) ==
  /\ Accepted(s, f) /\ f.op \in {"echo", "restart", "counter", "clear"}
  /\ listen_only_mode' = [listen_only_mode EXCEPT ![s] = @ /\ f.op # "restart"]
  /\ IF f.op = "clear" THEN /\ stats' = [stats EXCEPT ![s] = Zero(Counters)]
                            /\ fate' = [fate EXCEPT ![s] = Zero(Fates)]
                       ELSE Tally(s, {}) /\ UNCHANGED fate
  /\ req' = [req EXCEPT ![s] = f]
  /\ GoesTo(s, "send", "ok")

SerialBroadcast(s, f) == s \in SerialSessions /\ is_broadcast(f)

(* handle_serial_broadcast; of the application's answer nothing is sent.    *)
BroadcastDiscarded(s, f) ==
  /\ Accepted(s, f) /\ f.op \notin Fc08 \ {"forward"} /\ SerialBroadcast(s, f)
  /\ ~(BroadcastWrites /\ is_broadcast_write_fc(f))
  /\ Tally(s, {"no_response"}) /\ Counted(s, {"silent"})
  /\ UNCHANGED <<pc, req, resp, listen_only_mode>>

DispatchBroadcast(s, f) ==
  /\ Accepted(s, f) /\ SerialBroadcast(s, f)
  /\ BroadcastWrites /\ is_broadcast_write_fc(f)
  /\ Tally(s, {"server_message"}) /\ UNCHANGED fate
  /\ req' = [req EXCEPT ![s] = f]
  /\ GoesTo(s, "lock", None)
  /\ UNCHANGED listen_only_mode

(* The notification on_exception, here and in Settle, is a callback without *)
(* effect on the session.  It takes the shared application with try_lock,   *)
(* so it never waits, and is skipped when another session holds it.         *)
RejectUnknown(s, f) ==
  /\ Accepted(s, f) /\ ~SerialBroadcast(s, f) /\ f.op = "unknown"
  /\ Tally(s, {"exception_error"}) /\ UNCHANGED fate
  /\ req' = [req EXCEPT ![s] = f]
  /\ GoesTo(s, "send", "exception")
  /\ UNCHANGED listen_only_mode

Dispatch(s, f) ==
  /\ Accepted(s, f) /\ ~SerialBroadcast(s, f) /\ f.op \in {"read", "write", "forward"}
  /\ Tally(s, {"server_message"}) /\ UNCHANGED fate
  /\ req' = [req EXCEPT ![s] = f]
  /\ GoesTo(s, "lock", None)
  /\ UNCHANGED listen_only_mode

Receive(s) ==
  \E f \in Frames[s] :
    \/ DiscardDamaged(s, f) \/ DiscardForeign(s, f) \/ DiscardInListenOnlyMode(s, f)
    \/ ForceListenOnly(s, f) \/ AnswerFc08(s, f) \/ BroadcastDiscarded(s, f)
    \/ DispatchBroadcast(s, f) \/ RejectUnknown(s, f) \/ Dispatch(s, f)

-----------------------------------------------------------------------------
(* app.handle(req): the mutex, then the application's own awaits.  A write  *)
(* request reads the register and, an await later, writes it.               *)

LockUnguarded(s) ==
  /\ pc[s] = "lock"
  /\ mutex' = s
  /\ seen' = [seen EXCEPT ![s] = register]
  /\ GoesTo(s, "handle", None)
  /\ UNCHANGED <<accepting, connections, req, listen_only_mode, stats, frames, register, written,
                 fate>>

Lock(s) ==
  /\ pc[s] = "lock" /\ mutex = None
  /\ mutex' = s
  /\ seen' = [seen EXCEPT ![s] = register]
  /\ GoesTo(s, "handle", None)
  /\ UNCHANGED <<accepting, connections, req, listen_only_mode, stats, frames, register, written,
                 fate>>

(* The application answers with data, with an exception, with a raw         *)
(* exception (ExceptionRaw, which is not counted as one) or not at all.     *)
Responses == {"ok", "exception", "raw", "NoResponse"}

(* The register: executed by the application when the answer is "ok".       *)
Execute(s, r) ==
  IF req[s].op = "write" /\ r = "ok"
  THEN register' = seen[s] + 1 /\ written' = written + 1
  ELSE UNCHANGED <<register, written>>

HandleForgetsGuard(s, r) ==
  /\ pc[s] = "handle"
  /\ mutex' = IF r = "exception" THEN mutex ELSE None
  /\ Execute(s, r)
  /\ seen' = [seen EXCEPT ![s] = 0]
  /\ GoesTo(s, "settle", r)
  /\ UNCHANGED <<accepting, connections, req, listen_only_mode, stats, frames, fate>>

(* The guard is dropped with the future, before the session goes on.        *)
Handle(s, r) ==
  /\ pc[s] = "handle"
  /\ mutex' = None
  /\ Execute(s, r)
  /\ seen' = [seen EXCEPT ![s] = 0]
  /\ GoesTo(s, "settle", r)
  /\ UNCHANGED <<accepting, connections, req, listen_only_mode, stats, frames, fate>>

(* The end of handle_serial_broadcast; the application's NoResponse.        *)
SettleSilently(s) ==
  /\ pc[s] = "settle" /\ (resp[s] = "NoResponse" \/ SerialBroadcast(s, req[s]))
  /\ stats' = [stats EXCEPT ![s] = Incremented(@, {"no_response"})]
  /\ Counted(s, {"app", "silent"})
  /\ Continues(s)
  /\ UNCHANGED <<accepting, connections, listen_only_mode, frames, appVars>>

(* update_response_stats, notify_exception.                                 *)
Settle(s) ==
  /\ pc[s] = "settle" /\ resp[s] # "NoResponse" /\ ~SerialBroadcast(s, req[s])
  /\ \/ /\ resp[s] = "exception"
        /\ stats' = [stats EXCEPT ![s] = Incremented(@, {"exception_error"})]
     \/ resp[s] # "exception" /\ UNCHANGED stats
  /\ GoesTo(s, "send", resp[s])
  /\ UNCHANGED <<accepting, connections, req, listen_only_mode, frames, appVars, fate>>

-----------------------------------------------------------------------------
(* respond and send_response.                                               *)

(* What has become of the request of s when its answer is out or refused.   *)
Fate(s, out) ==
  IF req[s].op = "clear" THEN {}
  ELSE {out} \cup (IF req[s].op \in {"read", "write", "forward"} THEN {"app"} ELSE {})
             \cup (IF resp[s] = "exception" THEN {"exception"} ELSE {})

Send(s) ==
  /\ pc[s] = "send"
  /\ Counted(s, Fate(s, "answered"))
  /\ Continues(s)
  /\ UNCHANGED <<accepting, connections, listen_only_mode, stats, frames, appVars>>

(* A response that cannot be encoded or sent ends the session, save that    *)
(* the statistics sub-functions ignore the error.                           *)
SendFails(s) ==
  /\ pc[s] = "send"
  /\ Counted(s, Fate(s, "refused"))
  /\ IF req[s].op \in {"counter", "clear"} THEN Continues(s) ELSE Ends(s)
  /\ UNCHANGED <<accepting, connections, listen_only_mode, stats, frames, appVars>>

-----------------------------------------------------------------------------
SessionStep(s) ==
  \/ \E r \in Responses : Handle(s, r)
  \/ SettleSilently(s) \/ Settle(s) \/ Send(s) \/ SendFails(s)

Next ==
  \/ Shutdown
  \/ \E s \in Sessions :
       \/ Accept(s) \/ SerialShutdown(s) \/ ReceiveFails(s) \/ Receive(s)
       \/ Lock(s) \/ SessionStep(s)

Spec == Init /\ [][Next]_vars

(* The runtime schedules every task, the application's handler and sends    *)
(* return; the mutex is fair, so a waiting session gets it in the end.      *)
LiveSpec ==
  /\ Spec
  /\ \A s \in Sessions : WF_vars(SessionStep(s)) /\ SF_vars(Lock(s))

-----------------------------------------------------------------------------
(* Properties.                                                              *)

TypeOK ==
  /\ accepting \in BOOLEAN
  /\ connections \in [TcpSessions -> 0..MaxConnections]
  /\ pc \in [Sessions -> {"recv", "lock", "handle", "settle", "send", "ended"}]
  /\ req \in [Sessions -> Frame \cup {None}]
  /\ resp \in [Sessions -> Responses \cup {None}]
  /\ listen_only_mode \in [Sessions -> BOOLEAN]
  /\ stats \in [Sessions -> [Counters -> 0..CounterMax]]
  /\ frames \in [Sessions -> Nat] /\ \A s \in Sessions : frames[s] <= MaxFrames[s]
  /\ mutex \in Sessions \cup {None}
  /\ register \in Nat /\ seen \in [Sessions -> Nat]
  /\ fate \in [Sessions -> [Fates -> Nat]]
  /\ written \in Nat

(* No write request is lost: the register, which every write request reads  *)
(* and increments with an await in between, counts the write requests that  *)
(* were completed, whatever the sessions interleave.  That is what sharing  *)
(* an application through Arc<Mutex<APP>> is for.                           *)
NoLostWrite == register = written

(* Between two requests the counters a client can read with FC08 agree with *)
(* what became of the frames since they were last cleared: every frame is   *)
(* counted as a message, every damaged one as an error, every request       *)
(* handed to the application as a server message, every typed exception on  *)
(* the line as one, and every request for this server that met with         *)
(* silence, in listen-only mode, as a broadcast or by the application's     *)
(* choice, exactly once as such; all up to saturation.                      *)
CountersExact ==
  \A s \in Sessions : pc[s] = "recv" =>
    LET f == fate[s]
        total == f["damaged"] + f["foreign"] + f["silent"] + f["answered"] + f["refused"]
    IN  /\ stats[s]["message"] = Saturate(total)
        /\ stats[s]["comm_error"] = Saturate(f["damaged"])
        /\ stats[s]["exception_error"] = Saturate(f["exception"])
        /\ stats[s]["server_message"] = Saturate(f["app"])
        /\ stats[s]["no_response"] = Saturate(f["silent"])

(* Every request a session has taken is brought to an end, whatever the     *)
(* other sessions, the accept loop's shutdown and failing sends do: no      *)
(* session waits for the application for ever.                              *)
EventuallyDone ==
  \A s \in Sessions : (pc[s] = "lock") ~> (pc[s] \in {"recv", "ended"})
=============================================================================
