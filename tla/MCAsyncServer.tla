--------------------------- MODULE MCAsyncServer ---------------------------
(***************************************************************************)
(* Finite instances of AsyncServer: a TCP connection and a serial port     *)
(* that share one application.                                             *)
(***************************************************************************)
EXTENDS AsyncServer

F(to, op) == [to |-> to, op |-> op]

\* The serial port sees a frame for each way through run(), the connection
\* a write request, one it rejects and a broadcast, which TCP does not know.
SerialFrames == {F("other", "read")}
                  \cup {F("unit", op) : op \in {"damaged", "unknown", "force", "restart",
                                                 "counter", "clear", "forward"}}
                  \cup {F("broadcast", op) : op \in {"read", "write", "echo"}}
TcpFrames == {F("unit", "write"), F("unit", "unknown"), F("broadcast", "read")}
MixedFrames == [s \in Sessions |-> IF s \in SerialSessions THEN SerialFrames ELSE TcpFrames]
MixedMax == [s \in Sessions |-> IF s \in SerialSessions THEN 3 ELSE 1]
============================================================================
