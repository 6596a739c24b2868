---------------------------- MODULE RequestLedger ----------------------------
(***************************************************************************)
(* What a Modbus client promises its application, whatever the transport   *)
(* does: a request it takes on is pending until it is answered, and it is  *)
(* answered once and for good.  Several pending requests may be answered   *)
(* in one step (loss of the connection fails all of them).                 *)
(***************************************************************************)
CONSTANT Requests
VARIABLE status

Init == status = [r \in Requests |-> "new"]

(* The call is rejected, or asks for nothing that could be answered.        *)
Decline(r) == status[r] = "new" /\ status' = [status EXCEPT ![r] = "declined"]

Accept(r) == status[r] = "new" /\ status' = [status EXCEPT ![r] = "pending"]

Answer(R) ==
  /\ R # {} /\ \A r \in R : status[r] = "pending"
  /\ status' = [r \in Requests |-> IF r \in R THEN "answered" ELSE status[r]]

(* Every step changes what is recorded of some request.                     *)
Next ==
  /\ \E r \in Requests : status'[r] # status[r]
  /\ \/ \E r \in Requests : Decline(r) \/ Accept(r)
     \/ \E R \in SUBSET Requests : Answer(R)

Spec == Init /\ [][Next]_status
=============================================================================
